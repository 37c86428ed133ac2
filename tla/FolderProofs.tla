---------------------------- MODULE FolderProofs ----------------------------
(* Where every transfer of Delivery lands, for any names of peers and of     *)
(* their folders.                                                            *)
EXTENDS DeliveryProofs

Folder(user, dir) ==
  batch_destination(build_album_destination(AlbumName(album_root(dir)), user), subpath_of(dir))

LEMMA RootIs ==
  ASSUME NEW dir \in Seq(Name)
  PROVE  album_root(dir) \in Seq(Name) /\ AlbumName(album_root(dir)) \in Name
<1>1. Len(dir) \in Nat
  BY LenProperties
<1>2. album_root(dir) \in Seq(Name)
  <2>1. CASE Promoted(dir)
    <3>1. Len(dir) > 1
      BY <2>1 DEF Promoted
    <3>2. \A i \in 1..Len(dir) - 1 : dir[i] \in Name
      BY <1>1, ElementOfSeq
    <3>3. SubSeq(dir, 1, Len(dir) - 1) \in Seq(Name)
      BY <1>1, <3>1, <3>2, SubSeqProperties
    <3> QED BY <2>1, <3>3 DEF album_root
  <2>2. CASE ~Promoted(dir)
    BY <2>2 DEF album_root
  <2> QED BY <2>1, <2>2
<1>3. \A root \in Seq(Name) : AlbumName(root) \in Name
  <2> SUFFICES ASSUME NEW root \in Seq(Name) PROVE AlbumName(root) \in Name
    OBVIOUS
  <2>1. CASE root = <<>>
    <3>1. <<>> \in Name
      BY DEF Name
    <3> QED BY <2>1, <3>1 DEF AlbumName
  <2>2. CASE root # <<>>
    <3>1. Len(root) \in 1..Len(root)
      BY <2>2, EmptySeq, LenProperties
    <3>2. root[Len(root)] \in Name
      BY <3>1, ElementOfSeq
    <3> QED BY <2>2, <3>2 DEF AlbumName
  <2> QED BY <2>1, <2>2
<1> QED BY <1>2, <1>3

\* Every file of a release is of one album, and in the disc of its folder.
LEMMA ReleaseIs ==
  ASSUME NEW r \in Releases
  PROVE  /\ r.user \in Name
         /\ \A d \in r.discs : \A f \in d.files :
              /\ f \in File
              /\ d.subpath = subpath_of(f.dir)
              /\ r.destination = build_album_destination(AlbumName(album_root(f.dir)), r.user)
<1>1. PICK a \in Answers : \E g \in group_files_by_album(a.files) : r = Release(a.user, g)
  BY DEF Releases
<1>2. PICK root : r = Release(a.user, AlbumGroup(a.files, root))
  BY <1>1 DEF group_files_by_album
<1>3. a.user \in Name /\ a.files \subseteq File
  BY DeliveryAssumption
<1> DEFINE own == {f \in a.files : album_root(f.dir) = root}
<1>4. /\ r.user = a.user
      /\ r.destination = build_album_destination(AlbumName(root), a.user)
      /\ r.discs = {[subpath |-> s, files |-> {f \in own : subpath_of(f.dir) = s}] : s \in {subpath_of(f.dir) : f \in own}}
  BY <1>2 DEF Release, AlbumGroup
<1>5. ASSUME NEW d \in r.discs, NEW f \in d.files
      PROVE  /\ f \in File
             /\ d.subpath = subpath_of(f.dir)
             /\ album_root(f.dir) = root
  <2>1. PICK s : d = [subpath |-> s, files |-> {h \in own : subpath_of(h.dir) = s}]
    BY <1>4
  <2>2. f \in own /\ subpath_of(f.dir) = s /\ d.subpath = s
    BY <2>1
  <2> QED BY <1>3, <2>2
<1> QED BY <1>3, <1>4, <1>5

-----------------------------------------------------------------------------
(* Every transfer is in the folder of its file.                              *)

Placed(x) ==
  /\ x.user \in Name /\ x.file \in File
  /\ x = [user |-> x.user, file |-> x.file, folder |-> Folder(x.user, x.file.dir)]

AllPlaced == \A x \in transfers \cup late : Placed(x)

LEMMA BatchPlaced ==
  ASSUME CallTypeOK, AllSound, NEW t \in Threads, call[t].pc = "post", NEW x \in Batch(t)
  PROVE  Placed(x)
<1> DEFINE r == call[t].release
<1> DEFINE d == call[t].disc
<1>1. d \in r.discs
  BY DEF AllSound, Sound
<1>2. r \in Releases
  <2>1. Idle.release.discs = {}
    BY DEF Idle
  <2>2. r \in Releases \cup {Idle.release}
    BY DEF CallTypeOK, Calls
  <2> QED BY <1>1, <2>1, <2>2
<1>3. PICK f \in d.files : x = [user |-> r.user, file |-> f, folder |-> batch_destination(r.destination, d.subpath)]
  BY DEF Batch
<1>4. /\ r.user \in Name /\ f \in File
      /\ d.subpath = subpath_of(f.dir)
      /\ r.destination = build_album_destination(AlbumName(album_root(f.dir)), r.user)
  BY <1>1, <1>2, ReleaseIs
<1>5. x.user = r.user /\ x.file = f
  BY <1>3
<1> QED BY <1>3, <1>4, <1>5 DEF Placed, Folder

PlacedInv == CallTypeOK /\ AllSound /\ AllPlaced

LEMMA PlacedAlways == Spec => []PlacedInv
<1>1. Init => PlacedInv
  BY InitSound DEF Init, PlacedInv, AllPlaced
<1>2. PlacedInv /\ [Next]_vars => PlacedInv'
  <2> SUFFICES ASSUME PlacedInv, [Next]_vars PROVE PlacedInv'
    OBVIOUS
  <2>1. CASE Late
    <3>1. transfers' \cup late' \subseteq transfers \cup late /\ call' = call
      BY <2>1 DEF Late, Taking
    <3> QED BY <3>1 DEF PlacedInv, AllPlaced, CallTypeOK, AllSound
  <2>2. CASE UNCHANGED vars
    BY <2>2 DEF PlacedInv, vars, AllPlaced, CallTypeOK, AllSound
  <2>3. ASSUME NEW t \in Threads, Grab(t) \/ Answered(t) \/ AnswerLost(t) \/ Compensate(t)
        PROVE  PlacedInv'
    <3>1. CallTypeOK' /\ AllSound'
      BY <2>3, ThreadSound DEF PlacedInv
    <3>2. CASE Grab(t)
      BY <3>1, <3>2, GrabIs DEF PlacedInv, AllPlaced
    <3>3. CASE Answered(t)
      <4>1. PICK taken \in SUBSET Batch(t) : transfers' = Taking(taken)
        BY <3>3, AnsweredIs DEF PlacedInv
      <4>2. call[t].pc = "post" /\ late' = late
        BY <3>3, AnsweredIs DEF PlacedInv
      <4>3. \A x \in transfers' \cup late' : x \in transfers \cup late \/ x \in Batch(t)
        BY <4>1, <4>2 DEF Taking
      <4> QED BY <3>1, <4>2, <4>3, BatchPlaced DEF PlacedInv, AllPlaced
    <3>4. CASE AnswerLost(t)
      <4>1. PICK taken \in SUBSET Batch(t) : transfers' = Taking(taken) /\ late' = late \cup (Batch(t) \ taken)
        BY <3>4, AnswerLostIs DEF PlacedInv
      <4>2. call[t].pc = "post"
        BY <3>4, AnswerLostIs DEF PlacedInv
      <4>3. \A x \in transfers' \cup late' : x \in transfers \cup late \/ x \in Batch(t)
        BY <4>1 DEF Taking
      <4> QED BY <3>1, <4>2, <4>3, BatchPlaced DEF PlacedInv, AllPlaced
    <3>5. CASE Compensate(t)
      <4>1. transfers' \subseteq transfers /\ late' = late
        BY <3>5 DEF Compensate
      <4> QED BY <3>1, <4>1 DEF PlacedInv, AllPlaced
    <3> QED BY <2>3, <3>2, <3>3, <3>4, <3>5
  <2> QED BY <2>1, <2>2, <2>3 DEF Next
<1> QED BY <1>1, <1>2, PTL DEF Spec

-----------------------------------------------------------------------------
(* What that folder is.                                                      *)

LEMMA DestinationIs ==
  ASSUME NEW album \in Name, NEW user \in Name
  PROVE  \E s \in Name : build_album_destination(album, user) = sanitize_segment(s)
<1>1. PICK b \in Name : b = <<" ", "[">>
  <2>1. <<" ", "[">> \in Seq(Tokens)
    BY DEF Tokens
  <2> QED BY <2>1 DEF Name
<1>2. PICK e \in Tokens : e = "]"
  BY DEF Tokens
<1>3. album \o b \o user \o <<e>> \in Name
  BY Framed
<1>4. build_album_destination(album, user) = sanitize_segment(album \o b \o user \o <<e>>)
  BY <1>1, <1>2, Zenon DEF build_album_destination
<1> QED BY <1>3, <1>4

\* A name that survives both hosts.
Survives(n) == \E s \in Name : n = sanitize_segment(s)

LEMMA SubpathIs ==
  ASSUME NEW dir \in Seq(Name)
  PROVE  subpath_of(dir) = <<>> \/ \E n : Survives(n) /\ subpath_of(dir) = <<n>>
<1>1. CASE Promoted(dir)
  <2>1. Len(dir) \in 1..Len(dir)
    BY <1>1, LenProperties DEF Promoted
  <2>2. dir[Len(dir)] \in Name
    BY <2>1, ElementOfSeq
  <2>3. Survives(sanitize_segment(dir[Len(dir)]))
    BY <2>2 DEF Survives
  <2>4. subpath_of(dir) = <<sanitize_segment(dir[Len(dir)])>>
    BY <1>1 DEF subpath_of
  <2> QED BY <2>3, <2>4
<1>2. CASE ~Promoted(dir)
  BY <1>2 DEF subpath_of
<1> QED BY <1>1, <1>2

\* One name put before others.
LEMMA Prefixed ==
  ASSUME NEW T, NEW a \in T, NEW s \in Seq(T)
  PROVE  /\ <<a>> \o s \in Seq(T) /\ Len(<<a>> \o s) = 1 + Len(s)
         /\ (<<a>> \o s)[1] = a
         /\ \A i \in 1..Len(s) : (<<a>> \o s)[1 + i] = s[i]
<1>1. PICK p \in Seq(T) : p = <<a>> /\ Len(p) = 1 /\ p[1] = a
  <2>1. <<a>> \in Seq(T) /\ Len(<<a>>) = 1 /\ <<a>>[1] = a
    OBVIOUS
  <2> QED BY <2>1, Zenon
<1>2. /\ p \o s \in Seq(T) /\ Len(p \o s) = Len(p) + Len(s)
      /\ \A i \in 1..Len(p) + Len(s) : (p \o s)[i] = IF i <= Len(p) THEN p[i] ELSE s[i - Len(p)]
  BY ConcatProperties
<1>3. Len(s) \in Nat
  BY LenProperties
<1>4. /\ p \o s \in Seq(T) /\ Len(p \o s) = 1 + Len(s) /\ (p \o s)[1] = a
      /\ \A i \in 1..Len(s) : (p \o s)[1 + i] = s[i]
  BY <1>1, <1>2, <1>3
<1> QED BY <1>1, <1>4, Zenon

LEMMA PrefixedAgree ==
  ASSUME NEW T, NEW a \in T, NEW b \in T, NEW s \in Seq(T), NEW r \in Seq(T), <<a>> \o s = <<b>> \o r
  PROVE  a = b /\ s = r
<1>1. PICK p \in Seq(T) : /\ p = <<a>> \o s /\ Len(p) = 1 + Len(s) /\ p[1] = a
                          /\ \A i \in 1..Len(s) : p[1 + i] = s[i]
  <2>1. /\ <<a>> \o s \in Seq(T) /\ Len(<<a>> \o s) = 1 + Len(s) /\ (<<a>> \o s)[1] = a
        /\ \A i \in 1..Len(s) : (<<a>> \o s)[1 + i] = s[i]
    BY Prefixed
  <2> QED BY <2>1, Zenon
<1>2. /\ p = <<b>> \o r /\ Len(p) = 1 + Len(r) /\ p[1] = b
      /\ \A i \in 1..Len(r) : p[1 + i] = r[i]
  <2>1. /\ Len(<<b>> \o r) = 1 + Len(r) /\ (<<b>> \o r)[1] = b
        /\ \A i \in 1..Len(r) : (<<b>> \o r)[1 + i] = r[i]
    BY Prefixed
  <2>2. p = <<b>> \o r
    BY <1>1, Zenon
  <2> QED BY <2>1, <2>2, Zenon
<1>3. Len(s) \in Nat /\ Len(r) \in Nat
  BY LenProperties
<1>4. Len(s) = Len(r) /\ \A i \in 1..Len(s) : s[i] = r[i]
  BY <1>1, <1>2, <1>3
<1> QED BY <1>1, <1>2, <1>4, SeqEqual

\* A folder is the album's, or one of its discs'.
LEMMA FolderIs ==
  ASSUME NEW user \in Name, NEW dir \in Seq(Name)
  PROVE  /\ Survives(build_album_destination(AlbumName(album_root(dir)), user))
         /\ Folder(user, dir) = <<build_album_destination(AlbumName(album_root(dir)), user)>> \o subpath_of(dir)
<1>1. Survives(build_album_destination(AlbumName(album_root(dir)), user))
  BY RootIs, DestinationIs DEF Survives
<1> QED BY <1>1, Zenon DEF Folder, batch_destination

LEMMA SubpathType ==
  ASSUME NEW dir \in Seq(Name)
  PROVE  subpath_of(dir) \in Seq({n \in Name : Survives(n)})
<1> DEFINE T == {n \in Name : Survives(n)}
<1>1. CASE subpath_of(dir) = <<>>
  BY <1>1
<1>2. ASSUME NEW n, Survives(n), subpath_of(dir) = <<n>>
      PROVE  subpath_of(dir) \in Seq(T)
  <2>1. n \in T
    BY <1>2, Sanitized DEF Survives
  <2> QED BY <1>2, <2>1
<1> QED BY <1>1, <1>2, SubpathIs

LEMMA FolderNames ==
  ASSUME NEW user \in Name, NEW dir \in Seq(Name)
  PROVE  \A i \in DOMAIN Folder(user, dir) : Survives(Folder(user, dir)[i])
<1> DEFINE T == {n \in Name : Survives(n)}
<1>1. PICK n \in T : Folder(user, dir) = <<n>> \o subpath_of(dir)
  <2>1. \A n : Survives(n) => n \in T
    BY Sanitized DEF Survives
  <2> QED BY <2>1, FolderIs, Zenon
<1>2. Folder(user, dir) \in Seq(T)
  BY <1>1, SubpathType, Prefixed
<1> QED BY <1>2, LenProperties, ElementOfSeq

LEMMA FoldersAgree ==
  ASSUME NEW user \in Name, NEW dir \in Seq(Name), NEW other \in Name, NEW dir2 \in Seq(Name),
         Folder(user, dir) = Folder(other, dir2)
  PROVE  /\ build_album_destination(AlbumName(album_root(dir)), user)
              = build_album_destination(AlbumName(album_root(dir2)), other)
         /\ subpath_of(dir) = subpath_of(dir2)
<1> DEFINE T == {n \in Name : Survives(n)}
<1> DEFINE a == build_album_destination(AlbumName(album_root(dir)), user)
<1> DEFINE b == build_album_destination(AlbumName(album_root(dir2)), other)
<1>1. \A n : Survives(n) => n \in T
  BY Sanitized DEF Survives
<1>2. Survives(a) /\ Folder(user, dir) = <<a>> \o subpath_of(dir)
  BY FolderIs, Zenon
<1>3. Survives(b) /\ Folder(other, dir2) = <<b>> \o subpath_of(dir2)
  BY FolderIs, Zenon
<1>4. a \in T /\ b \in T /\ <<a>> \o subpath_of(dir) = <<b>> \o subpath_of(dir2)
  BY <1>1, <1>2, <1>3, Zenon
<1>5. subpath_of(dir) \in Seq(T) /\ subpath_of(dir2) \in Seq(T)
  BY SubpathType
<1>6. a = b /\ subpath_of(dir) = subpath_of(dir2)
  <2> HIDE DEF T, a, b
  <2> QED BY <1>4, <1>5, PrefixedAgree
<1> QED BY <1>6

LEMMA SurvivesWhole ==
  ASSUME NEW n, Survives(n), NEW host
  PROVE  ~Traverses(n) /\ DiskName(host, n) = n
<1>1. PICK s \in Name : n = sanitize_segment(s)
  BY DEF Survives
<1>2. /\ Without(n, InvalidUnix) = n /\ Without(n, InvalidWindows) = n /\ Stripped(n) = n
      /\ n \notin {<<>>, <<".">>, <<".", ".">>}
  BY <1>1, SanitizedStays
<1>3. ~Traverses(n)
  BY <1>2, Zenon DEF Traverses
<1>4. DiskName(host, n) = n
  BY <1>2, Zenon DEF DiskName
<1> QED BY <1>3, <1>4

\* What a sequence starts with.
LEMMA First ==
  ASSUME NEW T, NEW p \in Seq(T), NEW r \in Seq(T), Len(p) = 1, Len(r) \in {1, 2}, p[1] = r[1]
  PROVE  SubSeq(r, 1, 1) = p
<1>1. r[1] \in T
  BY ElementOfSeq
<1>2. /\ SubSeq(r, 1, 1) \in Seq(T) /\ Len(SubSeq(r, 1, 1)) = 1
      /\ SubSeq(r, 1, 1)[1] = r[1]
  BY <1>1
<1>3. \A i \in 1..Len(p) : SubSeq(r, 1, 1)[i] = p[i]
  BY <1>2
<1> QED BY <1>2, <1>3, SeqEqual

\* A destination made by the bridge, and the downloads directory, are joined as
\* they are.
LEMMA StorageIs ==
  ASSUME NEW n, Survives(n), NEW d \in {Downloads, DownloadsSlash}
  PROVE  compute_storage_path(d, n) = Downloads \o <<n>>
<1>1. n \in Name /\ n # <<>> /\ \A i \in 1..Len(n) : n[i] \notin Invalid
  BY Sanitized DEF Survives
<1>2. Len(n) \in Nat /\ Len(n) >= 1 /\ n[1] # "/"
  <2>1. Len(n) \in Nat \ {0}
    BY <1>1, EmptySeq DEF Name
  <2>2. "/" \in Invalid
    BY DEF Invalid, InvalidUnix
  <2> QED BY <1>1, <2>1, <2>2
<1>3. FirstKept(n) = 1
  <2>1. \A m \in 1..Len(n) + 1 : /\ m = Len(n) + 1 \/ n[m] # "/"
                                 /\ \A i \in 1..m - 1 : n[i] = "/"
                               <=> m = 1
    BY <1>2
  <2>2. 1 \in 1..Len(n) + 1
    BY <1>2
  <2> QED BY <2>1, <2>2 DEF FirstKept
<1>4. SubSeq(n, FirstKept(n), Len(n)) = n
  <2>1. n \in Seq(Tokens)
    BY <1>1 DEF Name
  <2> QED BY <1>2, <1>3, <2>1
<1>5. SubSeq(d, 1, LastNamed(d)) = Downloads
  <2>1. \A p \in {Downloads, DownloadsSlash} : LastNamed(p) = 1
    <3> SUFFICES ASSUME NEW p \in {Downloads, DownloadsSlash} PROVE LastNamed(p) = 1
      OBVIOUS
    <3>1. Len(p) \in {1, 2} /\ p[1] # <<>> /\ \A i \in 2..Len(p) : p[i] = <<>>
      BY DEF Downloads, DownloadsSlash
    <3> DEFINE Last(m) == (m = 0 \/ p[m] # <<>>) /\ \A i \in m + 1..Len(p) : p[i] = <<>>
    <3>2. 1 \in 0..Len(p) /\ Last(1)
      BY <3>1
    <3>3. ASSUME NEW m \in 0..Len(p), Last(m) PROVE m = 1
      <4>1. m = 0 => 1 \in m + 1..Len(p)
        BY <3>1
      <4>2. m = 2 => p[m] = <<>>
        BY <3>1
      <4>3. m \in {0, 1, 2}
        BY <3>1
      <4> QED BY <3>1, <3>3, <4>1, <4>2, <4>3
    <3>4. LastNamed(p) = CHOOSE m \in 0..Len(p) : Last(m)
      BY Zenon DEF LastNamed
    <3> HIDE DEF Last
    <3> QED BY <3>2, <3>3, <3>4, Zenon
  <2>2. \A a, b : SubSeq(<<a>>, 1, 1) = <<a>> /\ SubSeq(<<a, b>>, 1, 1) = <<a>>
    <3> SUFFICES ASSUME NEW a, NEW b PROVE SubSeq(<<a>>, 1, 1) = <<a>> /\ SubSeq(<<a, b>>, 1, 1) = <<a>>
      OBVIOUS
    <3> DEFINE T == {a, b}
    <3>1. PICK p \in Seq(T) : p = <<a>> /\ Len(p) = 1 /\ p[1] = a
      <4>1. <<a>> \in Seq(T) /\ Len(<<a>>) = 1 /\ <<a>>[1] = a
        OBVIOUS
      <4> QED BY <4>1, Zenon
    <3>2. PICK q \in Seq(T) : q = <<a, b>> /\ Len(q) = 2 /\ q[1] = a
      <4>1. <<a, b>> \in Seq(T) /\ Len(<<a, b>>) = 2 /\ <<a, b>>[1] = a
        OBVIOUS
      <4> QED BY <4>1, Zenon
    <3> HIDE DEF T
    <3>3. SubSeq(p, 1, 1) = p
      BY <3>1, First
    <3>4. SubSeq(q, 1, 1) = p
      BY <3>1, <3>2, First
    <3> QED BY <3>1, <3>2, <3>3, <3>4, Zenon
  <2>3. SubSeq(Downloads, 1, 1) = Downloads /\ SubSeq(DownloadsSlash, 1, 1) = Downloads
    BY <2>2, Zenon DEF Downloads, DownloadsSlash
  <2> QED BY <2>1, <2>3, Zenon
<1> QED BY <1>4, <1>5, Zenon DEF compute_storage_path

\* For any names of peers and folders, slskd makes the very folders it is asked
\* for, on either system, and they are in the folder reported
\* (paths.py:8-66; slskd_gateway.py:195-210).
THEOREM FoldersHold == Spec => []ReportedFolderHolds
<1>1. PlacedInv => ReportedFolderHolds
  <2> SUFFICES ASSUME PlacedInv, NEW x \in transfers
               PROVE  /\ \A i \in DOMAIN x.folder, host \in {"unix", "windows"} :
                           ~Traverses(x.folder[i]) /\ DiskName(host, x.folder[i]) = x.folder[i]
                      /\ \A t \in Threads : Accepted(t) /\ Names(t, x) =>
                           \A d \in {Downloads, DownloadsSlash} :
                             SubSeq(Downloads \o x.folder, 1, 2)
                               = compute_storage_path(d, call[t].release.destination)
    BY DEF ReportedFolderHolds
  <2>1. Placed(x)
    BY DEF PlacedInv, AllPlaced
  <2>2. x.user \in Name /\ x.file \in File /\ x.file.dir \in Seq(Name) /\ x.folder = Folder(x.user, x.file.dir)
    BY <2>1 DEF Placed, File
  <2> DEFINE n == build_album_destination(AlbumName(album_root(x.file.dir)), x.user)
  <2>3. \A i \in DOMAIN x.folder : Survives(x.folder[i])
    BY <2>2, FolderNames
  <2>4. x.folder = <<n>> \o subpath_of(x.file.dir)
    BY <2>2, FolderIs, Zenon
  <2>5. \A i \in DOMAIN x.folder, host \in {"unix", "windows"} :
          ~Traverses(x.folder[i]) /\ DiskName(host, x.folder[i]) = x.folder[i]
    BY <2>3, SurvivesWhole
  <2>6. ASSUME NEW t \in Threads, Accepted(t), Names(t, x)
        PROVE  n = call[t].release.destination
    <3>1. PICK d \in call[t].release.discs : x.file \in d.files
      BY <2>6 DEF Names, FilesOf
    <3>2. call[t].release \in Releases
      <4>1. Idle.release.discs = {}
        BY DEF Idle
      <4>2. call[t].release \in Releases \cup {Idle.release}
        BY DEF PlacedInv, CallTypeOK, Calls
      <4> QED BY <3>1, <4>1, <4>2
    <3> QED BY <2>6, <3>1, <3>2, ReleaseIs DEF Names
  <2>7. ASSUME NEW p PROVE SubSeq(<<p>> \o x.folder, 1, 2) = <<p>> \o <<n>>
    <3> HIDE DEF n
    <3>1. CASE subpath_of(x.file.dir) = <<>>
      BY <2>4, <3>1
    <3>2. ASSUME NEW m, subpath_of(x.file.dir) = <<m>>
          PROVE  SubSeq(<<p>> \o x.folder, 1, 2) = <<p>> \o <<n>>
      BY <2>4, <3>2
    <3> QED BY <2>2, <3>1, <3>2, SubpathIs
  <2>8. \A d \in {Downloads, DownloadsSlash} : SubSeq(Downloads \o x.folder, 1, 2) = compute_storage_path(d, n)
    <3>1. Survives(n)
      BY <2>2, FolderIs, Zenon
    <3>2. SubSeq(Downloads \o x.folder, 1, 2) = Downloads \o <<n>>
      BY <2>7, Zenon DEF Downloads
    <3> QED BY <3>1, <3>2, StorageIs, Zenon
  <2> QED BY <2>5, <2>6, <2>8, Zenon
<1> QED BY <1>1, PlacedAlways, PTL

\* For any names, two files of one name of one album, or of two peers' albums of
\* one name, are in two folders, unless a character had to be replaced
\* (paths.py:38-66, albums.py:83-131).
THEOREM NoneOverwritten == Spec => []FilesKeptApart
<1>1. PlacedInv => FilesKeptApart
  <2> SUFFICES ASSUME PlacedInv, NEW x \in transfers, NEW y \in transfers,
                      x # y, x.folder = y.folder, x.file.name = y.file.name
               PROVE  /\ SameAlbum(x, y) => ~(\A z \in {x, y} : \A i \in DOMAIN z.file.dir : Plain(z.file.dir[i]))
                      /\ x.user # y.user /\ AlbumName(album_root(x.file.dir)) = AlbumName(album_root(y.file.dir))
                           => ~(Plain(x.user) /\ Plain(y.user))
    BY DEF FilesKeptApart
  <2>1. Placed(x) /\ Placed(y)
    BY DEF PlacedInv, AllPlaced
  <2>2. /\ x.user \in Name /\ x.file.dir \in Seq(Name) /\ x.folder = Folder(x.user, x.file.dir)
        /\ y.user \in Name /\ y.file.dir \in Seq(Name) /\ y.folder = Folder(y.user, y.file.dir)
    BY <2>1 DEF Placed, File
  <2>3. build_album_destination(AlbumName(album_root(x.file.dir)), x.user)
          = build_album_destination(AlbumName(album_root(y.file.dir)), y.user)
        /\ subpath_of(x.file.dir) = subpath_of(y.file.dir)
    <3>1. PICK u \in Name, v \in Name, d \in Seq(Name), e \in Seq(Name) :
            u = x.user /\ v = y.user /\ d = x.file.dir /\ e = y.file.dir
      BY <2>2
    <3>2. Folder(u, d) = Folder(v, e)
      BY <2>2, <3>1
    <3>3. /\ build_album_destination(AlbumName(album_root(d)), u) = build_album_destination(AlbumName(album_root(e)), v)
          /\ subpath_of(d) = subpath_of(e)
      BY <3>2, FoldersAgree
    <3> QED BY <3>1, <3>3
  <2>4. ASSUME SameAlbum(x, y), \A z \in {x, y} : \A i \in DOMAIN z.file.dir : Plain(z.file.dir[i])
        PROVE  FALSE
    <3>1. x.file.dir = y.file.dir
      BY <2>2, <2>3, <2>4, DiscsApart DEF SameAlbum, Plain
    <3>2. x.file = y.file
      BY <2>1, <3>1 DEF Placed, File
    <3> QED BY <2>1, <2>4, <3>2 DEF Placed, SameAlbum
  <2>5. ASSUME x.user # y.user, AlbumName(album_root(x.file.dir)) = AlbumName(album_root(y.file.dir)),
               Plain(x.user), Plain(y.user)
        PROVE  FALSE
    <3>1. Replaced(x.user) = Replaced(y.user)
      BY <2>2, <2>3, <2>5, RootIs, PeersApart
    <3> QED BY <2>2, <2>5, <3>1, PlainUnreplaced DEF Plain
  <2> QED BY <2>4, <2>5
<1> QED BY <1>1, PlacedAlways, PTL
=============================================================================
