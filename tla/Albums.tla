------------------------------- MODULE Albums -------------------------------
(***************************************************************************)
(* Where the files of an album land: domain/albums.py, which groups one    *)
(* peer's files into albums and discs, and domain/paths.py, which names    *)
(* their folders.                                                          *)
(*                                                                         *)
(* A name is a sequence of tokens, of which the code tells these apart:    *)
(*   "cd"      any of the words cd, disc, disk, part, side                 *)
(*   "1"       a quantifier: one or two digits, a letter a-e, a number word *)
(*   "x"       other letters and digits                                    *)
(*   "@@"      the prefix of a share root                                  *)
(*   "?" "*"   characters only Windows forbids in a file name              *)
(*   "/"       the separators, which every host forbids                    *)
(*   "." " " "_" "-" "[" "(" "]"  themselves                               *)
(* A directory is the sequence of its names, from the share root down, and *)
(* a file is a directory and a name in it.                                 *)
(***************************************************************************)
EXTENDS Integers, Sequences

Tokens == {"cd", "1", "x", "@@", "?", "*", "/", ".", " ", "_", "-", "[", "(", "]"}
Name == Seq(Tokens)

-----------------------------------------------------------------------------
(* paths.py                                                                  *)

InvalidUnix == {"/"}
InvalidWindows == {"?", "*", "/"}
\* _INVALID_SEGMENT_CHARS: what any host forbids.
Invalid == InvalidUnix \cup InvalidWindows

Trailing == {".", " "}

Mark(c, forbidden) == IF c \in forbidden THEN "_" ELSE c
Without(s, forbidden) == [i \in DOMAIN s |-> Mark(s[i], forbidden)]
Replaced(s) == Without(s, Invalid)

\* rstrip(". "): what is left ends in another token, or is empty.
LastKept(s) ==
  CHOOSE n \in 0..Len(s) : /\ n = 0 \/ s[n] \notin Trailing
                           /\ \A i \in n + 1..Len(s) : s[i] \in Trailing
Stripped(s) == SubSeq(s, 1, LastKept(s))

sanitize_segment(s) == LET cleaned == Stripped(Replaced(s)) IN IF cleaned = <<>> THEN <<"_">> ELSE cleaned

build_album_destination(album, user) == sanitize_segment(album \o <<" ", "[">> \o user \o <<"]">>)

BatchDestinationFlat(destination, subpath) == <<destination>>
\* The folder of one disc, relative to slskd's downloads directory; a subpath
\* has no name or one.
batch_destination(destination, subpath) == <<destination>> \o subpath

\* rstrip("/") of a path: each slash it ends with leaves an empty name there.
LastNamed(path) ==
  CHOOSE n \in 0..Len(path) : /\ n = 0 \/ path[n] # <<>>
                              /\ \A i \in n + 1..Len(path) : path[i] = <<>>
\* lstrip("/") of a destination.
FirstKept(s) ==
  CHOOSE n \in 1..Len(s) + 1 : /\ n = Len(s) + 1 \/ s[n] # "/"
                               /\ \A i \in 1..n - 1 : s[i] = "/"

\* The local folder reported to Lidarr: paths from the root of the file system.
compute_storage_path(downloads, destination) ==
  SubSeq(downloads, 1, LastNamed(downloads))
    \o <<SubSeq(destination, FirstKept(destination), Len(destination))>>

-----------------------------------------------------------------------------
(* albums.py                                                                 *)

Separators == {" ", ".", "_", "-"}
WordTokens == {"cd", "1", "x", "_"}

\* _DISC_FOLDER_RE: a bracket and blanks, a disc word, separators, a quantifier
\* that ends at a word boundary.
is_disc_folder(s) ==
  \E i \in DOMAIN s : \E j \in i + 1..Len(s) :
    /\ \A k \in 1..i - 1 : s[k] = " " \/ (k = 1 /\ s[k] \in {"[", "("})
    /\ s[i] = "cd"
    /\ \A k \in i + 1..j - 1 : s[k] \in Separators
    /\ s[j] = "1"
    /\ j = Len(s) \/ s[j + 1] \notin WordTokens

ShareRoot(s) == s # <<>> /\ s[1] = "@@"

\* A disc folder belongs to the album above it, unless there is none or what is
\* above is the share root.
Promoted(dir) ==
  /\ Len(dir) > 1
  /\ ~ShareRoot(dir[Len(dir) - 1])
  /\ is_disc_folder(dir[Len(dir)])

album_root(dir) == IF Promoted(dir) THEN SubSeq(dir, 1, Len(dir) - 1) ELSE dir

subpath_of(dir) == IF Promoted(dir) THEN <<sanitize_segment(dir[Len(dir)])>> ELSE <<>>

\* The album of a root, its discs and their files.  Their order, which the code
\* makes deterministic, is left out.
AlbumGroup(files, root) ==
  LET own == {f \in files : album_root(f.dir) = root} IN
  [album_path |-> root,
   discs |-> {[subpath |-> s, files |-> {f \in own : subpath_of(f.dir) = s}] : s \in {subpath_of(f.dir) : f \in own}}]

group_files_by_album(files) == {AlbumGroup(files, root) : root \in {album_root(f.dir) : f \in files}}

\* The root's own name; files outside any directory make an album without one.
AlbumName(root) == IF root = <<>> THEN <<>> ELSE root[Len(root)]
=============================================================================
