---------------------------- MODULE AlbumsProofs ----------------------------
(* What the names of folders are worth, for every name a peer may use.     *)
EXTENDS Albums, SequenceTheorems, WellFoundedInduction, TLAPS

LEMMA MarkType ==
  ASSUME NEW c \in Tokens, NEW forbidden
  PROVE  Mark(c, forbidden) \in Tokens
BY DEF Mark, Tokens

LEMMA Marked ==
  ASSUME NEW c
  PROVE  /\ Mark(c, Invalid) \notin Invalid
         /\ \A forbidden : c \notin forbidden => Mark(c, forbidden) = c
<1>1. "_" \notin Invalid
  BY DEF Invalid, InvalidUnix, InvalidWindows
<1> QED BY <1>1, Zenon DEF Mark

LEMMA WithoutType ==
  ASSUME NEW s \in Name, NEW forbidden
  PROVE  /\ Without(s, forbidden) \in Name
         /\ Len(Without(s, forbidden)) = Len(s)
         /\ \A i \in 1..Len(s) : Without(s, forbidden)[i] = Mark(s[i], forbidden)
<1>1. Len(s) \in Nat /\ DOMAIN s = 1..Len(s) /\ \A i \in 1..Len(s) : s[i] \in Tokens
  BY LenProperties, ElementOfSeq DEF Name
<1> DEFINE w == [i \in 1..Len(s) |-> Mark(s[i], forbidden)]
<1>2. Without(s, forbidden) = w
  BY <1>1 DEF Without
<1>3. w \in [1..Len(s) -> Tokens]
  BY <1>1, MarkType
<1>4. w \in Name
  BY <1>1, <1>3, SeqDef DEF Name
<1>5. Len(w) = Len(s)
  <2>1. DOMAIN w = 1..Len(s)
    OBVIOUS
  <2> HIDE DEF w
  <2>2. Len(w) \in Nat /\ DOMAIN w = 1..Len(w)
    BY <1>4, LenProperties DEF Name
  <2> QED BY <1>1, <2>1, <2>2
<1> QED BY <1>2, <1>4, <1>5

\* The place where rstrip stops is there, and there is only one.
LEMMA LastKeptIs ==
  ASSUME NEW s \in Name
  PROVE  /\ LastKept(s) \in 0..Len(s)
         /\ LastKept(s) = 0 \/ s[LastKept(s)] \notin Trailing
         /\ \A i \in LastKept(s) + 1..Len(s) : s[i] \in Trailing
<1>1. Len(s) \in Nat
  BY LenProperties DEF Name
<1> DEFINE T == {k \in 0..Len(s) : k = Len(s) \/ s[Len(s) - k] \notin Trailing}
<1>2. T \subseteq Nat /\ T # {}
  BY <1>1
<1>3. \E m \in T : \A k \in T : ~(<<k, m>> \in OpToRel(<, Nat))
  <2> HIDE DEF T
  <2> QED BY <1>2, NatLessThanWellFounded, WFMin
<1>4. PICK m \in T : \A k \in T : ~(<<k, m>> \in OpToRel(<, Nat))
  BY <1>3
<1>5. \A k \in T : ~(k < m)
  BY <1>2, <1>4 DEF OpToRel
<1>6. m \in 0..Len(s) /\ (m = Len(s) \/ s[Len(s) - m] \notin Trailing)
  OBVIOUS
<1>7. \A i \in Len(s) - m + 1..Len(s) : s[i] \in Trailing
  <2>1. SUFFICES ASSUME NEW i \in Len(s) - m + 1..Len(s), s[i] \notin Trailing PROVE FALSE
    OBVIOUS
  <2>2. Len(s) - i \in 0..Len(s) /\ Len(s) - (Len(s) - i) = i /\ Len(s) - i < m
    BY <1>1, <1>6
  <2>3. Len(s) - i \in T
    BY <2>1, <2>2
  <2> QED BY <1>5, <2>2, <2>3
<1>8. Len(s) - m \in 0..Len(s) /\ (Len(s) - m = 0 \/ s[Len(s) - m] \notin Trailing)
  BY <1>1, <1>6
<1>9. \E n \in 0..Len(s) : /\ n = 0 \/ s[n] \notin Trailing
                           /\ \A i \in n + 1..Len(s) : s[i] \in Trailing
  <2> HIDE DEF T
  <2> QED BY <1>7, <1>8
<1> QED BY <1>9 DEF LastKept

LEMMA StrippedIs ==
  ASSUME NEW s \in Name
  PROVE  /\ Stripped(s) \in Name
         /\ Len(Stripped(s)) = LastKept(s)
         /\ \A i \in 1..LastKept(s) : Stripped(s)[i] = s[i]
<1>1. Len(s) \in Nat /\ \A i \in 1..Len(s) : s[i] \in Tokens
  BY LenProperties, ElementOfSeq DEF Name
<1>2. LastKept(s) \in 0..Len(s)
  BY LastKeptIs
<1>3. \A i \in 1..LastKept(s) : s[i] \in Tokens
  BY <1>1, <1>2
<1>4. LastKept(s) \in Int /\ 1 \in Int
  BY <1>1, <1>2
<1>5. /\ SubSeq(s, 1, LastKept(s)) \in Seq(Tokens)
      /\ Len(SubSeq(s, 1, LastKept(s))) = IF 1 <= LastKept(s) THEN LastKept(s) - 1 + 1 ELSE 0
      /\ \A i \in 1..LastKept(s) - 1 + 1 : SubSeq(s, 1, LastKept(s))[i] = s[1 + i - 1]
  BY <1>3, <1>4, SubSeqProperties
<1> QED BY <1>1, <1>2, <1>5 DEF Stripped, Name

\* A name that does not end in what is stripped is kept whole.
LEMMA KeptWhole ==
  ASSUME NEW s \in Name, s # <<>>, s[Len(s)] \notin Trailing
  PROVE  Stripped(s) = s
<1>1. Len(s) \in Nat \ {0}
  BY EmptySeq DEF Name
<1>2. LastKept(s) = Len(s)
  BY <1>1, LastKeptIs
<1> QED BY <1>1, <1>2, StrippedIs, SeqEqual DEF Name

LEMMA Single ==
  ASSUME NEW T, NEW e \in T
  PROVE  /\ <<e>> \in Seq(T) /\ <<e>> # <<>> /\ <<e>>[Len(<<e>>)] = e
         /\ \A i \in 1..Len(<<e>>) : <<e>>[i] = e
OBVIOUS

\* What sanitize_segment returns no host has to change, nor can mistake for a
\* way out of the folder.
LEMMA Sanitized ==
  ASSUME NEW s \in Name
  PROVE  /\ sanitize_segment(s) \in Name
         /\ sanitize_segment(s) # <<>>
         /\ sanitize_segment(s)[Len(sanitize_segment(s))] \notin Trailing
         /\ \A i \in 1..Len(sanitize_segment(s)) : sanitize_segment(s)[i] \notin Invalid
<1>1. PICK r \in Name : r = Replaced(s) /\ Len(r) = Len(s) /\ \A i \in 1..Len(s) : r[i] \notin Invalid
  BY WithoutType, Marked DEF Replaced
<1>2. Len(s) \in Nat
  BY LenProperties DEF Name
<1>4. PICK c \in Name : /\ c = Stripped(r) /\ Len(c) \in 0..Len(s)
                        /\ Len(c) = 0 \/ r[Len(c)] \notin Trailing
                        /\ \A i \in 1..Len(c) : c[i] = r[i]
  BY <1>1, StrippedIs, LastKeptIs
<1>5. CASE c = <<>>
  <2>1. sanitize_segment(s) = <<"_">>
    BY <1>1, <1>4, <1>5 DEF sanitize_segment
  <2>2. "_" \in Tokens
    BY DEF Tokens
  <2>3. /\ <<"_">> \in Name /\ <<"_">> # <<>> /\ <<"_">>[Len(<<"_">>)] = "_"
        /\ \A i \in 1..Len(<<"_">>) : <<"_">>[i] = "_"
    BY <2>2, Single, Zenon DEF Name
  <2>4. "_" \notin Invalid /\ "_" \notin Trailing
    BY DEF Invalid, InvalidUnix, InvalidWindows, Trailing
  <2> QED BY <2>1, <2>3, <2>4, Zenon
<1>6. CASE c # <<>>
  <2>1. sanitize_segment(s) = c
    BY <1>1, <1>4, <1>6 DEF sanitize_segment
  <2>2. Len(c) \in Nat \ {0}
    BY <1>4, <1>6, EmptySeq DEF Name
  <2>3. Len(c) \in 1..Len(s)
    BY <1>2, <1>4, <2>2
  <2>4. c[Len(c)] \notin Trailing
    BY <1>2, <1>4, <2>2
  <2>5. \A i \in 1..Len(c) : c[i] \notin Invalid
    BY <1>1, <1>2, <1>4, <2>3
  <2> QED BY <1>4, <1>6, <2>1, <2>4, <2>5
<1> QED BY <1>5, <1>6

-----------------------------------------------------------------------------
(* Names on the disk.                                                        *)

\* A name with nothing to replace is not changed by replacing.
LEMMA NothingReplaced ==
  ASSUME NEW s \in Name, NEW forbidden, \A i \in 1..Len(s) : s[i] \notin forbidden
  PROVE  Without(s, forbidden) = s
<1>1. \A i \in 1..Len(s) : Without(s, forbidden)[i] = s[i]
  <2>1. \A c : c \notin forbidden => Mark(c, forbidden) = c
    BY Marked
  <2> QED BY <2>1, WithoutType
<1>2. Without(s, forbidden) \in Name /\ Len(Without(s, forbidden)) = Len(s)
  BY WithoutType
<1> QED BY <1>1, <1>2, SeqEqual DEF Name

LEMMA SanitizedStays ==
  ASSUME NEW s \in Name
  PROVE  /\ Without(sanitize_segment(s), InvalidUnix) = sanitize_segment(s)
         /\ Without(sanitize_segment(s), InvalidWindows) = sanitize_segment(s)
         /\ Stripped(sanitize_segment(s)) = sanitize_segment(s)
         /\ sanitize_segment(s) \notin {<<>>, <<".">>, <<".", ".">>}
<1>1. PICK c \in Name : /\ c = sanitize_segment(s) /\ c # <<>>
                        /\ c[Len(c)] \notin Trailing
                        /\ \A i \in 1..Len(c) : c[i] \notin Invalid
  BY Sanitized
<1>2. \A i \in 1..Len(c) : c[i] \notin InvalidUnix /\ c[i] \notin InvalidWindows
  BY <1>1 DEF Invalid
<1>3. Without(c, InvalidUnix) = c /\ Without(c, InvalidWindows) = c
  BY <1>2, NothingReplaced
<1>4. Stripped(c) = c
  BY <1>1, KeptWhole
<1>5. c # <<".">> /\ c # <<".", ".">>
  <2>1. "." \in Trailing
    BY DEF Trailing
  <2>2. Len(<<".">>) = 1 /\ <<".">>[1] = "." /\ Len(<<".", ".">>) = 2 /\ <<".", ".">>[2] = "."
    OBVIOUS
  <2> QED BY <1>1, <2>1, <2>2, Zenon
<1> QED BY <1>1, <1>3, <1>4, <1>5

\* A name sanitize_segment keeps has nothing to replace.
LEMMA PlainUnreplaced ==
  ASSUME NEW u \in Name, sanitize_segment(u) = u
  PROVE  Replaced(u) = u
BY Sanitized, NothingReplaced DEF Replaced

\* What is put between two others in one sequence.
LEMMA Joined ==
  ASSUME NEW a \in Name, NEW b \in Name
  PROVE  /\ a \o b \in Name /\ Len(a \o b) = Len(a) + Len(b)
         /\ \A i \in 1..Len(a) : (a \o b)[i] = a[i]
         /\ \A i \in 1..Len(b) : (a \o b)[Len(a) + i] = b[i]
<1>1. Len(a) \in Nat /\ Len(b) \in Nat
  BY LenProperties DEF Name
<1>2. /\ a \o b \in Name /\ Len(a \o b) = Len(a) + Len(b)
      /\ \A i \in 1..Len(a) + Len(b) : (a \o b)[i] = IF i <= Len(a) THEN a[i] ELSE b[i - Len(a)]
  BY ConcatProperties DEF Name
<1> QED BY <1>1, <1>2

LEMMA Framed ==
  ASSUME NEW a \in Name, NEW b \in Name, NEW u \in Name, NEW e \in Tokens
  PROVE  /\ a \o b \o u \o <<e>> \in Name
         /\ Len(a \o b \o u \o <<e>>) = Len(a) + Len(b) + Len(u) + 1
         /\ \A i \in 1..Len(u) : (a \o b \o u \o <<e>>)[Len(a) + Len(b) + i] = u[i]
         /\ (a \o b \o u \o <<e>>)[Len(a) + Len(b) + Len(u) + 1] = e
<1>1. Len(a) \in Nat /\ Len(b) \in Nat /\ Len(u) \in Nat
  BY LenProperties DEF Name
<1>2. a \o b \in Name /\ Len(a \o b) = Len(a) + Len(b)
  BY Joined
<1>3. PICK p \in Name : p = a \o b /\ Len(p) = Len(a) + Len(b)
  BY <1>2, Zenon
<1>4. p \o u \in Name /\ Len(p \o u) = Len(p) + Len(u) /\ \A i \in 1..Len(u) : (p \o u)[Len(p) + i] = u[i]
  BY Joined
<1>5. PICK q \in Name : q = p \o u /\ Len(q) = Len(p) + Len(u) /\ \A i \in 1..Len(u) : q[Len(p) + i] = u[i]
  BY <1>4, Zenon
<1>6. PICK f \in Name : f = <<e>> /\ Len(f) = 1 /\ f[1] = e
  <2>1. \A T : \A x \in T : <<x>> \in Seq(T) /\ Len(<<x>>) = 1 /\ <<x>>[1] = x
    OBVIOUS
  <2> QED BY <2>1, Zenon DEF Name
<1>7. /\ q \o f \in Name /\ Len(q \o f) = Len(q) + Len(f)
      /\ \A i \in 1..Len(q) : (q \o f)[i] = q[i]
      /\ \A i \in 1..Len(f) : (q \o f)[Len(q) + i] = f[i]
  BY Joined
<1>8. PICK s \in Name : /\ s = q \o f /\ Len(s) = Len(q) + Len(f)
                        /\ \A i \in 1..Len(q) : s[i] = q[i]
                        /\ \A i \in 1..Len(f) : s[Len(q) + i] = f[i]
  BY <1>7, Zenon
<1>9. Len(s) = Len(a) + Len(b) + Len(u) + 1
  BY <1>1, <1>3, <1>5, <1>6, <1>8
<1>10. ASSUME NEW i \in 1..Len(u) PROVE s[Len(a) + Len(b) + i] = u[i]
  <2>1. Len(p) + i \in 1..Len(q) /\ Len(p) = Len(a) + Len(b)
    BY <1>1, <1>3, <1>5
  <2> QED BY <1>5, <1>8, <2>1
<1>11. s[Len(a) + Len(b) + Len(u) + 1] = e
  <2>1. 1 \in 1..Len(f) /\ Len(q) + 1 = Len(a) + Len(b) + Len(u) + 1
    BY <1>1, <1>3, <1>5, <1>6
  <2> QED BY <1>6, <1>8, <2>1
<1>12. s = a \o b \o u \o <<e>>
  BY <1>3, <1>5, <1>6, <1>8, Zenon
<1> QED BY <1>9, <1>10, <1>11, <1>12, Zenon

\* The bracket at its end keeps a destination from being stripped.
LEMMA DestinationKept ==
  ASSUME NEW album \in Name, NEW user \in Name
  PROVE  build_album_destination(album, user) = Replaced(album \o <<" ", "[">> \o user \o <<"]">>)
<1>1. PICK b \in Name : b = <<" ", "[">>
  <2>1. " " \in Tokens /\ "[" \in Tokens
    BY DEF Tokens
  <2>2. \A S : \A x, y \in S : <<x, y>> \in Seq(S)
    OBVIOUS
  <2> QED BY <2>1, <2>2, Zenon DEF Name
<1>2. PICK e \in Tokens : e = "]" /\ e \notin Invalid /\ e \notin Trailing
  BY DEF Tokens, Invalid, InvalidUnix, InvalidWindows, Trailing
<1>3. e \notin Invalid /\ e \notin Trailing
  BY <1>2
<1>4. PICK s \in Name : /\ s = album \o b \o user \o <<e>>
                        /\ Len(s) = Len(album) + Len(b) + Len(user) + 1
                        /\ s[Len(album) + Len(b) + Len(user) + 1] = e
  <2>1. /\ album \o b \o user \o <<e>> \in Name
        /\ Len(album \o b \o user \o <<e>>) = Len(album) + Len(b) + Len(user) + 1
        /\ (album \o b \o user \o <<e>>)[Len(album) + Len(b) + Len(user) + 1] = e
    BY Framed
  <2> QED BY <2>1, Zenon
<1>10. Len(s) \in Nat \ {0}
  <2>1. Len(album) \in Nat /\ Len(b) \in Nat /\ Len(user) \in Nat
    BY LenProperties DEF Name
  <2>2. Len(s) = Len(album) + Len(b) + Len(user) + 1
    BY <1>4
  <2> QED BY <2>1, <2>2
<1>11. s[Len(s)] = e
  BY <1>4, Zenon
<1>5. /\ Replaced(s) \in Name /\ Len(Replaced(s)) = Len(s)
      /\ Replaced(s)[Len(s)] = Mark(e, Invalid)
  <2>1. Len(s) \in 1..Len(s)
    BY <1>10
  <2> QED BY <1>11, <2>1, WithoutType DEF Replaced
<1>6. Mark(e, Invalid) = e
  BY <1>3, Marked
<1>7. Replaced(s) # <<>>
  BY <1>5, <1>10, EmptySeq
<1>8. Stripped(Replaced(s)) = Replaced(s)
  BY <1>3, <1>5, <1>6, <1>7, KeptWhole
<1>9. sanitize_segment(s) = Replaced(s)
  BY <1>7, <1>8 DEF sanitize_segment
<1> QED BY <1>1, <1>2, <1>4, <1>9, Zenon DEF build_album_destination

\* Two peers' destinations for one album name are one only if their names differ
\* in replaced characters alone.
LEMMA PeersApart ==
  ASSUME NEW album \in Name, NEW user \in Name, NEW other \in Name
  PROVE  build_album_destination(album, user) = build_album_destination(album, other) => Replaced(user) = Replaced(other)
<1>1. PICK b \in Name : b = <<" ", "[">>
  <2>1. " " \in Tokens /\ "[" \in Tokens
    BY DEF Tokens
  <2>2. \A S : \A x, y \in S : <<x, y>> \in Seq(S)
    OBVIOUS
  <2> QED BY <2>1, <2>2, Zenon DEF Name
<1>7. PICK e \in Tokens : e = "]"
  BY DEF Tokens
<1>2. PICK s \in Name : /\ s = album \o b \o user \o <<e>> /\ Len(s) = Len(album) + Len(b) + Len(user) + 1
                        /\ \A i \in 1..Len(user) : s[Len(album) + Len(b) + i] = user[i]
  <2>1. /\ album \o b \o user \o <<e>> \in Name
        /\ Len(album \o b \o user \o <<e>>) = Len(album) + Len(b) + Len(user) + 1
    BY Framed
  <2>2. ASSUME NEW i \in 1..Len(user)
        PROVE  (album \o b \o user \o <<e>>)[Len(album) + Len(b) + i] = user[i]
    BY Framed
  <2> QED BY <2>1, <2>2, Zenon
<1>3. PICK z \in Name : /\ z = album \o b \o other \o <<e>> /\ Len(z) = Len(album) + Len(b) + Len(other) + 1
                        /\ \A i \in 1..Len(other) : z[Len(album) + Len(b) + i] = other[i]
  <2>1. /\ album \o b \o other \o <<e>> \in Name
        /\ Len(album \o b \o other \o <<e>>) = Len(album) + Len(b) + Len(other) + 1
    BY Framed
  <2>2. ASSUME NEW i \in 1..Len(other)
        PROVE  (album \o b \o other \o <<e>>)[Len(album) + Len(b) + i] = other[i]
    BY Framed
  <2> QED BY <2>1, <2>2, Zenon
<1>4. Len(album) \in Nat /\ Len(b) \in Nat /\ Len(user) \in Nat /\ Len(other) \in Nat
  BY LenProperties DEF Name
<1>5. ASSUME build_album_destination(album, user) = build_album_destination(album, other)
      PROVE  Without(s, Invalid) = Without(z, Invalid)
  <2>1. build_album_destination(album, user) = Without(s, Invalid)
    <3>1. build_album_destination(album, user) = Replaced(album \o <<" ", "[">> \o user \o <<"]">>)
      BY DestinationKept, Zenon
    <3> QED BY <1>1, <1>2, <1>7, <3>1, Zenon DEF Replaced
  <2>2. build_album_destination(album, other) = Without(z, Invalid)
    <3>1. build_album_destination(album, other) = Replaced(album \o <<" ", "[">> \o other \o <<"]">>)
      BY DestinationKept, Zenon
    <3> QED BY <1>1, <1>3, <1>7, <3>1, Zenon DEF Replaced
  <2> QED BY <1>5, <2>1, <2>2, Zenon
<1>6. ASSUME Without(s, Invalid) = Without(z, Invalid)
      PROVE  Replaced(user) = Replaced(other)
  <2>1. Len(s) = Len(z)
    BY <1>6, WithoutType
  <2>2. Len(s) = Len(album) + Len(b) + Len(user) + 1 /\ Len(z) = Len(album) + Len(b) + Len(other) + 1
    BY <1>2, <1>3
  <2>3. Len(user) = Len(other)
    <3>1. \A x, y, m, n \in Nat : x + y + m + 1 = x + y + n + 1 => m = n
      OBVIOUS
    <3>2. Len(album) + Len(b) + Len(user) + 1 = Len(album) + Len(b) + Len(other) + 1
      BY <2>1, <2>2, Zenon
    <3> QED BY <1>4, <3>1, <3>2, Zenon
  <2>4. ASSUME NEW i \in 1..Len(user) PROVE Mark(user[i], Invalid) = Mark(other[i], Invalid)
    <3>1. Len(album) + Len(b) + i \in 1..Len(s) /\ Len(album) + Len(b) + i \in 1..Len(z) /\ i \in 1..Len(other)
      BY <1>4, <2>2, <2>3
    <3>2. Mark(s[Len(album) + Len(b) + i], Invalid) = Mark(z[Len(album) + Len(b) + i], Invalid)
      BY <1>6, <3>1, WithoutType
    <3>3. s[Len(album) + Len(b) + i] = user[i] /\ z[Len(album) + Len(b) + i] = other[i]
      BY <1>2, <1>3, <3>1
    <3> QED BY <3>2, <3>3
  <2> QED BY <2>3, <2>4, WithoutType, SeqEqual DEF Replaced, Name
<1> QED BY <1>5, <1>6

-----------------------------------------------------------------------------
(* Folders of one album.                                                     *)

LEMMA FrontAndLast ==
  ASSUME NEW T, NEW d \in Seq(T), NEW e \in Seq(T), Len(d) > 1, Len(e) > 1,
         SubSeq(d, 1, Len(d) - 1) = SubSeq(e, 1, Len(e) - 1), d[Len(d)] = e[Len(e)]
  PROVE  d = e
<1>1. Len(d) \in Nat /\ Len(e) \in Nat
  BY LenProperties
<1>2. /\ Len(SubSeq(d, 1, Len(d) - 1)) = Len(d) - 1
      /\ \A i \in 1..Len(d) - 1 : SubSeq(d, 1, Len(d) - 1)[i] = d[i]
  BY <1>1, ElementOfSeq, SubSeqProperties
<1>3. /\ Len(SubSeq(e, 1, Len(e) - 1)) = Len(e) - 1
      /\ \A i \in 1..Len(e) - 1 : SubSeq(e, 1, Len(e) - 1)[i] = e[i]
  BY <1>1, ElementOfSeq, SubSeqProperties
<1>4. Len(d) = Len(e)
  BY <1>1, <1>2, <1>3
<1>5. \A i \in 1..Len(d) : d[i] = e[i]
  BY <1>1, <1>2, <1>3, <1>4
<1> QED BY <1>4, <1>5, SeqEqual

\* Two folders of one album with one place in it are one folder, if nothing is
\* replaced in their names.
LEMMA DiscsApart ==
  ASSUME NEW d \in Seq(Name), NEW e \in Seq(Name),
         \A i \in DOMAIN d : sanitize_segment(d[i]) = d[i],
         \A i \in DOMAIN e : sanitize_segment(e[i]) = e[i],
         album_root(d) = album_root(e), subpath_of(d) = subpath_of(e)
  PROVE  d = e
<1>1. /\ Len(d) \in Nat /\ DOMAIN d = 1..Len(d)
      /\ Len(e) \in Nat /\ DOMAIN e = 1..Len(e)
  BY LenProperties
<1>2. \A x : <<x>> # <<>>
  OBVIOUS
<1>3. Promoted(d) <=> Promoted(e)
  BY <1>2, Zenon DEF subpath_of
<1>4. CASE ~Promoted(d)
  BY <1>3, <1>4 DEF album_root
<1>5. CASE Promoted(d)
  <2>1. Len(d) > 1 /\ Len(e) > 1
    BY <1>3, <1>5 DEF Promoted
  <2>2. SubSeq(d, 1, Len(d) - 1) = SubSeq(e, 1, Len(e) - 1)
    BY <1>3, <1>5 DEF album_root
  <2>3. <<sanitize_segment(d[Len(d)])>> = <<sanitize_segment(e[Len(e)])>>
    BY <1>3, <1>5 DEF subpath_of
  <2>4. Len(d) \in DOMAIN d /\ Len(e) \in DOMAIN e
    BY <1>1, <2>1
  <2>5. sanitize_segment(d[Len(d)]) = d[Len(d)] /\ sanitize_segment(e[Len(e)]) = e[Len(e)]
    BY <2>4, Zenon
  <2>6. \A x, y : <<x>> = <<y>> => x = y
    OBVIOUS
  <2>7. d[Len(d)] = e[Len(e)]
    BY <2>3, <2>5, <2>6, Zenon
  <2> QED BY <2>1, <2>2, <2>7, FrontAndLast
<1> QED BY <1>4, <1>5
=============================================================================
