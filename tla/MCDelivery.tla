----------------------------- MODULE MCDelivery -----------------------------
(* Instances of Delivery for TLC.                                          *)
EXTENDS Delivery, TLC

CONSTANTS t1, t2

\* Names that differ, differ in replaced characters, or end in what is stripped;
\* album folders under a share root and disc folders in them.
Peers == {<<"x">>, <<"x", "?">>, <<"x", "/">>}
AlbumNames == {<<"x">>, <<".", ".">>}
DiscNames == {<<"cd", "1">>, <<"[", "cd", " ", "1", "?">>, <<"[", "cd", " ", "1", "*">>, <<"cd", "x">>}

Dirs == LET albums == {<<<<"@@">>, n>> : n \in AlbumNames}
        IN albums \cup {<<<<"@@">>, <<"x">>, d>> : d \in DiscNames}

\* One peer's answer has tracks of one name, in one folder or two.
MCAnswers ==
  {[user |-> u, files |-> {[dir |-> d, name |-> "n"], [dir |-> e, name |-> "n"]}]
     : u \in Peers, d \in Dirs, e \in Dirs}

Symmetry == Permutations(Threads)
=============================================================================
