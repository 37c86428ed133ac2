-------------------------- MODULE MCDownloadService --------------------------
(* Instances of DownloadService for TLC.                                   *)
EXTENDS DownloadProperties, TLC

CONSTANTS t1, t2, j1, j2, u1, a, b

OnePeer == [f \in Files |-> u1]
JobsOfPeer == [j \in Jobs |-> u1]

\* One single-file album; one album of two discs; one disc of two files.
OneFile == j1 :> <<{a}>>
TwoDiscs == j1 :> <<{a}, {b}>>
OneDisc == j1 :> <<{a, b}>>

WorkerSymmetry == Permutations(Threads)
WorkerFileSymmetry == WorkerSymmetry \cup Permutations(Files)
=============================================================================
