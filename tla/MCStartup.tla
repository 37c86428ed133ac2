------------------------------ MODULE MCStartup ------------------------------
(* Instances of Startup for TLC.                                           *)
EXTENDS Startup, TLC

CONSTANTS t1, t2, r1, r2

Symmetry == Permutations(Threads) \cup Permutations(Rows)
=============================================================================
