--------------------------- MODULE MCSearchService ---------------------------
(* Instances of SearchService for TLC.                                     *)
EXTENDS SearchProperties, TLC

CONSTANTS t1, t2, a, b

Symmetry == Permutations(Threads) \cup Permutations(Offers)
=============================================================================
