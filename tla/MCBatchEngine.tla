--------------------------- MODULE MCBatchEngine ---------------------------
(* Small instance of BatchEngine for TLC.                                  *)
EXTENDS BatchEngine, TLC

CONSTANTS r1, r2, r3

Symmetry == Permutations(Requests)
=============================================================================
