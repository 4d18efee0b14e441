--------------------------- MODULE MCStaticBatch ---------------------------
(* Small instances of StaticBatch for TLC.                                 *)
EXTENDS StaticBatch, TLC

CONSTANTS r1, r2, r3

Symmetry == Permutations(Requests)
=============================================================================
