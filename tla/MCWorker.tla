------------------------------ MODULE MCWorker ------------------------------
(* Small instances of Worker for TLC.                                      *)
EXTENDS Worker, TLC

CONSTANTS r1, r2, r3, r4

\* All requests differ in length or sampling, or two of them are alike.
KeyDistinct == [r \in Requests |-> r]
KeyTwoAlike == [r \in Requests |-> IF r = r3 THEN r3 ELSE r1]
=============================================================================
