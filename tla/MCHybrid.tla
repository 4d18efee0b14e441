------------------------------ MODULE MCHybrid ------------------------------
(* A small instance of HybridBatch for TLC.                                *)
EXTENDS HybridBatch, TLC

CONSTANTS r1, r2, r3

\* r3's cache is of a class that the second layer does not expect.
Fails == [r \in Requests |-> IF r = r3 THEN 2 ELSE Copied]

\* Requests that behave alike.
Symmetry == Permutations({r1, r2})

\* What the slots beyond the batch hold is written before it is read.
InUse(cells) == [s \in {s \in Slots : s < BatchSize} |-> cells[s]]

\* Once a copy has failed nothing is claimed of what rows and tokens are, and
\* neither the slot map nor the counts depend on it; nothing follows a trap.
View ==
    IF trapped THEN <<batchSlots, failed>>
    ELSE IF failed THEN <<Live, batchSlots, actives, maxBatch, tokensLen, hung>>
    ELSE <<session, batchSlots, InUse(batchTokens), [l \in Layers |-> InUse(rows[l])],
           actives, maxBatch, tokensLen, pendingVars, hung>>
=============================================================================
