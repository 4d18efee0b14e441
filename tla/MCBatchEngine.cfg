\* Three requests over two slots: one more than fit, so that adds fail at
\* capacity, and removals swap.
CONSTANTS
    r1 = r1
    r2 = r2
    r3 = r3
    Requests = {r1, r2, r3}
    NoRequest = NoRequest
    Sampling = {}
    MaxConcurrent = 2
    BudgetBatch = 2
    NumSlots = 3
    Batchable = TRUE
    LogprobsBatched = TRUE
    MaxPos = 2
SPECIFICATION Spec
SYMMETRY Symmetry
INVARIANTS
    TypeOK
    SlotsDense
    SlotHoldsItsRequest
    KVInOnePlace
    ActiveMatches
    WithinCapacity
PROPERTY RowsSurviveMoves
\* The client stops at MaxPos, and a re-entered queue never answers again.
CHECK_DEADLOCK FALSE
