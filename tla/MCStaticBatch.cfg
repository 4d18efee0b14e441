\* Three requests, one with temperature > 0, over the batched path; five
\* tokens, so that a synchronous step is followed by several pipelined ones.
CONSTANTS
    r1 = r1
    r2 = r2
    r3 = r3
    Requests = {r1, r2, r3}
    NoRequest = NoRequest
    Sampling = {r1}
    MaxConcurrent = 2
    BudgetBatch = 2
    NumSlots = 3
    Batchable = TRUE
    LogprobsBatched = TRUE
    MaxPos = 5
SPECIFICATION StaticSpec
INVARIANTS
    InOrder
PROPERTY ImplementsTokenStream
\* The client stops at MaxPos.
CHECK_DEADLOCK FALSE
