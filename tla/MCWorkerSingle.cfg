\* One request at a time, for a batch of one slot.
CONSTANTS
    r1 = r1
    r2 = r2
    r3 = r3
    r4 = r4
    Requests = {r1, r2, r3}
    NoRequest = NoRequest
    Sampling = {}
    MaxConcurrent = 1
    BudgetBatch = 2
    NumSlots = 3
    Batchable = TRUE
    LogprobsBatched = TRUE
    MaxPos = 4
    MaxTokens = 4
    Key <- KeyDistinct
    Vlm = {r3}
    WantsLogprobs = {}
    MayFail = {r1, r3}
    MaxRunning = 1
    Overlap = TRUE
SPECIFICATION FairWorkerSpec
PROPERTIES
    EveryRequestEnds
\* All requests may be done, and an exception ends the worker.
CHECK_DEADLOCK FALSE
