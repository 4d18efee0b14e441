\* One request at a time: a request follows one that has ended.
CONSTANTS
    r1 = r1
    r2 = r2
    r3 = r3
    r4 = r4
    Requests = {r1, r2, r3}
    NoRequest = NoRequest
    Sampling = {}
    MaxConcurrent = 1
    BudgetBatch = 2
    NumSlots = 3
    Batchable = TRUE
    LogprobsBatched = TRUE
    MaxPos = 4
    MaxTokens = 4
    Key <- KeyDistinct
    Vlm = {}
    WantsLogprobs = {}
    MayFail = {}
    MaxRunning = 1
    Overlap = FALSE
SPECIFICATION WorkerSpec
INVARIANTS
    NoCrossTalk
\* All requests may be done, and an exception ends the worker.
CHECK_DEADLOCK FALSE
