\* Four requests, all different, one with images, over two running slots, so that
\* two can be starved by a slot that another has left behind;
\* arrivals overlap with decoding.
CONSTANTS
    r1 = r1
    r2 = r2
    r3 = r3
    r4 = r4
    Requests = {r1, r2, r3, r4}
    NoRequest = NoRequest
    Sampling = {}
    MaxConcurrent = 2
    BudgetBatch = 2
    NumSlots = 4
    Batchable = TRUE
    LogprobsBatched = TRUE
    MaxPos = 3
    MaxTokens = 3
    Key <- KeyDistinct
    Vlm = {r3}
    WantsLogprobs = {}
    MayFail = {r1, r3}
    MaxRunning = 2
    Overlap = TRUE
SPECIFICATION WorkerSpec
INVARIANTS
    WorkerTypeOK
    ServedHasKV
    NoSessionLeak
    NoStarvedSession
    NoZombieSlot
PROPERTIES
    KeepsEngineContract
    DecodeServesCached
\* All requests may be done, and an exception ends the worker.
CHECK_DEADLOCK FALSE
