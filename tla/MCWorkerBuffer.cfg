\* A request arrives while another decodes.
CONSTANTS
    r1 = r1
    r2 = r2
    r3 = r3
    r4 = r4
    Requests = {r1, r2, r3}
    NoRequest = NoRequest
    Sampling = {}
    MaxConcurrent = 2
    BudgetBatch = 2
    NumSlots = 3
    Batchable = TRUE
    LogprobsBatched = TRUE
    MaxPos = 3
    MaxTokens = 3
    Key <- KeyDistinct
    Vlm = {}
    WantsLogprobs = {}
    MayFail = {}
    MaxRunning = 2
    Overlap = TRUE
SPECIFICATION WorkerSpec
INVARIANTS
    BufferRespected
\* All requests may be done, and an exception ends the worker.
CHECK_DEADLOCK FALSE
