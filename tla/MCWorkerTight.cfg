\* Memory pays for one slot, like requests are grouped, one asks for logprobs:
\* the engine is left with a batch and with sessions outside it.
CONSTANTS
    r1 = r1
    r2 = r2
    r3 = r3
    r4 = r4
    Requests = {r1, r2, r3}
    NoRequest = NoRequest
    Sampling = {}
    MaxConcurrent = 3
    BudgetBatch = 1
    NumSlots = 3
    Batchable = TRUE
    LogprobsBatched = TRUE
    MaxPos = 3
    MaxTokens = 3
    Key <- KeyTwoAlike
    Vlm = {}
    WantsLogprobs = {r3}
    MayFail = {r1}
    MaxRunning = 3
    Overlap = TRUE
SPECIFICATION WorkerSpec
INVARIANTS
    ServedHasKV
    NoSessionLeak
\* All requests may be done, and an exception ends the worker.
CHECK_DEADLOCK FALSE
