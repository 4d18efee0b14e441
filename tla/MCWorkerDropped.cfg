\* Two like requests arrive while another decodes.
CONSTANTS
    r1 = r1
    r2 = r2
    r3 = r3
    r4 = r4
    Requests = {r1, r2, r3}
    NoRequest = NoRequest
    Sampling = {}
    MaxConcurrent = 3
    BudgetBatch = 3
    NumSlots = 3
    Batchable = FALSE
    LogprobsBatched = TRUE
    MaxPos = 3
    MaxTokens = 3
    Key <- KeyTwoAlike
    Vlm = {}
    WantsLogprobs = {}
    MayFail = {}
    MaxRunning = 3
    Overlap = TRUE
SPECIFICATION WorkerSpec
INVARIANTS
    OutputCoversScheduled
\* All requests may be done, and an exception ends the worker.
CHECK_DEADLOCK FALSE
