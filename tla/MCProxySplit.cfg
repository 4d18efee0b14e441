\* stream_rewriter alone.
CONSTANTS
    None = None
    Block = Block
    Threshold = 2
    Splits = {TRUE}
    Recovers = {FALSE}
    Asks <- PlainAsk
    Retrievals <- NoChunks
    Answers <- MixedAnswers
    MaxDelta = 2
SPECIFICATION Spec
INVARIANTS
    AnswerReachesContent
\* A stream ends.
CHECK_DEADLOCK FALSE
