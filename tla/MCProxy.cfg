\* Every deployment; answers in deltas of one or two pieces.
CONSTANTS
    None = None
    Block = Block
    Threshold = 2
    Splits = {TRUE, FALSE}
    Recovers = {TRUE, FALSE}
    Asks <- EveryAsk
    Retrievals <- SomeChunks
    Answers <- MixedAnswers
    MaxDelta = 2
SPECIFICATION Spec
INVARIANTS
    ProxyTypeOK
    BudgetSound
    ClientMessagesKept
    BlockFits
    TextConserved
    CallNotTwice
    OneFinishLast
    StreamSplitsAsWhole
    StreamRecoversAsWhole
    WholeConserved
    NoVoidGeneration
\* A stream ends.
CHECK_DEADLOCK FALSE
