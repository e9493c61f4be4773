\* A context that is resumed after any stop, steered, paused, cancelled, late, failing or lost: limits
\* of 0 and 1 on empty, truncated and invalid replies let every way to stop happen within two calls.
CONSTANTS
    Contents = {"old", "new"}
    Inputs = "old"
    MaxModelCalls = 2
    MaxToolCalls = 1
    NudgeLimit = 1
    LengthLimit = 0
    InvalidLimit = 1
    MaxSteers = 1
    None = None
SPECIFICATION FairSpec
INVARIANTS
    MemoryIsDurable
PROPERTIES
    UnknownIsLast
    NothingStartsLate
    CompletedAsVerified
    RunReturns
