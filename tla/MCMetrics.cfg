SPECIFICATION Spec
CONSTANTS
    Worker = worker
    Retry = retry
    Reporter = {reporter}
    NoOne = NoOne
    Sizes = {0, 1}
    MaxCalls = 2
INVARIANTS
    TypeOK
    OneSnapshot
    StuckOnlyByNesting
CHECK_DEADLOCK FALSE
