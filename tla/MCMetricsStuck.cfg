SPECIFICATION FairSpec
CONSTANTS
    Worker = worker
    Retry = retry
    Reporter = {reporter}
    NoOne = NoOne
    Sizes = {0, 1}
    MaxCalls = 2
PROPERTIES
    UsesReturn
CHECK_DEADLOCK FALSE
