SPECIFICATION Spec
CONSTANTS
    Key = {k1, k2}
    CacheMax = 4
    NoKey = NoKey
    NoError = NoError
    HandlerErrors <- RetryableHandlerError
    ClientErrors <- AnyClientError
    Faults = {}
    MaxLog = 2
    MaxDisruptions = 0
INVARIANTS
    NoMessageLost
CHECK_DEADLOCK FALSE
