SPECIFICATION FairSpec
CONSTANTS
    Key = {k1, k2}
    CacheMax = 4
    NoKey = NoKey
    NoError = NoError
    HandlerErrors <- AnyHandlerError
    ClientErrors <- AnyClientError
    Faults = {"consume", "redis_read", "redis_write", "redis_write_ack", "commit", "dlq"}
    MaxLog = 2
    MaxDisruptions = 1
INVARIANTS
    TypeOK
    CommittedIsAccounted
    SkippedWasHandled
    TwoEffectsPerDelivery
PROPERTIES
    RecordedNotReexecuted
    ImplementsDelivery
    EventuallyAccounted
CHECK_DEADLOCK FALSE
