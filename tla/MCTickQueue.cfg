SPECIFICATION FairSpec
CONSTANTS
    QueueMax = 2
    MaxTicks = 4
    MaxBatch = 2
INVARIANTS
    TypeOK
    TickAccounted
    LateOnlyIfDropped
PROPERTIES
    Drains
CHECK_DEADLOCK FALSE
