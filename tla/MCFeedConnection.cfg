SPECIFICATION FairSpec
CONSTANTS
    Ticker = {t1, t2, t3, t4, t5}
    FirstTicker = t1
    max_attempts = 2
    MaxFaults = 3
INVARIANTS
    TypeOK
    SomeoneReconnects
    TasksBounded
    GivesUpOnlyAfterFailures
PROPERTIES
    Recovers
CHECK_DEADLOCK FALSE
