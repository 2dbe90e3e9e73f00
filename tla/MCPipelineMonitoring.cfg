SPECIFICATION Spec
CONSTANTS
    DayLength = 6
    pre_open_session <- PreOpen
    regular_session <- Regular
    lunch_break <- Lunch
    enforce_lunch_break = FALSE
    enforce_weekends = TRUE
    market_24x7 = FALSE
    ActiveBrokers <- Brokers
    TradingEnabled = {"paper"}
    StrategyCount <- Counts
    None = None
    MetricsTtl = 2
    TickLatency = 0
    SignalLatency = 0
    GracePeriod = 1
    FirstMoment = 24
    LastMoment = 26
    MaxRecords = 2
    MaxFaults = 1
INVARIANTS
    TypeOK
    HealthyMeansLive
    AggregateSumsUp
CHECK_DEADLOCK FALSE
