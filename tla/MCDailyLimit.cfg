SPECIFICATION Spec
CONSTANTS
    Strategy = {s1, s2}
    Instrument = {i1}
    ActiveBrokers = {"paper", "zerodha"}
    zerodha_trading_enabled = {s2}
    Watches <- WatchAll
    TickPrice = {100, 120}
    SignalPrice = {100}
    Quantity = {1, 2}
    None = None
    max_position = 1
    max_daily_trades = 1
    SeenMax = 2
    MaxTicks = 2
    MaxSignals = 2
    MaxFaults = 0
    MaxCrashes = 0
INVARIANT DailyLimitRespected
CHECK_DEADLOCK FALSE
