SPECIFICATION Spec
CONSTANTS
    i1 = i1
    i2 = i2
    Instrument = {i1, i2}
    EvenToken = {i2}
    Price <- TickPrices
    instrument_tokens <- ShippedInstruments
    policy_type <- ShippedPolicies
    HAS_NUMPY = TRUE
    Prediction <- SomePredictions
    n_features_in = None
    lookback_periods = 3
    threshold = 5
    rsi_period = 2
    rsi_oversold = 30
    rsi_overbought = 70
    bollinger_std = 1
    position_size = 1
    min_interval = 2
    max_daily_signals = 1
    Day = 4
    StartTime = 5
    MaxTime = 8
    MaxTicks = 6
    None = None
INVARIANTS
    PricedAtTick
    CadenceKept
PROPERTIES
    SignalsFollowTheMarket
CHECK_DEADLOCK FALSE
