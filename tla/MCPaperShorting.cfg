SPECIFICATION Spec
CONSTANTS
    st1 = st1
    st2 = st2
    i1 = i1
    Strategy = {st1}
    Instrument = {i1}
    Signals <- BracketedBuyAndSell
    TickPrice = {12}
    None = None
    slippage_percent = 1
    commission_percent = 1
    starting_cash = 210000
    max_position_notional = 0
    max_partials = 2
    SeenMax = 4
    SendFails = FALSE
    MaxDeliveries = 2
    MaxTicks = 1
    MaxCrashes = 0
INVARIANTS
    NoShorting
CHECK_DEADLOCK FALSE
