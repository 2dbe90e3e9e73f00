SPECIFICATION Spec
CONSTANTS
    st1 = st1
    st2 = st2
    i1 = i1
    Strategy = {st1, st2}
    Instrument = {i1}
    Signals <- AllOrders
    TickPrice = {9, 12}
    None = None
    slippage_percent = 1
    commission_percent = 1
    starting_cash = 210000
    max_position_notional = 250000
    max_partials = 3
    SeenMax = 2
    SendFails = TRUE
    MaxDeliveries = 3
    MaxTicks = 2
    MaxCrashes = 1
INVARIANTS
    TypeOK
    Solvent
    SeenConsistent
    SellsAreHeld
    FillsWithinSignal
    AcknowledgedHasOutcome
CHECK_DEADLOCK FALSE
