SPECIFICATION FairSpec
CONSTANTS
    Service <- Services
    LoadsAfterwards = {"strategy_runner"}
    Lifespan <- AllServices
    Gated <- PaperServices
    MaxFaults = 3
INVARIANTS
    TypeOK
    ServicesNeedAuthentication
    CleanExit
PROPERTIES
    ShutdownCompletes
CHECK_DEADLOCK FALSE
