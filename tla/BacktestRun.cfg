SPECIFICATION Spec
CONSTANTS
    NSeries = 2
    Spot <- MCSpot
    Configurations <- MCTypes
    InitialCash = 288
    Prices = {64, 128}
    Slip = 16
    MakerBps = 0
    TakerBps = 625
    Rates <- MCRates
    RateUnit = 16
    Limits <- MCLimits
    MaxTime = 3
    MaxSignals = 3
    MaxFundings = 1
CHECK_DEADLOCK FALSE
INVARIANTS
    AccountSound
    RunsToItsResult
    OrdersReachTarget
PROPERTIES
    PurchasesCovered
