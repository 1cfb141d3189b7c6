SPECIFICATION FairSpec
CONSTANTS
    Qty = 1
    Workers = {w1}
    Nobody = nobody
    Lease = 1
    MaxAge = 0
    Orders = {o1}
    NoOrder = noOrder
    Jobs = {"submit", "recover", "cancel"}
    Outcomes = {"accepted", "timeout", "lost", "delayed"}
    MaxOpen = 1
    MaxCrashes = 1
    LagFills = FALSE
INVARIANTS
    SafeRelease
PROPERTIES
    DispatchDecided
    CancelledSettles
