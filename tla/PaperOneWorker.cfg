SPECIFICATION Spec
CONSTANTS
    Qty = 2
    Workers = {w1}
    Nobody = nobody
    Lease = 1
    MaxAge = 1
    Orders = {o1}
    NoOrder = noOrder
    Jobs = {"submit", "query", "sync", "recover", "cancel"}
    Outcomes = {"accepted", "timeout", "unknown", "rejected"}
    MaxOpen = 1
    MaxCrashes = 1
    LagFills = TRUE
INVARIANTS
    TypeOK
    CallsSound
    SafeRelease
    BookingSound
    ClosedMeansSettled
