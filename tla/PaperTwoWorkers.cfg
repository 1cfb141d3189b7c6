SPECIFICATION Spec
CONSTANTS
    Qty = 1
    Workers = {w1, w2}
    Nobody = nobody
    Lease = 1
    MaxAge = 0
    Orders = {o1}
    NoOrder = noOrder
    Jobs = {"submit", "cancel", "recover"}
    Outcomes = {"accepted"}
    MaxOpen = 1
    MaxCrashes = 0
    LagFills = FALSE
SYMMETRY Symmetry
INVARIANTS
    NeverRecancelled
PROPERTIES
    LeaseRespected
    ProjectionMonotone
