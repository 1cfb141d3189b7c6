SPECIFICATION Spec
CONSTANTS
    Qty = 1
    Workers = {w1}
    Nobody = nobody
    Lease = 1
    MaxAge = 0
    Orders = {o1, o2}
    NoOrder = noOrder
    Jobs = {"submit", "expire", "recover", "kill"}
    Outcomes = {"accepted", "rejected"}
    MaxOpen = 1
    MaxCrashes = 1
    LagFills = FALSE
SYMMETRY Symmetry
INVARIANTS
    BudgetMatches
PROPERTIES
    ImplementsBudget
