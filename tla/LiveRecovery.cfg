SPECIFICATION Spec
CONSTANTS
    Intents = {i1, i2}
    Workers = {w1, w2}
    Nobody = nobody
    MaxOpen = 2
    MaxApproved = 2
    Balance = 1
    Lease = 2
    Freshness = 2
    ApprovalTTL = 4
    MaxTime = 3
SYMMETRY Symmetric
CHECK_DEADLOCK FALSE
INVARIANTS
    ReservedWithinBalance
PROPERTIES
    ConcludesFromOwnQuery
