SPECIFICATION Spec
CONSTANTS
    Intents = {i1}
    Workers = {w1}
    Nobody = nobody
    MaxOpen = 2
    MaxApproved = 1
    Balance = 1
    Lease = 2
    Freshness = 3
    ApprovalTTL = 4
    MaxTime = 5
CHECK_DEADLOCK FALSE
INVARIANTS
    TriggerHeeded
