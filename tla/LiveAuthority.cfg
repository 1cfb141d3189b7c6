SPECIFICATION Spec
CONSTANTS
    Intents = {i1, i2}
    Workers = {w1}
    Nobody = nobody
    MaxOpen = 2
    MaxApproved = 1
    Balance = 2
    Lease = 2
    Freshness = 3
    ApprovalTTL = 3
    MaxTime = 5
SYMMETRY Symmetric
CHECK_DEADLOCK FALSE
INVARIANTS
    AuthoritySound
PROPERTIES
    AuthorityAfterLastStop
    ResumesAfterIncidents
