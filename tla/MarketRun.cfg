SPECIFICATION Spec
CONSTANTS
    Runners = {r1}
    Start = 1
    End = 4
    PageLimit = 2
    MaxPages = 2
    MaxChanges = 1
    MaxRuns = 2
CHECK_DEADLOCK FALSE
INVARIANTS StoreSound RunsSound
