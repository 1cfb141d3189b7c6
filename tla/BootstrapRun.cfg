SPECIFICATION FairSpec
CHECK_DEADLOCK FALSE
CONSTANTS
  Operators = {p1, p2}
  Nobody = nobody
  Accounts = {a1, a2}
  Migrations = 2
  MaxOid = 4
  MaxMeddling = 4
  MaxTries = 1
INVARIANTS
  BootstrapSound
PROPERTIES
  FirstChangeAsPlanned
  ReadyForItsOwn
  EveryRunEnds
