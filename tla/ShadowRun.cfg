SPECIFICATION FairSpec
CHECK_DEADLOCK FALSE
CONSTANTS
  Runners = {r1, r2}
  Nobody = nobody
  RunIds = {i1}
  Fixtures <- MCFixtures
  PublicFaults <- MCPublicFaults
  MaxTries = 2
INVARIANTS
  EvidenceSound
PROPERTIES
  EvidenceImmutable
  EveryAttemptEnds
