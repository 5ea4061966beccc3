CONSTANTS
  Warmups = 1
  Measurements = 2
  TeardownConfigured = TRUE
SPECIFICATION FairSpec
INVARIANTS
  TypeOK
  EvidenceOnlyAfterCleanup
  EveryReturnCleansUp
  TeardownAfterTermination
PROPERTIES
  FixtureIsCleanedUp
  InterruptionEndsTheCapture
\* The capture returns once; what is left of the fixture may end and nothing follows.
CHECK_DEADLOCK FALSE
