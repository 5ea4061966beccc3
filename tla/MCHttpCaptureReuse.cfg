CONSTANTS
  Warmups = 1
  Measurements = 1
  TeardownConfigured = TRUE
SPECIFICATION Spec
INVARIANT OnlyTheFixtureIsSignalled
CHECK_DEADLOCK FALSE
