CONSTANTS
  Values = {0, 100, 101}
  MaxMetrics = 4
  Fields = {scenario, environment, collector, toolchain}
  Manifest = {scenario, environment}
  Records = {r1, r2}
SPECIFICATION Spec
INVARIANTS
  AliasCarriesNoWeight
  BetterNeverScoresLess
  StatusIsCertain
\* Each command answers once.
CHECK_DEADLOCK FALSE
