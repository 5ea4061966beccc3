CONSTANTS
  Commits = 3
  Offsets = {0, 2}
  Workloads = {w1, w2}
  Scenarios = {s1, s2}
  Retention = 2
  MaxRequests = 3
  Null = Null
CONSTRAINT FirstDigests
SPECIFICATION FairSpec
INVARIANTS
  OneEntryPerCommit
  ChartIsOneCohort
PROPERTIES
  NothingIsForgotten
  LastRequestIsServed
\* The requests are bounded and runs end.
CHECK_DEADLOCK FALSE
