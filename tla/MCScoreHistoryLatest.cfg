CONSTANTS
  Commits = 2
  Offsets = {0, 2}
  Workloads = {w1}
  Scenarios = {s1}
  Retention = 3
  MaxRequests = 3
  Null = Null
SPECIFICATION Spec
INVARIANT LatestIsShown
CHECK_DEADLOCK FALSE
