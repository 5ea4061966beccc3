CONSTANTS
  Names = {a, 1}
  MaxEvents = 4
  MaxTime = 3
  LongTask = 1
  MaxLongTasks = 1
  MaxDepth = 2
  MaxUniquePaths = 3
  MaxPaths = 2
  Keys = {1, 3, 5}
  MaxEndpoints = 6
  MaxInstant = 3
  MaxUniqueMarkers = 2
  MaxMarkers = 1
SPECIFICATION SummarySpec
INVARIANTS
  FramedUnderInnermost
  LongTasksAreTheLongest
  TruncationIsReported
  SectionsAreRecovered
  MarkersAccountForSections
\* The analysis stops with a summary or an error.
CHECK_DEADLOCK FALSE
