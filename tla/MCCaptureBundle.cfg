CONSTANTS
  Captures = {c1, c2}
  Dirs = {dir1, dir2}
  Files = 2
  Required = 1
  NoOne = NoOne
SPECIFICATION Spec
INVARIANTS
  ManifestCommits
  CapturedIsPublished
  EarlyInterruptionWritesNothing
PROPERTIES
  PublishedIsFinal
  ImplementsPublication
\* Every capture ends and nothing follows.
CHECK_DEADLOCK FALSE
