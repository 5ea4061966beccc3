CONSTANTS
  Captures = {c1, c2}
  Dirs = {dir1}
  Files = 1
  Required = 1
  NoOne = NoOne
SPECIFICATION Spec
PROPERTY NeverUpdatedInPlace
CHECK_DEADLOCK FALSE
