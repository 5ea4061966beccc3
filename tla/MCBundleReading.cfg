CONSTANTS
  Captures = {c1, c2}
  Dirs = {dir1, dir2}
  Files = 2
  Required = 1
  NoOne = NoOne
  Profiles <- MCProfiles
  NoMetrics = 0
  MaxChanges = 2
CONSTRAINTS Instance Promised
ACTION_CONSTRAINT Explored
VIEW View
SYMMETRY Symmetry
SPECIFICATION ReadingSpec
INVARIANTS
  OnlyIntactIsAnswered
  AnswerIsTheValidated
  IntactIsNotRefused
\* Captures end and a command answers once.
CHECK_DEADLOCK FALSE
