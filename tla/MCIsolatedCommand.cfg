CONSTANTS
  Leader = leader
  Descendants = {d1, d2}
SPECIFICATION FairSpec
INVARIANTS
  TypeOK
  ForcedEndIsComplete
  SamplesAreGenuine
PROPERTIES
  ImplementsContract
  DeadlineEndsTheCall
  InterruptionEndsTheCall
\* A call returns once; what is left of the target may end and nothing follows.
CHECK_DEADLOCK FALSE
