CONSTANTS
  Keys = {1}
  MaxEndpoints = 4
  MaxInstant = 2
SPECIFICATION PairingSpec
INVARIANT StackSemantics
CHECK_DEADLOCK FALSE
