SPECIFICATION Spec
CONSTANTS
  Blocks = 2
  MaxFaults = 1
INVARIANT ReadOkMeansGood
CHECK_DEADLOCK FALSE
