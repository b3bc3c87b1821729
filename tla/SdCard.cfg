SPECIFICATION Spec
CONSTANTS
  Blocks = 3
  MaxFaults = 2
INVARIANTS CardInv OkMeansDone
PROPERTIES NoCollision CallsReturn
CHECK_DEADLOCK FALSE
