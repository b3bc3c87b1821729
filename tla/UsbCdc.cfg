SPECIFICATION Spec
CONSTANTS
  MPS = 2
  Len = 1
INVARIANTS PortInv OneTransferAtATime InterruptReturns
PROPERTIES ReturnMeansTaken MainLoopRuns
