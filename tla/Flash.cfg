SPECIFICATION Spec
CONSTANTS
  MaxData = 3
  SpiCells = 8
  SectorSize = 4
  PageSize = 2
  FmcCells = 5
  Starts = {0, 1, 3, 4}
  Protected = {4}
  ReadMod = 3
  MaxCalls = 2
  MaxResets = 1
  Bits = {1, 2}
  Values = {{1}, {2}}
CHECK_DEADLOCK FALSE
INVARIANTS ReadsBack
PROPERTIES OthersKept CallReturns
