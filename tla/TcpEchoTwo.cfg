SPECIFICATION Spec
CONSTANTS
  TwoContexts = TRUE
  Wnd = 3
  SndBuf = 2
  MaxPbufs = 3
INVARIANT MemorySafe
