SPECIFICATION FairSpec
CONSTANTS
  TwoContexts = FALSE
  Wnd = 3
  SndBuf = 2
  MaxPbufs = 4
INVARIANTS EchoInv MemorySafe EchoesInOrder GracefulClose
PROPERTIES EventuallyEchoed EventuallyClosed
