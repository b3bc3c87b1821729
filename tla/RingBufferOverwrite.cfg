SPECIFICATION Spec
CONSTANTS
  Size = 3
  IndexMod = 8
  MaxChunk = 2
  MaxWrites = 8
INVARIANT OverwritesOldest
