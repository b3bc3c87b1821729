SPECIFICATION Spec
CONSTANTS
  Size = 5
  IndexMod = 8
  MaxChunk = 3
  MaxWrites = 11
INVARIANTS QueueInv KeepsUnread AnnouncedIsReadable
PROPERTY ImplementsFifo
