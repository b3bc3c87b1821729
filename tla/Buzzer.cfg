SPECIFICATION FairSpec
CONSTANTS
  Size = 2
  TickMod = 256
  Start = 1
  Pitches = {p1}
  Durations = {0, 1}
  MaxTones = 3
  MaxAlarms = 1
  LastCall = 7
  MaxTicks = 30
  MaxGap = 2
INVARIANTS BuzzerInv PlayedInTurn
PROPERTIES StopsOnTime EventuallyEmptied
