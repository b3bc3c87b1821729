SPECIFICATION HSpec
CONSTANTS
  Timers = {t1, t2}
  Handles = {t1, t2, bad}
  Timeouts = {0, 2, 3}
  CounterMod = 4
  MaxAge = 7
  NoCall = NoCall
INVARIANTS
  TypeOK
  NoDrift
  OnTime
  DistinctReports
  ExpiryIsReported
SYMMETRY Symmetry
