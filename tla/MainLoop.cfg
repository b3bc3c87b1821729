SPECIFICATION LoopSpec
CONSTANTS
  Timers = {t1}
  Handles = {t1, bad}
  Timeouts = {1, 3}
  CounterMod = 4
  NoCall = NoCall
  TickMod = 8
  Intervals = {2, 3}
  MaxTries = 3
  Round = 2
  Never = Never
INVARIANTS LoopInv
PROPERTIES NeverEarly StartsUp RepeatKeepsReporting
