----------------------------- MODULE TickProofs -----------------------------
(***************************************************************************)
(* What counts the milliseconds of SysTick_Handler.                        *)
(*                                                                         *)
(* The software timers, for any set of timers, any timeouts and any        *)
(* counter width: the type invariant of SoftTimer, and the invariants      *)
(* NoDrift, OnTime, DistinctReports and ExpiryIsReported of its history.   *)
(*                                                                         *)
(* The main loop, for any width of the tick, any intervals and any length  *)
(* of a round that fit into it: the interface comes up with an address,    *)
(* and the periodic tasks of lwIP are neither early nor late, also over    *)
(* the wrap of g_system_tick.                                              *)
(***************************************************************************)
EXTENDS MainLoop, SoftTimerHistory, TLAPS

(* Incrementing a counter stays in range, and is the successor except at    *)
(* the wrap.                                                                *)
LEMMA CountedInRange ==
  ASSUME TypeOK, NEW t \in Timers
  PROVE  /\ Counted(t) \in 0 .. CounterMod - 1
         /\ counter[t] + 1 < CounterMod => Counted(t) = counter[t] + 1
BY CounterAssumption DEF TypeOK, Counted

(* The timeouts fit the counter, that of a timer never armed (0) too. *)
LEMMA TimeoutsInRange == \A n \in Timeouts \cup {0} : n \in 0 .. CounterMod - 1
<1>1. \A n \in Timeouts : n \in 0 .. CounterMod - 1
  BY CounterAssumption
<1>2. 0 \in 0 .. CounterMod - 1
  BY CounterAssumption
<1> QED BY <1>1, <1>2

(* A period is positive and below the counter's wrap. *)
LEMMA PeriodInRange ==
  ASSUME TypeOK, NEW t \in Timers
  PROVE  /\ timeout[t] \in 0 .. CounterMod - 1
         /\ Period(t) \in Nat \ {0} /\ Period(t) < CounterMod
<1>1. timeout[t] \in Timeouts \cup {0}
  BY DEF TypeOK
<1>2. timeout[t] \in 0 .. CounterMod - 1
  BY <1>1, TimeoutsInRange
<1> QED BY <1>2, CounterAssumption DEF Period

(* Every call and the tick of soft_timer.c keep the fields in range. *)
LEMMA TypeStep == TypeOK /\ [Next]_vars => TypeOK'
<1> SUFFICES ASSUME TypeOK, [Next]_vars PROVE TypeOK'
  OBVIOUS
<1> USE TimersAssumption DEF TypeOK, fields, soft_timer_interrupt_enable
<1>1. ASSUME NEW t \in Handles, NEW n \in Timeouts, NEW r \in {0, 1}, Arm(t, n, r)
      PROVE  TypeOK'
  BY <1>1, CounterAssumption DEF Arm
<1>2. ASSUME NEW t \in Handles, soft_timer_stop(t) PROVE TypeOK'
  BY <1>2, CounterAssumption DEF soft_timer_stop
<1>3. ASSUME NEW t \in Handles, soft_timer_reset(t) PROVE TypeOK'
  BY <1>3, CounterAssumption DEF soft_timer_reset
<1>4. ASSUME NEW t \in Handles, is_timeout_load(t) PROVE TypeOK'
  BY <1>4 DEF is_timeout_load, ReturnsZero
<1>5. CASE is_timeout_clear
  BY <1>5 DEF is_timeout_clear
<1>6. CASE caller_disable_irq \/ caller_enable_irq
  BY <1>6 DEF caller_disable_irq, caller_enable_irq
<1>7. CASE soft_timer_tick
  <2>1. \A t \in Timers : CounterAfterTick(t) \in 0 .. CounterMod - 1
    BY CountedInRange, CounterAssumption DEF CounterAfterTick
  <2> QED BY <1>7, <2>1 DEF soft_timer_tick
<1>8. CASE UNCHANGED vars
  BY <1>8 DEF vars
<1> QED
  BY <1>1, <1>2, <1>3, <1>4, <1>5, <1>6, <1>7, <1>8
  DEF Next, MainCall, soft_timer_single_init, soft_timer_repeat_init

(* The field widths and the poll's program counter are preserved by every   *)
(* call and by the tick of soft_timer.c.                                    *)
THEOREM TypeCorrect == Spec => []TypeOK
<1>1. Init => TypeOK
  BY CounterAssumption, TimersAssumption DEF Init, TypeOK
<1> QED BY <1>1, TypeStep, PTL DEF Spec

-----------------------------------------------------------------------------
(* A step of the history is a step of soft_timer.c, or leaves it alone.     *)
LEMMA HistoryStep == HNext => Next
BY DEF HNext, HCall, HSingleInit, HRepeatInit, HStop, HReset, HLoad, HClear, HMask,
       HTick, Next, MainCall

(* Until a timer first expires its counter is its age: nothing has reset    *)
(* or wrapped it.                                                           *)
FirstPeriod == \A t \in Timers : fired[t] = 0 => counter[t] = age[t]

(* The inductive invariant: the timing properties need the types, and       *)
(* FirstPeriod for timers that do not repeat.                               *)
TimingInv ==
  /\ TypeOK /\ HTypeOK
  /\ FirstPeriod /\ NoDrift /\ OnTime /\ DistinctReports /\ ExpiryIsReported

(* It holds when timers[] is all zero. *)
LEMMA TimingInit == HInit => TimingInv
BY CounterAssumption, TimersAssumption
DEF HInit, Init, TimingInv, TypeOK, HTypeOK, FirstPeriod, NoDrift, OnTime,
    DistinctReports, ExpiryIsReported, Period

(* Arming, resetting or stopping a timer starts its history afresh and       *)
(* leaves every other timer's alone.                                         *)
LEMMA RestartStep ==
  ASSUME TimingInv, TypeOK', NEW t \in Handles,
         Started(t),
         UNCHANGED call, call = NoCall,
         \A u \in Timers \ {t} : /\ counter'[u] = counter[u]
                                 /\ timeout'[u] = timeout[u]
                                 /\ is_timeout'[u] = is_timeout[u]
                                 /\ is_repeat'[u] = is_repeat[u],
         t \in Timers => counter'[t] = 0 /\ is_timeout'[t] = 0
  PROVE  TimingInv'
<1> USE TimersAssumption, CounterAssumption
    DEF TimingInv, TypeOK, HTypeOK, Started, history, Period
<1>1. HTypeOK'
  OBVIOUS
<1>2. FirstPeriod'
  BY DEF FirstPeriod
<1>3. ASSUME NEW u \in Timers
      PROVE  /\ Period(u)' \in Nat \ {0}
             /\ u # t => /\ Period(u)' = Period(u)
                         /\ age'[u] = age[u] /\ fired'[u] = fired[u]
             /\ u = t => age'[u] = 0 /\ fired'[u] = 0
  <2>1. timeout'[u] \in Timeouts \cup {0}
    OBVIOUS
  <2>2. timeout'[u] \in 0 .. CounterMod - 1
    BY <2>1, TimeoutsInRange
  <2>3. Period(u)' \in Nat \ {0}
    BY <2>2
  <2>4. u # t => /\ Period(u)' = Period(u)
                 /\ age'[u] = age[u] /\ fired'[u] = fired[u]
    OBVIOUS
  <2>5. u = t => age'[u] = 0 /\ fired'[u] = 0
    OBVIOUS
  <2> QED BY <2>3, <2>4, <2>5
<1>4. NoDrift' /\ OnTime'
  <2> SUFFICES ASSUME NEW u \in Timers
               PROVE  /\ is_repeat'[u] = 1 =>
                           /\ age'[u] = fired'[u] * Period(u)' + counter'[u]
                           /\ counter'[u] < Period(u)'
                      /\ (fired'[u] > 0) <=> (age'[u] >= Period(u)')
    BY DEF NoDrift, OnTime
  <2>1. CASE u = t
    <3>1. fired'[u] * Period(u)' = 0
      BY <1>3, <2>1
    <3> HIDE DEF Period
    <3> QED BY <1>3, <2>1, <3>1
  <2>2. CASE u # t
    <3> HIDE DEF Period
    <3> QED BY <1>3, <2>2 DEF NoDrift, OnTime
  <2> QED BY <2>1, <2>2
<1>5. DistinctReports'
  BY DEF DistinctReports
<1>6. ExpiryIsReported'
  BY DEF ExpiryIsReported
<1> QED BY <1>1, <1>2, <1>4, <1>5, <1>6

(* A tick advances every timer by one: it expires for the first time, or     *)
(* again, exactly at the end of a period.                                    *)
LEMMA TickStep == TimingInv /\ TypeOK' /\ HTick => TimingInv'
<1> SUFFICES ASSUME TimingInv, TypeOK', HTick PROVE TimingInv'
  OBVIOUS
<1> USE DEF TimingInv, HTick, soft_timer_tick
<1>1. HTypeOK'
  BY DEF HTypeOK
<1>2. ASSUME NEW t \in Timers
      PROVE  /\ fired'[t] = IF Expires(t) THEN fired[t] + 1 ELSE fired[t]
             /\ age'[t] = age[t] + 1
             /\ counter'[t] = CounterAfterTick(t)
             /\ Period(t)' = Period(t)
             /\ Period(t) \in Nat \ {0} /\ Period(t) < CounterMod
             /\ age[t] \in Nat /\ fired[t] \in Nat /\ counter[t] \in Nat
             /\ timeout[t] \in Nat
  <2>1. timeout[t] \in 0 .. CounterMod - 1 /\ timeout'[t] = timeout[t]
    BY PeriodInRange
  <2>2. /\ Period(t)' = Period(t)
        /\ Period(t) \in Nat \ {0} /\ Period(t) < CounterMod
    BY <2>1, PeriodInRange DEF Period
  <2>3. age[t] \in Nat /\ fired[t] \in Nat /\ counter[t] \in Nat
    BY CounterAssumption DEF TypeOK, HTypeOK
  <2> QED BY <2>1, <2>2, <2>3, CounterAssumption
<1>3. ASSUME NEW t \in Timers, counter[t] < Period(t)
      PROVE  /\ Counted(t) = counter[t] + 1
             /\ Expires(t) <=> counter[t] + 1 = Period(t)
  <2>1. Counted(t) = counter[t] + 1
    BY <1>2, <1>3, CountedInRange, CounterAssumption
  <2>2. Expires(t) <=> counter[t] + 1 = Period(t)
    BY <1>2, <1>3, <2>1 DEF Period, Expires
  <2> QED BY <2>1, <2>2
<1>4. ASSUME NEW t \in Timers, fired[t] = 0
      PROVE  counter[t] = age[t] /\ counter[t] < Period(t)
  BY <1>2, <1>4 DEF FirstPeriod, OnTime
<1>5. FirstPeriod'
  BY <1>2, <1>3, <1>4 DEF FirstPeriod, CounterAfterTick
<1>6. NoDrift'
  <2> SUFFICES ASSUME NEW t \in Timers, is_repeat[t] = 1
               PROVE  /\ age'[t] = fired'[t] * Period(t) + counter'[t]
                      /\ counter'[t] < Period(t)
    BY <1>2 DEF NoDrift
  <2>1. age[t] = fired[t] * Period(t) + counter[t] /\ counter[t] < Period(t)
    BY DEF NoDrift
  <2>2. (fired[t] + 1) * Period(t) = fired[t] * Period(t) + Period(t)
    BY <1>2
  <2>3. fired[t] * Period(t) \in Nat
    BY <1>2
  <2>4. CASE Expires(t)
    <3>1. counter'[t] = 0 /\ fired'[t] = fired[t] + 1 /\ counter[t] + 1 = Period(t)
      BY <2>1, <2>4, <1>2, <1>3 DEF CounterAfterTick
    <3>2. age'[t] = fired[t] * Period(t) + Period(t)
      BY <2>1, <2>3, <3>1, <1>2
    <3> QED BY <2>2, <2>3, <3>1, <3>2, <1>2
  <2>5. CASE ~Expires(t)
    <3>1. /\ counter'[t] = counter[t] + 1 /\ fired'[t] = fired[t]
          /\ counter[t] + 1 # Period(t)
      BY <2>1, <2>5, <1>2, <1>3 DEF CounterAfterTick
    <3>2. counter[t] + 1 < Period(t)
      BY <2>1, <3>1, <1>2
    <3> QED BY <2>1, <2>3, <3>1, <3>2, <1>2
  <2> QED BY <2>4, <2>5
<1>7. OnTime'
  BY <1>2, <1>3, <1>4 DEF OnTime
<1>8. DistinctReports'
  BY <1>2 DEF DistinctReports, TypeOK, HTypeOK
<1>9. ExpiryIsReported'
  BY DEF ExpiryIsReported, HTypeOK
<1> QED BY <1>1, <1>5, <1>6, <1>7, <1>8, <1>9

(* Every step of the main program and of the SysTick interrupt preserves    *)
(* the invariant.                                                           *)
LEMMA TimingStep == TimingInv /\ [HNext]_hvars => TimingInv'
<1> SUFFICES ASSUME TimingInv, [HNext]_hvars PROVE TimingInv'
  OBVIOUS
<1>0. TypeOK'
  BY HistoryStep, TypeStep DEF TimingInv, hvars
<1> USE <1>0
<1>1. ASSUME NEW t \in Handles, NEW n \in Timeouts, HSingleInit(t, n)
      PROVE  TimingInv'
  BY <1>1, RestartStep
  DEF HSingleInit, soft_timer_single_init, Arm, fields, TimingInv, TypeOK
<1>2. ASSUME NEW t \in Handles, NEW n \in Timeouts, HRepeatInit(t, n)
      PROVE  TimingInv'
  BY <1>2, RestartStep
  DEF HRepeatInit, soft_timer_repeat_init, Arm, fields, TimingInv, TypeOK
<1>3. ASSUME NEW t \in Handles, HStop(t) PROVE TimingInv'
  BY <1>3, RestartStep DEF HStop, soft_timer_stop, fields, TimingInv, TypeOK
<1>4. ASSUME NEW t \in Handles, HReset(t) PROVE TimingInv'
  BY <1>4, RestartStep DEF HReset, soft_timer_reset, fields, TimingInv, TypeOK, HTypeOK
<1>5. ASSUME NEW t \in Handles, HLoad(t) PROVE TimingInv'
  BY <1>5, TimersAssumption
  DEF HLoad, is_timeout_load, ReturnsZero, fields, history, TimingInv, TypeOK, HTypeOK,
      FirstPeriod, NoDrift, OnTime, DistinctReports, ExpiryIsReported, Period
<1>6. CASE HClear
  BY <1>6, TimersAssumption
  DEF HClear, is_timeout_clear, TimingInv, TypeOK, HTypeOK,
      FirstPeriod, NoDrift, OnTime, DistinctReports, ExpiryIsReported, Period
<1>7. CASE HMask
  BY <1>7
  DEF HMask, caller_disable_irq, caller_enable_irq, fields, history, TimingInv, HTypeOK,
      FirstPeriod, NoDrift, OnTime, DistinctReports, ExpiryIsReported, Period
<1>8. CASE HTick
  BY <1>8, TickStep
<1>9. CASE UNCHANGED hvars
  BY <1>9
  DEF hvars, vars, history, TimingInv, HTypeOK,
      FirstPeriod, NoDrift, OnTime, DistinctReports, ExpiryIsReported, Period
<1> QED
  BY <1>1, <1>2, <1>3, <1>4, <1>5, <1>6, <1>7, <1>8, <1>9 DEF HNext, HCall

(* A repeat timer never drifts: one expiry per period since it was started. *)
THEOREM RepeatNeverDrifts == HSpec => []NoDrift
<1> QED BY TimingInit, TimingStep, PTL DEF HSpec, TimingInv

(* A timer's first expiry comes exactly one period after it was started.    *)
THEOREM FirstExpiryOnTime == HSpec => []OnTime
<1> QED BY TimingInit, TimingStep, PTL DEF HSpec, TimingInv

(* No poll of soft_timer_is_timeout reports an expiry a second time.        *)
THEOREM ReportsAreDistinct == HSpec => []DistinctReports
<1> QED BY TimingInit, TimingStep, PTL DEF HSpec, TimingInv

(* Every expiry is reported by a poll that returns after it, or dropped by  *)
(* a restart of its timer.                                                  *)
THEOREM EveryExpiryReported == HSpec => []ExpiryIsReported
<1> QED BY TimingInit, TimingStep, PTL DEF HSpec, TimingInv

-----------------------------------------------------------------------------
(* The tick was t when n ticks had still to come. *)
Ago(t, n) == t + n = tick \/ t + n = tick + TickMod

(* Start-up: the wait is bounded, and the address comes before NETIF_FLAG_UP. *)
StartInv ==
  /\ pc \in {"netif_add", "dhcp_start", "wait"} => tries < MaxTries
  /\ pc \in {"set_up", "rest", "handle"} => address # "zero"
  /\ up => pc \in {"rest", "handle"}
  /\ pc \notin {"rest", "handle"} => \A i \in Intervals : since[i] = Never

(* The stored times are the ones the history counts from. *)
ClockInv ==
  \A i \in Intervals :
    /\ pc = "handle" => Ago(localtime, lag)
    /\ since[i] # Never =>
         /\ Ago(timer[i], since[i])
         /\ since[i] >= lag
         /\ since[i] < i + lag + (IF pc = "handle" THEN Round ELSE 0)

(* The inductive invariant. *)
LoopIInv == LoopTypeOK /\ StartInv /\ ClockInv

-----------------------------------------------------------------------------
(* Unsigned subtraction and the successor, without remainders. *)
LEMMA TickArithmetic ==
  /\ \A a, b \in 0 .. TickMod - 1 :
       (a - b) % TickMod = IF a >= b THEN a - b ELSE a - b + TickMod
  /\ \A a \in 0 .. TickMod - 1 :
       (a + 1) % TickMod = IF a + 1 = TickMod THEN 0 ELSE a + 1
<1> USE LoopAssumption
<1>1. ASSUME NEW a \in 0 .. TickMod - 1, NEW b \in 0 .. TickMod - 1
      PROVE  (a - b) % TickMod = IF a >= b THEN a - b ELSE a - b + TickMod
  <2>1. CASE a >= b
    BY <2>1
  <2>2. CASE a < b
    <3>1. a - b + TickMod \in 0 .. TickMod - 1
      BY <2>2
    <3> QED BY <2>2, <3>1
  <2> QED BY <2>1, <2>2
<1>2. ASSUME NEW a \in 0 .. TickMod - 1
      PROVE  (a + 1) % TickMod = IF a + 1 = TickMod THEN 0 ELSE a + 1
  <2>1. CASE a + 1 = TickMod
    BY <2>1
  <2>2. CASE a + 1 # TickMod
    BY <2>2
  <2> QED BY <2>1, <2>2
<1> QED BY <1>1, <1>2

(* A difference of the tick is the time that passed. *)
LEMMA DueMeans ==
  ASSUME LoopIInv, pc = "handle", NEW i \in Intervals, since[i] # Never
  PROVE  Due(i) <=> since[i] - lag >= i
<1>1. /\ localtime \in 0 .. TickMod - 1 /\ timer[i] \in 0 .. TickMod - 1
      /\ tick \in 0 .. TickMod - 1
      /\ since[i] \in Nat /\ lag \in 0 .. Round /\ Round \in Nat
      /\ i \in Nat \ {0} /\ i + 2 * Round < TickMod /\ TickMod \in Nat
  BY LoopAssumption DEF LoopIInv, LoopTypeOK
<1>2. /\ Ago(localtime, lag) /\ Ago(timer[i], since[i])
      /\ since[i] >= lag /\ since[i] < i + lag + Round
  BY DEF LoopIInv, ClockInv
<1>3. since[i] - lag =
        IF localtime >= timer[i] THEN localtime - timer[i] ELSE localtime - timer[i] + TickMod
  BY <1>1, <1>2 DEF Ago
<1>4. (localtime - timer[i]) % TickMod = since[i] - lag
  BY <1>1, <1>3, TickArithmetic
<1> QED BY <1>4 DEF Due

(* It holds after board_init. *)
LEMMA LoopInitInv == LoopInit => LoopIInv
<1> SUFFICES ASSUME LoopInit PROVE LoopIInv
  OBVIOUS
<1>1. TypeOK
  BY CounterAssumption, TimersAssumption DEF LoopInit, Init, TypeOK
<1>2. LoopTypeOK
  <2>1. tick = 0 /\ localtime = 0 /\ tries = 0 /\ lag = 0 /\ 0 \in 0 .. TickMod - 1
    BY LoopAssumption DEF LoopInit
  <2>2. timer \in [Intervals -> 0 .. TickMod - 1] /\ since \in [Intervals -> Nat \cup {Never}]
    BY <2>1 DEF LoopInit
  <2>3. /\ pc = "netif_add" /\ address = "zero" /\ up \in BOOLEAN /\ dhcp \in BOOLEAN
    BY DEF LoopInit
  <2> QED BY <1>1, <2>1, <2>2, <2>3, LoopAssumption DEF LoopTypeOK
<1>3. StartInv /\ ClockInv
  BY LoopAssumption DEF LoopInit, StartInv, ClockInv
<1> QED BY <1>2, <1>3 DEF LoopIInv

(* Start-up keeps it. *)
LEMMA StartStep == ASSUME LoopIInv, TypeOK', lwip_comm_init PROVE LoopIInv'
<1> USE LoopAssumption DEF LoopIInv, At
<1>1. CASE netif_add
  BY <1>1 DEF netif_add, LoopTypeOK, StartInv, ClockInv
<1>2. CASE dhcp_start
  BY <1>2 DEF dhcp_start, LoopTypeOK, StartInv, ClockInv
<1>3. CASE dhcp_wait
  BY <1>3 DEF dhcp_wait, netif, LoopTypeOK, StartInv, ClockInv
<1>4. CASE assign_address
  BY <1>4 DEF assign_address, Fallback, LoopTypeOK, StartInv, ClockInv
<1>5. CASE netif_set_up
  BY <1>5 DEF netif_set_up, LoopTypeOK, StartInv, ClockInv
<1> QED BY <1>1, <1>2, <1>3, <1>4, <1>5 DEF lwip_comm_init

(* The loop keeps it. *)
LEMMA RoundStep == ASSUME LoopIInv, TypeOK', get_system_tick \/ lwip_periodic_handle PROVE LoopIInv'
<1>1. CASE get_system_tick
  <2>1. /\ pc = "rest" /\ pc' = "handle" /\ localtime' = tick /\ lag' = 0
        /\ UNCHANGED <<tick, tries, address, up, dhcp, timer, since>>
    BY <1>1 DEF get_system_tick, At, netif
  <2>2. LoopTypeOK' /\ StartInv'
    BY <2>1, LoopAssumption DEF LoopIInv, LoopTypeOK, StartInv
  <2>3. ASSUME NEW i \in Intervals
        PROVE  /\ Ago(localtime', 0)
               /\ since[i] # Never => Ago(timer[i], since[i]) /\ since[i] >= 0
                                       /\ since[i] < i + 0 + Round
    <3>1. /\ tick \in Nat /\ (since[i] # Never => since[i] \in Nat)
          /\ i \in Nat /\ lag \in 0 .. Round /\ Round \in Nat
      BY LoopAssumption DEF LoopIInv, LoopTypeOK
    <3> QED BY <2>1, <3>1 DEF LoopIInv, ClockInv, Ago
  <2>4. ClockInv'
    BY <2>1, <2>3 DEF ClockInv, Ago
  <2> QED BY <2>2, <2>4 DEF LoopIInv
<1>2. CASE lwip_periodic_handle
  <2>1. /\ pc = "handle" /\ pc' = "rest"
        /\ timer' = [i \in Intervals |-> IF Due(i) THEN localtime ELSE timer[i]]
        /\ since' = [i \in Intervals |-> IF Due(i) THEN lag ELSE since[i]]
        /\ UNCHANGED <<tick, tries, address, up, dhcp, localtime, lag>>
    BY <1>2 DEF lwip_periodic_handle, At, netif
  <2>2. LoopTypeOK' /\ StartInv'
    BY <2>1, LoopAssumption DEF LoopIInv, LoopTypeOK, StartInv
  <2>3. ASSUME NEW i \in Intervals, since'[i] # Never
        PROVE  Ago(timer'[i], since'[i]) /\ since'[i] >= lag /\ since'[i] < i + lag + 0
    <3>1. /\ since[i] # Never => since[i] \in Nat
          /\ i \in Nat \ {0} /\ lag \in 0 .. Round /\ Round \in Nat
      BY LoopAssumption DEF LoopIInv, LoopTypeOK
    <3>2. CASE Due(i)
      <4>1. timer'[i] = localtime /\ since'[i] = lag
        BY <2>1, <3>2
      <4> QED BY <2>1, <3>1, <4>1 DEF LoopIInv, ClockInv
    <3>3. CASE ~Due(i)
      <4>1. timer'[i] = timer[i] /\ since'[i] = since[i]
        BY <2>1, <3>3
      <4>2. ~(since[i] - lag >= i)
        BY <2>1, <2>3, <3>3, <4>1, DueMeans
      <4> QED BY <2>1, <2>3, <3>1, <4>1, <4>2 DEF LoopIInv, ClockInv
    <3> QED BY <3>2, <3>3
  <2>4. ClockInv'
    BY <2>1, <2>3 DEF ClockInv, Ago
  <2> QED BY <2>2, <2>4 DEF LoopIInv
<1> QED BY <1>1, <1>2

(* The tick keeps it: no time that is looked back to is as long ago as the   *)
(* tick takes to come round.                                                 *)
LEMMA SysTickStep == ASSUME LoopIInv, TypeOK', SysTick_Handler PROVE LoopIInv'
<1>1. /\ lag < Round /\ tick' = NextTick /\ lag' = lag + 1
      /\ since' = [i \in Intervals |-> IF since[i] = Never THEN Never ELSE since[i] + 1]
      /\ UNCHANGED <<pc, tries, address, up, dhcp, localtime, timer>>
  BY DEF SysTick_Handler, netif
<1>2. tick \in 0 .. TickMod - 1 /\ (tick' = IF tick + 1 = TickMod THEN 0 ELSE tick + 1)
  BY <1>1, TickArithmetic DEF LoopIInv, LoopTypeOK, NextTick
<1>3. lag \in Nat /\ Round \in Nat /\ lag' \in 0 .. Round /\ TickMod \in Nat \ {0}
      /\ tick' \in 0 .. TickMod - 1
  BY <1>1, <1>2, LoopAssumption DEF LoopIInv, LoopTypeOK
<1>4. ASSUME NEW i \in Intervals
      PROVE  /\ since[i] = Never => since'[i] = Never
             /\ since[i] # Never => since'[i] = since[i] + 1 /\ since[i] \in Nat
                                     /\ since'[i] \in Nat
  BY <1>1 DEF LoopIInv, LoopTypeOK
<1>5. LoopTypeOK' /\ StartInv'
  <2>1. since' \in [Intervals -> Nat \cup {Never}]
    BY <1>1, <1>4
  <2>2. LoopTypeOK'
    BY <1>1, <1>3, <2>1 DEF LoopIInv, LoopTypeOK
  <2>3. StartInv'
    BY <1>1, <1>4 DEF LoopIInv, StartInv
  <2> QED BY <2>2, <2>3
<1>6. ASSUME NEW t \in 0 .. TickMod - 1, NEW n \in Nat, n + 1 < TickMod, Ago(t, n)
      PROVE  t + (n + 1) = tick' \/ t + (n + 1) = tick' + TickMod
  BY <1>2, <1>3, <1>6 DEF Ago
<1>7. ASSUME NEW i \in Intervals
      PROVE  /\ pc = "handle" => localtime + lag' = tick' \/ localtime + lag' = tick' + TickMod
             /\ since'[i] # Never =>
                  /\ timer[i] + since'[i] = tick' \/ timer[i] + since'[i] = tick' + TickMod
                  /\ since'[i] >= lag'
                  /\ since'[i] < i + lag' + (IF pc = "handle" THEN Round ELSE 0)
  <2>1. i \in Nat \ {0} /\ i + 2 * Round < TickMod
    BY LoopAssumption
  <2>2. localtime \in 0 .. TickMod - 1 /\ timer[i] \in 0 .. TickMod - 1
    BY DEF LoopIInv, LoopTypeOK
  <2>3. pc = "handle" => localtime + lag' = tick' \/ localtime + lag' = tick' + TickMod
    BY <1>1, <1>3, <1>6, <2>1, <2>2 DEF LoopIInv, ClockInv
  <2>4. CASE since[i] = Never
    BY <1>4, <2>3, <2>4
  <2>5. CASE since[i] # Never
    <3>1. /\ Ago(timer[i], since[i]) /\ since[i] >= lag
          /\ since[i] < i + lag + (IF pc = "handle" THEN Round ELSE 0)
      BY <2>5 DEF LoopIInv, ClockInv
    <3>2. since[i] + 1 < TickMod /\ since[i] \in Nat
      BY <1>1, <1>3, <1>4, <2>1, <2>5, <3>1
    <3>3. timer[i] + since'[i] = tick' \/ timer[i] + since'[i] = tick' + TickMod
      BY <1>4, <1>6, <2>2, <2>5, <3>1, <3>2
    <3> QED BY <1>1, <1>3, <1>4, <2>1, <2>3, <2>5, <3>1, <3>2, <3>3
  <2> QED BY <2>4, <2>5
<1>8. ClockInv'
  BY <1>1, <1>4, <1>7 DEF ClockInv, Ago
<1> QED BY <1>5, <1>8 DEF LoopIInv

(* Every step keeps it. *)
LEMMA LoopStep == LoopIInv /\ [LoopNext]_all_vars => LoopIInv'
<1> SUFFICES ASSUME LoopIInv, [LoopNext]_all_vars PROVE LoopIInv'
  OBVIOUS
<1>1. TypeOK'
  <2>1. [Next]_vars
    BY DEF LoopNext, Main, lwip_comm_init, netif_add, dhcp_start, dhcp_wait, assign_address,
           netif_set_up, get_system_tick, lwip_periodic_handle, Application, SysTick_Handler,
           Next, all_vars
  <2> QED BY <2>1, TypeStep DEF LoopIInv, LoopTypeOK
<1>2. CASE UNCHANGED loop_vars
  <2> USE <1>2 DEF loop_vars, netif, LoopIInv
  <2>1. LoopTypeOK' /\ StartInv'
    BY <1>1 DEF LoopTypeOK, StartInv
  <2>2. ClockInv'
    BY DEF ClockInv, Ago
  <2> QED BY <2>1, <2>2
<1> QED
  BY <1>1, <1>2, StartStep, RoundStep, SysTickStep DEF LoopNext, Main, Application, all_vars

(* The loop is sound at every tick: its variables have their types, the      *)
(* interface has an address when it is up, and no periodic task is late.     *)
THEOREM LoopSafe == LoopSpec => []LoopInv
<1>1. LoopIInv => LoopInv
  <2> SUFFICES ASSUME LoopIInv PROVE LoopInv
    OBVIOUS
  <2>1. UpWithAddress
    BY DEF LoopIInv, StartInv, UpWithAddress
  <2>2. ASSUME NEW i \in Intervals, since[i] # Never PROVE since[i] < i + 2 * Round
    <3>1. since[i] < i + lag + (IF pc = "handle" THEN Round ELSE 0)
      BY <2>2 DEF LoopIInv, ClockInv
    <3>2. since[i] \in Nat /\ lag \in 0 .. Round /\ i \in Nat /\ Round \in Nat
      BY <2>2, LoopAssumption DEF LoopIInv, LoopTypeOK
    <3> QED BY <3>1, <3>2
  <2> QED BY <2>1, <2>2 DEF LoopIInv, LoopInv, NeverLate
<1> QED BY <1>1, LoopInitInv, LoopStep, PTL DEF LoopSpec

(* lwip_periodic_handle never runs a task twice within its interval, also    *)
(* when g_system_tick wraps between the two.                                 *)
THEOREM TasksNeverEarly == LoopSpec => NeverEarly
<1>1. LoopIInv => [\A i \in Intervals :
                     lwip_periodic_handle /\ timer'[i] # timer[i] /\ since[i] # Never
                       => since[i] - lag >= i]_all_vars
  <2> SUFFICES ASSUME LoopIInv, NEW i \in Intervals, lwip_periodic_handle,
                      timer'[i] # timer[i], since[i] # Never
               PROVE  since[i] - lag >= i
    OBVIOUS
  <2>1. pc = "handle" /\ Due(i)
    BY DEF lwip_periodic_handle, At
  <2> QED BY <2>1, DueMeans
<1> QED BY <1>1, LoopInitInv, LoopStep, PTL DEF LoopSpec, NeverEarly
=============================================================================
