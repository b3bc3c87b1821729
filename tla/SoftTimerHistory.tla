-------------------------- MODULE SoftTimerHistory --------------------------
(***************************************************************************)
(* SoftTimer with history variables that record, for every timer, what has *)
(* happened since it was last started (armed, reset or stopped).  They do  *)
(* not constrain the program; the properties relate the program's fields   *)
(* to them.                                                                *)
(***************************************************************************)
EXTENDS SoftTimer

CONSTANT MaxAge   \* bound on the ticks recorded for one timer

ASSUME MaxAgeAssumption == MaxAge \in Nat

VARIABLES
  age,        \* ticks since timer t was last started
  fired,      \* how many of them found the timer expired
  reported,   \* how many polls have returned 1
  due         \* the timers that have expired since a poll last returned 1 for them

history == <<age, fired, reported, due>>
hvars == <<vars, history>>

HInit ==
  /\ Init
  /\ age = [t \in Timers |-> 0]
  /\ fired = [t \in Timers |-> 0]
  /\ reported = [t \in Timers |-> 0]
  /\ due = {}

(* What the history records when timer t is started. *)
Started(t) ==
  IF t \in Timers
  THEN /\ age' = [age EXCEPT ![t] = 0]
       /\ fired' = [fired EXCEPT ![t] = 0]
       /\ reported' = [reported EXCEPT ![t] = 0]
       /\ due' = due \ {t}
  ELSE UNCHANGED history

HSingleInit(t, n) == soft_timer_single_init(t, n) /\ Started(t)
HRepeatInit(t, n) == soft_timer_repeat_init(t, n) /\ Started(t)
HStop(t) == soft_timer_stop(t) /\ Started(t)
HReset(t) == soft_timer_reset(t) /\ Started(t)

HLoad(t) == is_timeout_load(t) /\ UNCHANGED history

HClear ==
  /\ is_timeout_clear
  /\ reported' = [reported EXCEPT ![call] = @ + 1]
  /\ due' = due \ {call}
  /\ UNCHANGED <<age, fired>>

HMask == (caller_disable_irq \/ caller_enable_irq) /\ UNCHANGED history

HTick ==
  /\ \A t \in Timers : age[t] < MaxAge
  /\ soft_timer_tick
  /\ age' = [t \in Timers |-> age[t] + 1]
  /\ fired' = [t \in Timers |-> IF Expires(t) THEN fired[t] + 1 ELSE fired[t]]
  /\ due' = due \cup {t \in Timers : Expires(t)}
  /\ UNCHANGED reported

HCall(t) ==
  \/ \E n \in Timeouts : HSingleInit(t, n) \/ HRepeatInit(t, n)
  \/ HStop(t)
  \/ HReset(t)
  \/ HLoad(t)

HNext == (\E t \in Handles : HCall(t)) \/ HClear \/ HMask \/ HTick

HSpec == HInit /\ [][HNext]_hvars

(* The types of the history variables. *)
HTypeOK ==
  /\ age \in [Timers -> Nat]
  /\ fired \in [Timers -> Nat]
  /\ reported \in [Timers -> Nat]
  /\ due \subseteq Timers

-----------------------------------------------------------------------------
(* soft_timer_tick compares the incremented counter with timeout by >=, so   *)
(* a timeout of 0 behaves as one of 1.                                       *)
Period(t) == IF timeout[t] = 0 THEN 1 ELSE timeout[t]

(* No drift: a repeat timer has expired exactly once in every period since   *)
(* it was started, and its counter is the phase within the current period,   *)
(* however init, reset, stop, polls and ticks interleave and whatever the    *)
(* width of the counter.                                                     *)
NoDrift ==
  \A t \in Timers :
    is_repeat[t] = 1 => /\ age[t] = fired[t] * Period(t) + counter[t]
                        /\ counter[t] < Period(t)

(* On time: a timer has expired at least once exactly when a whole period    *)
(* has passed since it was last armed, reset or stopped; a flag left over    *)
(* from before, or a counter that was not cleared, would break it.           *)
OnTime ==
  \A t \in Timers : (fired[t] > 0) <=> (age[t] >= Period(t))

(* A poll that returns 1 accounts for an expiry of its own: no expiry is     *)
(* reported twice, and none survives a restart of the timer, although the    *)
(* tick may set the flag between the load and the store of a poll.           *)
DistinctReports ==
  \A t \in Timers :
    /\ reported[t] <= fired[t]
    /\ is_timeout[t] = 1 \/ call = t => reported[t] < fired[t]

(* No expiry goes unnoticed: until a poll that returns after it reports 1,   *)
(* or the caller restarts the timer, it stays latched.  The store of a poll  *)
(* may wipe out an expiry latched since its load, but that poll returns 1.   *)
ExpiryIsReported == \A t \in due : is_timeout[t] = 1
=============================================================================
