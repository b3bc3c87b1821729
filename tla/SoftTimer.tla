----------------------------- MODULE SoftTimer -----------------------------
(***************************************************************************)
(* The software timers of module/soft_timer/soft_timer.c.                  *)
(*                                                                         *)
(* Two actors share the array timers[]: the main program, which calls the  *)
(* soft_timer_* functions one at a time, and the SysTick interrupt, which  *)
(* runs soft_timer_tick to completion whenever interrupts are enabled.     *)
(* A function that brackets its body with soft_timer_interrupt_disable and *)
(* soft_timer_interrupt_enable is one action; soft_timer_is_timeout does   *)
(* not, so its load and its store of is_timeout are two actions, with any  *)
(* number of ticks between them.                                           *)
(*                                                                         *)
(* The four fields of the C structure are four functions on Timers; the    *)
(* byte flags is_timeout and is_repeat only ever hold 0 and 1.             *)
(***************************************************************************)
EXTENDS Integers

CONSTANTS
  Timers,      \* the valid timer numbers, SOFT_TIMER_0 .. SOFT_TIMER_9
  Handles,     \* the values a caller may pass; the extra ones are >= SOFT_TIMER_MAX
  Timeouts,    \* the timeouts a caller may ask for, in ticks
  CounterMod,  \* 2^32: counter and timeout are uint32_t
  NoCall       \* soft_timer_is_timeout is not between its load and its store

ASSUME TimersAssumption == Timers \subseteq Handles /\ NoCall \notin Handles

ASSUME CounterAssumption ==
  /\ CounterMod \in Nat \ {0, 1}
  /\ Timeouts \subseteq 0 .. CounterMod - 1

VARIABLES
  counter, timeout, is_timeout, is_repeat,  \* timers[t].<field>
  primask,   \* 1 while interrupts are masked (the Cortex-M PRIMASK bit)
  call       \* the timer whose flag soft_timer_is_timeout saw set, not yet cleared

fields == <<counter, timeout, is_timeout, is_repeat>>
vars == <<counter, timeout, is_timeout, is_repeat, primask, call>>

(* timers[] is a static array: every field starts at 0. *)
Init ==
  /\ counter = [t \in Timers |-> 0]
  /\ timeout = [t \in Timers |-> 0]
  /\ is_timeout = [t \in Timers |-> 0]
  /\ is_repeat = [t \in Timers |-> 0]
  /\ primask = 0
  /\ call = NoCall

-----------------------------------------------------------------------------
(* The main program's calls. *)

(* soft_timer_interrupt_enable clears PRIMASK whatever the caller's was. *)
soft_timer_interrupt_enable == primask' = 0

(* The common body of the two init functions. *)
Arm(t, n, repeat) ==
  /\ call = NoCall
  /\ IF t \in Timers
     THEN /\ counter' = [counter EXCEPT ![t] = 0]
          /\ timeout' = [timeout EXCEPT ![t] = n]
          /\ is_timeout' = [is_timeout EXCEPT ![t] = 0]
          /\ is_repeat' = [is_repeat EXCEPT ![t] = repeat]
     ELSE UNCHANGED fields
  /\ soft_timer_interrupt_enable
  /\ UNCHANGED call

soft_timer_single_init(t, n) == Arm(t, n, 0)

soft_timer_repeat_init(t, n) == Arm(t, n, 1)

(* Stopping clears the flags and the counter and leaves timeout alone. *)
soft_timer_stop(t) ==
  /\ call = NoCall
  /\ IF t \in Timers
     THEN /\ is_timeout' = [is_timeout EXCEPT ![t] = 0]
          /\ counter' = [counter EXCEPT ![t] = 0]
          /\ is_repeat' = [is_repeat EXCEPT ![t] = 0]
          /\ UNCHANGED timeout
     ELSE UNCHANGED fields
  /\ soft_timer_interrupt_enable
  /\ UNCHANGED call

soft_timer_reset(t) ==
  /\ call = NoCall
  /\ IF t \in Timers
     THEN /\ counter' = [counter EXCEPT ![t] = 0]
          /\ is_timeout' = [is_timeout EXCEPT ![t] = 0]
          /\ UNCHANGED <<timeout, is_repeat>>
     ELSE UNCHANGED fields
  /\ soft_timer_interrupt_enable
  /\ UNCHANGED call

(* soft_timer_is_timeout, first half: load the flag; a clear flag, or a     *)
(* number out of range, returns 0 at once.                                  *)
ReturnsZero(t) == t \notin Timers \/ is_timeout[t] = 0

is_timeout_load(t) ==
  /\ call = NoCall
  /\ call' = IF ReturnsZero(t) THEN NoCall ELSE t
  /\ UNCHANGED <<fields, primask>>

(* mutant: the flag is not cleared *)
ForgetsToClear ==
  /\ call # NoCall
  /\ call' = NoCall
  /\ UNCHANGED <<fields, primask>>

(* second half: store 0 and return 1; interrupts were never masked *)
is_timeout_clear ==
  /\ call # NoCall
  /\ is_timeout' = [is_timeout EXCEPT ![call] = 0]
  /\ call' = NoCall
  /\ UNCHANGED <<counter, timeout, is_repeat, primask>>

(* The caller's own critical section around such calls (external). *)
caller_disable_irq ==
  /\ call = NoCall /\ primask = 0
  /\ primask' = 1
  /\ UNCHANGED <<fields, call>>

caller_enable_irq ==
  /\ call = NoCall /\ primask = 1
  /\ primask' = 0
  /\ UNCHANGED <<fields, call>>

-----------------------------------------------------------------------------
(* The SysTick interrupt. *)

CountedUnbounded(t) == counter[t] + 1          \* mutant: no wrap at 2^32

Counted(t) == (counter[t] + 1) % CounterMod   \* ++timers[timer].counter

ExpiresOneLate(t) == Counted(t) > timeout[t]   \* mutant: > for >=

Expires(t) == Counted(t) >= timeout[t]

CounterKept(t) == Counted(t)                   \* mutant: missing counter = 0

CounterAfterTick(t) == IF Expires(t) /\ is_repeat[t] = 1 THEN 0 ELSE Counted(t)

(* mutant: the flag is assigned the comparison instead of being latched *)
TickOverwrites ==
  /\ primask = 0
  /\ counter' = [t \in Timers |-> CounterAfterTick(t)]
  /\ is_timeout' = [t \in Timers |-> IF Expires(t) THEN 1 ELSE 0]
  /\ UNCHANGED <<timeout, is_repeat, primask, call>>

soft_timer_tick ==
  /\ primask = 0
  /\ counter' = [t \in Timers |-> CounterAfterTick(t)]
  /\ is_timeout' = [t \in Timers |-> IF Expires(t) THEN 1 ELSE is_timeout[t]]
  /\ UNCHANGED <<timeout, is_repeat, primask, call>>

-----------------------------------------------------------------------------
MainCall ==
  \E t \in Handles :
    \/ \E n \in Timeouts : soft_timer_single_init(t, n) \/ soft_timer_repeat_init(t, n)
    \/ soft_timer_stop(t)
    \/ soft_timer_reset(t)
    \/ is_timeout_load(t)

Next ==
  \/ MainCall
  \/ is_timeout_clear
  \/ caller_disable_irq
  \/ caller_enable_irq
  \/ soft_timer_tick

Spec == Init /\ [][Next]_vars

-----------------------------------------------------------------------------
(* The fields keep their widths, and soft_timer_is_timeout only stands      *)
(* between its load and its store for a valid timer.                        *)
TypeOK ==
  /\ counter \in [Timers -> 0 .. CounterMod - 1]
  /\ timeout \in [Timers -> Timeouts \cup {0}]
  /\ is_timeout \in [Timers -> {0, 1}]
  /\ is_repeat \in [Timers -> {0, 1}]
  /\ primask \in {0, 1}
  /\ call \in Timers \cup {NoCall}

(* A call that starts timer t counting again from 0. *)
Restart(t) ==
  \/ \E n \in Timeouts : soft_timer_single_init(t, n) \/ soft_timer_repeat_init(t, n)
  \/ soft_timer_stop(t)
  \/ soft_timer_reset(t)

(* A repeat timer that is left alone goes on being reported for ever by the  *)
(* polls of soft_timer_is_timeout, although a tick that falls between its    *)
(* load and its store of is_timeout is wiped out with the expiry it latched. *)
RepeatKeepsReporting ==
  \A t \in Timers :
    (<>[](is_repeat[t] = 1) /\ <>[][~Restart(t)]_vars) => []<>(call = t)
=============================================================================
