---------------------------- MODULE MCSoftTimer ----------------------------
(* Model-checking instance of SoftTimer and its history.  A timeout matters *)
(* only through its distance to the counter's wrap, so CounterMod is small  *)
(* and MaxAge runs past it.  The timers are interchangeable.                *)
EXTENDS SoftTimerHistory, TLC

Symmetry == Permutations(Timers)
=============================================================================
