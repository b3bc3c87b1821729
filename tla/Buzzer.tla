------------------------------- MODULE Buzzer -------------------------------
(***************************************************************************)
(* The non-blocking buzzer driver of module/buzzer/buzzer.c: an array of   *)
(* tones filled by buzzer_beep_tone and played by buzzer_poll, and an      *)
(* alarm that goes before them.  All calls come from the main loop; the    *)
(* system tick advances between them.                                      *)
(***************************************************************************)
EXTENDS Naturals, FiniteSets

CONSTANTS
  Size,       \* MAX_BUZZER_DATA_SIZE
  TickMod,    \* 2^32: the system tick and the end times are uint32_t
  Start,      \* the tick at which the buzzer is initialised
  Pitches,    \* frequencies that sound
  Durations,  \* on and off times the callers pass
  MaxTones, MaxAlarms,   \* bounds on the calls
  LastCall, MaxTicks,    \* bounds on the ticks: of the last call, and of the model
  MaxGap                 \* bound on the ticks between two polls

Silent == "silent"
Alarm == "alarm"

ASSUME BuzzerAssumption ==
  /\ Size \in Nat \ {0} /\ TickMod \in Nat \ {0} /\ Start \in 0 .. TickMod - 1
  /\ Durations \subseteq 0 .. TickMod - 1
  /\ Silent \notin Pitches /\ Alarm \notin Pitches
  /\ {MaxTones, MaxAlarms, LastCall, MaxTicks, MaxGap} \subseteq Nat

VARIABLES
  data,       \* buzzer_beep_data
  write_pos, read_pos,
  beeping,    \* _is_buzzer_beeping
  alarm_end,  \* immediate_buzzer_end_time
  on_time, off_time, playing,   \* the statics of buzzer_poll; inter_beeping_flag
  sound,      \* what buzzer_beep_set was last told to emit
  tick,       \* get_system_tick()
  status,     \* history: what became of each slot since both positions were 0
  calls       \* history: tones, alarms and ticks so far, and ticks since a poll

positions == <<write_pos, read_pos>>
times == <<on_time, off_time, playing>>
vars == <<data, positions, beeping, alarm_end, times, sound, tick, status, calls>>

Slots == 0 .. Size - 1
Tones == [tone : Pitches \cup {Silent}, on : Durations, off : Durations]
Zeroed == [tone |-> Silent, on |-> 0, off |-> 0]
Plus(a, b) == (a + b) % TickMod

Init ==
  /\ data = [s \in Slots |-> Zeroed]
  /\ write_pos = 0 /\ read_pos = 0
  /\ beeping = 0 /\ alarm_end = 0
  /\ on_time = 0 /\ off_time = 0 /\ playing = 0
  /\ sound = Silent
  /\ tick = Start
  /\ status = [s \in Slots |-> "unused"]
  /\ calls = [tones |-> 0, alarms |-> 0, ticks |-> 0, gap |-> 0]

-----------------------------------------------------------------------------
(* The poll has gone beyond slot s, or is timing what was in it before. *)
Passed(s) == s < read_pos \/ status[s] = "stale"

(* A tone that finds the array full is refused, and nothing changes. *)
buzzer_beep_tone(e) ==
  /\ calls.tones < MaxTones /\ calls.ticks < LastCall
  /\ write_pos < Size
  /\ data' = [data EXCEPT ![write_pos] = e]
  /\ write_pos' = write_pos + 1
  /\ status' = [status EXCEPT ![write_pos] = IF Passed(write_pos) THEN "late" ELSE "waiting"]
  /\ calls' = [calls EXCEPT !.tones = @ + 1]
  /\ UNCHANGED <<read_pos, beeping, alarm_end, times, sound, tick>>

buzzer_beep_immediate(d) ==
  /\ calls.alarms < MaxAlarms /\ calls.ticks < LastCall
  /\ alarm_end' = Plus(d, tick)
  /\ calls' = [calls EXCEPT !.alarms = @ + 1]
  /\ UNCHANGED <<data, positions, beeping, times, sound, tick, status>>

(* SysTick, between two calls (external) *)
system_tick ==
  /\ calls.ticks < MaxTicks /\ calls.gap < MaxGap
  /\ tick' = Plus(tick, 1)
  /\ calls' = [calls EXCEPT !.ticks = @ + 1, !.gap = @ + 1]
  /\ UNCHANGED <<data, positions, beeping, alarm_end, times, sound, status>>

(* mutant: the write position is not reset with the read position *)
AdvanceReadOnly ==
  /\ read_pos' = (read_pos + 1) % Size
  /\ UNCHANGED write_pos

Advance ==
  IF read_pos + 1 >= Size
  THEN read_pos' = 0 /\ write_pos' = 0
  ELSE read_pos' = read_pos + 1 /\ UNCHANGED write_pos

(* What a poll that begins slot read_pos makes of its tone: it has sounded   *)
(* if the hardware is now emitting it, or it was of no length.               *)
Begun(e) ==
  IF status[read_pos] # "waiting" THEN "stale"
  ELSE IF sound' = (IF e.on = 0 THEN Silent ELSE e.tone) THEN "sounded" ELSE "waiting"

NextStatus(e, over) ==
  IF over /\ read_pos + 1 >= Size
  THEN [s \in Slots |-> "unused"]
  ELSE [status EXCEPT ![read_pos] = IF playing = 0 THEN Begun(e) ELSE @]

(* The second half of buzzer_poll, with the flag and the sound that the      *)
(* first half left.  It does not compare read_pos with write_pos.            *)
PlayTone(beep, snd) ==
  LET e   == data[read_pos]
      on  == IF playing = 0 THEN Plus(e.on, tick) ELSE on_time
      off == IF playing = 0 THEN Plus(e.off, on) ELSE off_time
  IN /\ on_time' = on /\ off_time' = off
     /\ IF tick < on
        THEN beeping' = 1 /\ sound' = IF beep = 0 THEN e.tone ELSE snd
        ELSE beeping' = 0 /\ sound' = Silent
     /\ IF tick <= off
        THEN playing' = 1 /\ UNCHANGED positions
        ELSE playing' = 0 /\ Advance
     /\ status' = NextStatus(e, tick > off)

AlarmOn == alarm_end # 0 /\ alarm_end >= tick
AlarmOver == alarm_end # 0 /\ alarm_end < tick

(* mutant: the end of the alarm clears the flag and leaves the buzzer on *)
SoundKeptOn ==
  IF AlarmOn /\ beeping = 0 THEN Alarm ELSE sound

(* The sound after the first half of buzzer_poll. *)
SoundAfterAlarm ==
  IF AlarmOn /\ beeping = 0 THEN Alarm ELSE IF AlarmOver THEN Silent ELSE sound

(* mutant: the end of the alarm does not clear the flag *)
BeepingKept == IF AlarmOn THEN 1 ELSE beeping

BeepingAfterAlarm ==
  IF AlarmOn THEN 1 ELSE IF AlarmOver THEN 0 ELSE beeping

buzzer_poll ==
  /\ alarm_end' = IF AlarmOver THEN 0 ELSE alarm_end
  /\ IF alarm_end' < tick /\ write_pos # 0
     THEN PlayTone(BeepingAfterAlarm, SoundAfterAlarm)
     ELSE /\ beeping' = BeepingAfterAlarm /\ sound' = SoundAfterAlarm
          /\ UNCHANGED <<positions, times, status>>
  /\ calls' = [calls EXCEPT !.gap = 0]
  /\ UNCHANGED <<data, tick>>

Next ==
  \/ \E e \in Tones : buzzer_beep_tone(e)
  \/ \E d \in Durations : buzzer_beep_immediate(d)
  \/ buzzer_poll
  \/ system_tick

Spec == Init /\ [][Next]_vars

(* Time goes on, and the main loop goes on polling ("every 10 ms"). *)
FairSpec == Spec /\ WF_vars(system_tick) /\ WF_vars(buzzer_poll)

-----------------------------------------------------------------------------
(* The positions stay inside the array and the flags are flags. *)
TypeOK ==
  /\ data \in [Slots -> Tones \cup {Zeroed}]
  /\ read_pos \in Slots /\ write_pos \in 0 .. Size
  /\ beeping \in {0, 1} /\ playing \in {0, 1}
  /\ {alarm_end, on_time, off_time, tick} \subseteq 0 .. TickMod - 1
  /\ sound \in Pitches \cup {Silent, Alarm}
  /\ status \in [Slots -> {"unused", "waiting", "late", "sounded", "stale"}]

(* is_buzzer_beeping never says that the buzzer is quiet while it sounds:   *)
(* the flag, kept by two halves of the poll, agrees with the hardware.       *)
QuietIsQuiet == beeping = 0 => sound = Silent

(* Positions, times and flags of buzzer.c are in range, and the flag agrees  *)
(* with the hardware.                                                        *)
BuzzerInv == TypeOK /\ QuietIsQuiet

(* A poll leaves the buzzer on only inside the time that an alarm or the     *)
(* tone in hand asked for, whatever was queued, alarmed or cut short before. *)
(* "on_time: how long it sounds in one period" (buzzer.c:163).               *)
StopsOnTime ==
  [][buzzer_poll /\ beeping' = 1 => \/ alarm_end' # 0 /\ tick <= alarm_end'
                                    \/ playing' = 1 /\ tick < on_time']_vars

(* The array, once a tone is in it, is played to its end and emptied: tones  *)
(* are refused while it is full, but not for ever.                           *)
EventuallyEmptied == (write_pos > 0) ~> (write_pos = 0)

(* A tone accepted at or ahead of the read position sounds in its turn: the  *)
(* poll never moves past it before the hardware emitted it, whatever tones   *)
(* and alarms came before.  (One accepted behind it is passed over.)         *)
PlayedInTurn == \A s \in Slots : s < read_pos => status[s] # "waiting"
=============================================================================
