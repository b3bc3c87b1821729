---------------------------- MODULE BuzzerProofs ----------------------------
(***************************************************************************)
(* For any size of the array, any pitches and durations, and any number of *)
(* calls: the flag agrees with the hardware at all times.  As long as no   *)
(* end time wraps at 2^32 ticks (buzzer.c:143), tones also sound in their  *)
(* turn and the buzzer stops on time.                                      *)
(***************************************************************************)
EXTENDS Buzzer, TLAPS

(* The end of a period that begins within MaxTicks fits a uint32_t, and tick *)
(* 0, which alarm_end takes for "no alarm", is over.                         *)
NoWrap ==
  /\ Start > 0
  /\ \A on, off \in Durations \cup {0} : Start + MaxTicks + on + off < TickMod

(* The counters of the calls. *)
CallsOK == calls \in [tones : Nat, alarms : Nat, ticks : 0 .. MaxTicks, gap : Nat]

(* What holds whatever the ticks do. *)
AnyTimeInv == TypeOK /\ QuietIsQuiet /\ CallsOK

(* The clock has not wrapped. *)
ClockInv == tick = Start + calls.ticks

(* A sound has a reason: an alarm, or a tone that is being timed. *)
SoundHasReason == beeping = 1 => alarm_end # 0 \/ (playing = 1 /\ write_pos # 0)

(* The slot that is being timed has had its turn, and no slot at or beyond   *)
(* the write position holds a tone.                                          *)
TimedInv == playing = 1 => on_time <= off_time /\ status[read_pos] \in {"sounded", "stale", "late"}
UnwrittenInv == \A s \in Slots : s >= write_pos => status[s] \in {"unused", "stale"}

(* The inductive invariant. *)
IInv ==
  /\ AnyTimeInv /\ ClockInv /\ SoundHasReason /\ TimedInv /\ UnwrittenInv /\ PlayedInTurn

-----------------------------------------------------------------------------
(* End times are taken modulo the range of the tick. *)
LEMMA PlusType ==
  ASSUME NEW a \in 0 .. TickMod - 1, NEW b \in 0 .. TickMod - 1
  PROVE  Plus(a, b) \in 0 .. TickMod - 1
BY BuzzerAssumption DEF Plus

(* A sum that fits is not reduced. *)
LEMMA PlusSmall ==
  ASSUME NEW a \in Nat, NEW b \in Nat, a + b < TickMod
  PROVE  Plus(a, b) = a + b
BY BuzzerAssumption DEF Plus

(* The array holds tones or zeros. *)
LEMMA ToneFields ==
  ASSUME NEW e \in Tones \cup {Zeroed}
  PROVE  /\ e.tone \in Pitches \cup {Silent}
         /\ e.on \in Durations \cup {0} /\ e.off \in Durations \cup {0}
         /\ e.on \in 0 .. TickMod - 1 /\ e.off \in 0 .. TickMod - 1
<1>1. /\ e.tone \in Pitches \cup {Silent}
      /\ e.on \in Durations \cup {0} /\ e.off \in Durations \cup {0}
  BY DEF Tones, Zeroed
<1>2. Durations \cup {0} \subseteq 0 .. TickMod - 1
  BY BuzzerAssumption
<1> QED BY <1>1, <1>2

(* What a call counts. *)
LEMMA CountFields ==
  ASSUME CallsOK
  PROVE  /\ [calls EXCEPT !.tones = @ + 1] \in [tones : Nat, alarms : Nat, ticks : 0 .. MaxTicks, gap : Nat]
         /\ [calls EXCEPT !.tones = @ + 1].ticks = calls.ticks
         /\ [calls EXCEPT !.alarms = @ + 1] \in [tones : Nat, alarms : Nat, ticks : 0 .. MaxTicks, gap : Nat]
         /\ [calls EXCEPT !.alarms = @ + 1].ticks = calls.ticks
         /\ [calls EXCEPT !.gap = 0] \in [tones : Nat, alarms : Nat, ticks : 0 .. MaxTicks, gap : Nat]
         /\ [calls EXCEPT !.gap = 0].ticks = calls.ticks
BY DEF CallsOK

(* What a tick counts. *)
LEMMA CountTick ==
  ASSUME CallsOK, calls.ticks < MaxTicks
  PROVE  /\ [calls EXCEPT !.ticks = @ + 1, !.gap = @ + 1]
                \in [tones : Nat, alarms : Nat, ticks : 0 .. MaxTicks, gap : Nat]
         /\ [calls EXCEPT !.ticks = @ + 1, !.gap = @ + 1].ticks = calls.ticks + 1
<1>1. MaxTicks \in Nat /\ calls.ticks \in 0 .. MaxTicks
  BY BuzzerAssumption DEF CallsOK
<1>2. calls.ticks + 1 \in 0 .. MaxTicks /\ calls.gap + 1 \in Nat
  BY <1>1 DEF CallsOK
<1> QED BY <1>2 DEF CallsOK

(* The status the poll leaves is one. *)
LEMMA StatusType ==
  ASSUME NEW e, NEW over, TypeOK
  PROVE  NextStatus(e, over) \in [Slots -> {"unused", "waiting", "late", "sounded", "stale"}]
<1>1. Begun(e) \in {"stale", "sounded", "waiting"}
  BY DEF Begun
<1> QED BY <1>1 DEF NextStatus, TypeOK

(* Both invariants hold when buzzer.c is initialised. *)
LEMMA InitInv == Init => AnyTimeInv /\ IInv
<1> SUFFICES ASSUME Init PROVE AnyTimeInv /\ IInv
  OBVIOUS
<1> USE BuzzerAssumption DEF Init
<1>1. TypeOK
  <2>1. 0 \in Slots /\ 0 \in 0 .. Size
    BY DEF Slots
  <2>2. {0, tick} \subseteq 0 .. TickMod - 1
    OBVIOUS
  <2> QED BY <2>1, <2>2 DEF TypeOK
<1>2. CallsOK /\ ClockInv
  BY DEF CallsOK, ClockInv
<1>3. QuietIsQuiet /\ SoundHasReason /\ TimedInv /\ UnwrittenInv
  BY DEF QuietIsQuiet, SoundHasReason, TimedInv, UnwrittenInv, Slots
<1>4. PlayedInTurn
  BY DEF PlayedInTurn, Slots
<1> QED BY <1>1, <1>2, <1>3, <1>4 DEF AnyTimeInv, IInv

-----------------------------------------------------------------------------
(* The calls and the tick keep ranges and flag, whatever the time. *)
LEMMA ToneKeeps ==
  ASSUME AnyTimeInv, NEW e \in Tones, buzzer_beep_tone(e)
  PROVE  AnyTimeInv' /\ calls'.ticks = calls.ticks
<1>1. /\ write_pos < Size /\ data' = [data EXCEPT ![write_pos] = e] /\ write_pos' = write_pos + 1
      /\ status' = [status EXCEPT ![write_pos] = IF Passed(write_pos) THEN "late" ELSE "waiting"]
      /\ calls' = [calls EXCEPT !.tones = @ + 1]
      /\ UNCHANGED <<read_pos, beeping, alarm_end, on_time, off_time, playing, sound, tick>>
  BY DEF buzzer_beep_tone, times
<1>2. TypeOK /\ QuietIsQuiet /\ CallsOK
  BY DEF AnyTimeInv
<1>3. write_pos \in Slots /\ write_pos' \in 0 .. Size
  <2>1. write_pos \in 0 .. Size /\ Size \in Nat
    BY <1>2, BuzzerAssumption DEF TypeOK
  <2> QED BY <1>1, <2>1 DEF Slots
<1>4. /\ data' \in [Slots -> Tones \cup {Zeroed}]
      /\ status' \in [Slots -> {"unused", "waiting", "late", "sounded", "stale"}]
  BY <1>1, <1>2, <1>3 DEF TypeOK
<1>5. TypeOK' /\ QuietIsQuiet'
  BY <1>1, <1>2, <1>3, <1>4 DEF TypeOK, QuietIsQuiet
<1>6. CallsOK' /\ calls'.ticks = calls.ticks
  BY <1>1, <1>2, CountFields DEF CallsOK
<1> QED BY <1>5, <1>6 DEF AnyTimeInv

(* So does buzzer_beep_immediate. *)
LEMMA ImmediateKeeps ==
  ASSUME AnyTimeInv, NEW d \in Durations, buzzer_beep_immediate(d)
  PROVE  AnyTimeInv' /\ calls'.ticks = calls.ticks
<1>1. /\ alarm_end' = Plus(d, tick) /\ calls' = [calls EXCEPT !.alarms = @ + 1]
      /\ UNCHANGED <<data, write_pos, read_pos, beeping, on_time, off_time, playing, sound, tick, status>>
  BY DEF buzzer_beep_immediate, times, positions
<1>2. TypeOK /\ QuietIsQuiet /\ CallsOK
  BY DEF AnyTimeInv
<1>3. d \in 0 .. TickMod - 1 /\ tick \in 0 .. TickMod - 1
  BY <1>2, BuzzerAssumption DEF TypeOK
<1>4. alarm_end' \in 0 .. TickMod - 1
  BY <1>1, <1>3, PlusType
<1>5. TypeOK' /\ QuietIsQuiet'
  BY <1>1, <1>2, <1>4 DEF TypeOK, QuietIsQuiet
<1>6. CallsOK' /\ calls'.ticks = calls.ticks
  BY <1>1, <1>2, CountFields DEF CallsOK
<1> QED BY <1>5, <1>6 DEF AnyTimeInv

(* So does the tick. *)
LEMMA TickKeeps ==
  ASSUME AnyTimeInv, system_tick
  PROVE  AnyTimeInv' /\ calls'.ticks = calls.ticks + 1
<1>1. /\ tick' = Plus(tick, 1) /\ calls.ticks < MaxTicks
      /\ calls' = [calls EXCEPT !.ticks = @ + 1, !.gap = @ + 1]
      /\ UNCHANGED <<data, write_pos, read_pos, beeping, alarm_end, on_time, off_time, playing, sound, status>>
  BY DEF system_tick, times, positions
<1>2. TypeOK /\ QuietIsQuiet /\ CallsOK
  BY DEF AnyTimeInv
<1>3. tick \in 0 .. TickMod - 1
  BY <1>2 DEF TypeOK
<1>4. tick' \in 0 .. TickMod - 1
  BY <1>1, <1>3, BuzzerAssumption DEF Plus
<1>5. TypeOK' /\ QuietIsQuiet'
  BY <1>1, <1>2, <1>4 DEF TypeOK, QuietIsQuiet
<1>6. CallsOK' /\ calls'.ticks = calls.ticks + 1
  BY <1>1, <1>2, CountTick DEF CallsOK
<1> QED BY <1>5, <1>6 DEF AnyTimeInv

(* What the second half of the poll does with the tone e at read_pos. *)
LEMMA PlayFacts ==
  ASSUME TypeOK, NEW beep \in {0, 1}, NEW snd \in Pitches \cup {Silent, Alarm},
         PlayTone(beep, snd),
         NEW e, e = data[read_pos],
         NEW on, on = IF playing = 0 THEN Plus(e.on, tick) ELSE on_time,
         NEW off, off = IF playing = 0 THEN Plus(e.off, on) ELSE off_time
  PROVE  /\ on \in 0 .. TickMod - 1 /\ off \in 0 .. TickMod - 1
         /\ e \in Tones \cup {Zeroed}
         /\ on_time' = on /\ off_time' = off
         /\ \/ tick < on /\ beeping' = 1 /\ sound' = IF beep = 0 THEN e.tone ELSE snd
            \/ ~(tick < on) /\ beeping' = 0 /\ sound' = Silent
         /\ sound' \in Pitches \cup {Silent, Alarm}
         /\ \/ tick <= off /\ playing' = 1 /\ UNCHANGED <<write_pos, read_pos>>
            \/ tick > off /\ playing' = 0 /\ Advance
         /\ status' = NextStatus(e, tick > off)
<1>1. /\ tick \in 0 .. TickMod - 1 /\ on_time \in 0 .. TickMod - 1 /\ off_time \in 0 .. TickMod - 1
      /\ e \in Tones \cup {Zeroed}
  BY DEF TypeOK
<1>2. on \in 0 .. TickMod - 1
  BY <1>1, ToneFields, PlusType
<1>3. off \in 0 .. TickMod - 1
  BY <1>1, <1>2, ToneFields, PlusType
<1>4. /\ on_time' = on /\ off_time' = off
      /\ IF tick < on
         THEN beeping' = 1 /\ sound' = IF beep = 0 THEN e.tone ELSE snd
         ELSE beeping' = 0 /\ sound' = Silent
      /\ IF tick <= off
         THEN playing' = 1 /\ UNCHANGED positions
         ELSE playing' = 0 /\ Advance
      /\ status' = NextStatus(e, tick > off)
  BY DEF PlayTone
<1>5. sound' \in Pitches \cup {Silent, Alarm}
  BY <1>1, <1>4, ToneFields
<1>6. ~(tick <= off) <=> tick > off
  BY <1>1, <1>3
<1> QED BY <1>1, <1>2, <1>3, <1>4, <1>5, <1>6 DEF positions

(* The first half of the poll, and which half decides. *)
LEMMA PollFacts ==
  ASSUME AnyTimeInv, buzzer_poll
  PROVE  /\ BeepingAfterAlarm \in {0, 1} /\ SoundAfterAlarm \in Pitches \cup {Silent, Alarm}
         /\ BeepingAfterAlarm = 0 => SoundAfterAlarm = Silent
         /\ alarm_end' = (IF AlarmOver THEN 0 ELSE alarm_end) /\ alarm_end' \in 0 .. TickMod - 1
         /\ \/ /\ alarm_end' < tick /\ write_pos # 0
               /\ PlayTone(BeepingAfterAlarm, SoundAfterAlarm)
            \/ /\ ~(alarm_end' < tick /\ write_pos # 0)
               /\ beeping' = BeepingAfterAlarm /\ sound' = SoundAfterAlarm
               /\ UNCHANGED <<write_pos, read_pos, on_time, off_time, playing, status>>
         /\ calls' = [calls EXCEPT !.gap = 0] /\ UNCHANGED <<data, tick>>
<1>1. TypeOK /\ QuietIsQuiet
  BY DEF AnyTimeInv
<1>2. alarm_end \in 0 .. TickMod - 1 /\ tick \in 0 .. TickMod - 1
  BY <1>1 DEF TypeOK
<1>3. BeepingAfterAlarm \in {0, 1} /\ SoundAfterAlarm \in Pitches \cup {Silent, Alarm}
  BY <1>1 DEF BeepingAfterAlarm, SoundAfterAlarm, TypeOK
<1>4. BeepingAfterAlarm = 0 => SoundAfterAlarm = Silent
  BY <1>1 DEF BeepingAfterAlarm, SoundAfterAlarm, QuietIsQuiet
<1>5. alarm_end' = (IF AlarmOver THEN 0 ELSE alarm_end)
  BY DEF buzzer_poll
<1>6. alarm_end' \in 0 .. TickMod - 1
  BY <1>2, <1>5, BuzzerAssumption
<1> QED BY <1>3, <1>4, <1>5, <1>6 DEF buzzer_poll, positions, times

(* So does buzzer_poll, in both its halves. *)
LEMMA PollKeeps ==
  ASSUME AnyTimeInv, buzzer_poll
  PROVE  AnyTimeInv' /\ calls'.ticks = calls.ticks
<1>1. TypeOK /\ QuietIsQuiet /\ CallsOK
  BY DEF AnyTimeInv
<1>2. CallsOK' /\ calls'.ticks = calls.ticks
  BY <1>1, PollFacts, CountFields DEF CallsOK
<1>3. CASE PlayTone(BeepingAfterAlarm, SoundAfterAlarm)
  <2>1. PICK e : e = data[read_pos]
    OBVIOUS
  <2>2. PICK on : on = IF playing = 0 THEN Plus(e.on, tick) ELSE on_time
    OBVIOUS
  <2>3. PICK off : off = IF playing = 0 THEN Plus(e.off, on) ELSE off_time
    OBVIOUS
  <2>4. /\ on \in 0 .. TickMod - 1 /\ off \in 0 .. TickMod - 1
        /\ on_time' = on /\ off_time' = off
        /\ beeping' \in {0, 1} /\ (beeping' = 0 => sound' = Silent)
        /\ sound' \in Pitches \cup {Silent, Alarm}
        /\ \/ playing' = 1 /\ UNCHANGED <<write_pos, read_pos>>
           \/ playing' = 0 /\ Advance
        /\ status' = NextStatus(e, tick > off)
    BY <1>1, <1>3, <2>1, <2>2, <2>3, PollFacts, PlayFacts
  <2>5. read_pos' \in Slots /\ write_pos' \in 0 .. Size
    <3>1. write_pos \in 0 .. Size /\ read_pos \in 0 .. Size - 1 /\ Size \in Nat \ {0}
      BY <1>1, BuzzerAssumption DEF TypeOK, Slots
    <3> QED BY <2>4, <3>1 DEF Advance, Slots
  <2>6. status' \in [Slots -> {"unused", "waiting", "late", "sounded", "stale"}]
    BY <1>1, <2>4, StatusType
  <2>7. TypeOK' /\ QuietIsQuiet'
    BY <1>1, <2>4, <2>5, <2>6, PollFacts DEF TypeOK, QuietIsQuiet
  <2> QED BY <1>2, <2>7 DEF AnyTimeInv
<1>4. CASE /\ beeping' = BeepingAfterAlarm /\ sound' = SoundAfterAlarm
           /\ UNCHANGED <<write_pos, read_pos, on_time, off_time, playing, status>>
  <2>1. TypeOK' /\ QuietIsQuiet'
    BY <1>1, <1>4, PollFacts DEF TypeOK, QuietIsQuiet
  <2> QED BY <1>2, <2>1 DEF AnyTimeInv
<1> QED BY <1>3, <1>4, PollFacts

(* Ranges and flag are kept by every step. *)
LEMMA AnyTimeStep == ASSUME AnyTimeInv, [Next]_vars PROVE AnyTimeInv'
<1>1. CASE UNCHANGED vars
  BY <1>1 DEF vars, positions, times, AnyTimeInv, TypeOK, QuietIsQuiet, CallsOK
<1>2. CASE Next
  BY <1>2, ToneKeeps, ImmediateKeeps, PollKeeps, TickKeeps DEF Next
<1> QED BY <1>1, <1>2

-----------------------------------------------------------------------------
(* No end time wraps. *)
LEMMA Unwrapped ==
  ASSUME NoWrap, AnyTimeInv, ClockInv
  PROVE  /\ tick \in Nat \ {0} /\ TickMod \in Nat
         /\ \A on, off \in Durations \cup {0} :
              on \in Nat /\ off \in Nat /\ tick + on + off < TickMod
         /\ calls.ticks < MaxTicks => tick + 1 < TickMod
<1>1. /\ TickMod \in Nat \ {0} /\ Start \in Nat \ {0} /\ MaxTicks \in Nat
      /\ Durations \cup {0} \subseteq Nat
  BY BuzzerAssumption DEF NoWrap
<1>2. calls.ticks \in 0 .. MaxTicks
  BY DEF AnyTimeInv, CallsOK
<1>3. \A on, off \in Durations \cup {0} : Start + MaxTicks + on + off < TickMod
  BY DEF NoWrap
<1>4. Start + MaxTicks < TickMod
  BY <1>1, <1>3
<1> QED BY <1>1, <1>2, <1>3, <1>4 DEF ClockInv

(* buzzer_beep_tone writes a slot that is not being timed as its own: the    *)
(* tone is ahead of the poll, or late.                                       *)
LEMMA ToneInTurn ==
  ASSUME IInv, NEW e \in Tones, buzzer_beep_tone(e)
  PROVE  IInv'
<1>1. /\ write_pos < Size /\ write_pos' = write_pos + 1
      /\ status' = [status EXCEPT ![write_pos] = IF Passed(write_pos) THEN "late" ELSE "waiting"]
      /\ UNCHANGED <<read_pos, beeping, alarm_end, on_time, off_time, playing, sound, tick>>
  BY DEF buzzer_beep_tone, times
<1>2. TypeOK /\ AnyTimeInv' /\ calls'.ticks = calls.ticks
  BY ToneKeeps DEF IInv, AnyTimeInv
<1>3. /\ Size \in Nat \ {0} /\ write_pos \in Slots /\ read_pos \in Slots /\ Slots \subseteq Nat
      /\ status \in [Slots -> {"unused", "waiting", "late", "sounded", "stale"}]
  BY <1>1, <1>2, BuzzerAssumption DEF TypeOK, Slots
<1>4. ClockInv' /\ SoundHasReason'
  BY <1>1, <1>2, <1>3 DEF IInv, ClockInv, SoundHasReason
<1>5. \A s \in Slots : s # write_pos => status'[s] = status[s]
  BY <1>1, <1>3
<1>6. status'[write_pos] = IF Passed(write_pos) THEN "late" ELSE "waiting"
  BY <1>1, <1>3
<1>7. TimedInv'
  <2>1. CASE read_pos = write_pos /\ playing = 1
    <3>1. status[read_pos] = "stale"
      BY <1>3, <2>1 DEF IInv, TimedInv, UnwrittenInv
    <3> QED BY <1>1, <1>6, <2>1, <3>1 DEF IInv, TimedInv, Passed
  <2>2. CASE ~(read_pos = write_pos /\ playing = 1)
    BY <1>1, <1>3, <1>5, <2>2 DEF IInv, TimedInv
  <2> QED BY <2>1, <2>2
<1>8. UnwrittenInv'
  BY <1>1, <1>3, <1>5 DEF IInv, UnwrittenInv
<1>9. PlayedInTurn'
  BY <1>1, <1>3, <1>5, <1>6 DEF IInv, PlayedInTurn, Passed
<1> QED BY <1>2, <1>4, <1>7, <1>8, <1>9 DEF IInv

(* An alarm that begins has an end time other than 0. *)
LEMMA ImmediateInTurn ==
  ASSUME NoWrap, IInv, NEW d \in Durations, buzzer_beep_immediate(d)
  PROVE  IInv'
<1>1. /\ alarm_end' = Plus(d, tick)
      /\ UNCHANGED <<data, write_pos, read_pos, beeping, on_time, off_time, playing, sound, tick, status>>
  BY DEF buzzer_beep_immediate, times, positions
<1>2. AnyTimeInv' /\ calls'.ticks = calls.ticks
  BY ImmediateKeeps DEF IInv
<1>3. tick \in Nat \ {0} /\ d \in Nat /\ d + tick < TickMod
  <2>1. tick \in Nat \ {0} /\ d \in Nat /\ tick + d + 0 < TickMod
    BY Unwrapped DEF IInv
  <2> QED BY <2>1
<1>4. alarm_end' = d + tick
  BY <1>1, <1>3, PlusSmall
<1>5. SoundHasReason' /\ ClockInv' /\ TimedInv' /\ UnwrittenInv' /\ PlayedInTurn'
  BY <1>1, <1>2, <1>3, <1>4 DEF IInv, SoundHasReason, ClockInv, TimedInv, UnwrittenInv, PlayedInTurn
<1> QED BY <1>2, <1>5 DEF IInv

(* A tick moves the clock and nothing else. *)
LEMMA TickInTurn ==
  ASSUME NoWrap, IInv, system_tick
  PROVE  IInv'
<1>1. /\ tick' = Plus(tick, 1) /\ calls.ticks < MaxTicks
      /\ UNCHANGED <<data, write_pos, read_pos, beeping, alarm_end, on_time, off_time, playing, sound, status>>
  BY DEF system_tick, times, positions
<1>2. AnyTimeInv' /\ calls'.ticks = calls.ticks + 1
  BY TickKeeps DEF IInv
<1>3. tick \in Nat /\ tick + 1 < TickMod
  BY <1>1, Unwrapped DEF IInv
<1>4. tick' = tick + 1
  BY <1>1, <1>3, PlusSmall
<1>5. Start \in Nat /\ calls.ticks \in Nat
  BY BuzzerAssumption DEF IInv, AnyTimeInv, CallsOK
<1>6. ClockInv'
  BY <1>2, <1>4, <1>5 DEF IInv, ClockInv
<1>7. SoundHasReason' /\ TimedInv' /\ UnwrittenInv' /\ PlayedInTurn'
  BY <1>1 DEF IInv, SoundHasReason, TimedInv, UnwrittenInv, PlayedInTurn
<1> QED BY <1>2, <1>6, <1>7 DEF IInv

(* A poll that begins a tone finds the flag clear, so the tone is emitted,   *)
(* and does not end it; one that ends a tone finds the sound ended before.   *)
LEMMA PlayInTurn ==
  ASSUME NoWrap, IInv, buzzer_poll, alarm_end' < tick, write_pos # 0,
         PlayTone(BeepingAfterAlarm, SoundAfterAlarm)
  PROVE  /\ SoundHasReason' /\ TimedInv' /\ UnwrittenInv' /\ PlayedInTurn'
         /\ beeping' = 1 => playing' = 1 /\ tick < on_time'
<1>1. PICK e : e = data[read_pos]
  OBVIOUS
<1>2. PICK on : on = IF playing = 0 THEN Plus(e.on, tick) ELSE on_time
  OBVIOUS
<1>3. PICK off : off = IF playing = 0 THEN Plus(e.off, on) ELSE off_time
  OBVIOUS
<1>4. /\ TypeOK /\ QuietIsQuiet /\ SoundHasReason /\ TimedInv /\ UnwrittenInv /\ PlayedInTurn
      /\ AnyTimeInv /\ ClockInv
  BY DEF IInv, AnyTimeInv
<1>5. BeepingAfterAlarm \in {0, 1} /\ SoundAfterAlarm \in Pitches \cup {Silent, Alarm}
  BY <1>4, PollFacts
<1>6. /\ on \in Nat /\ off \in Nat
      /\ e \in Tones \cup {Zeroed}
      /\ on_time' = on /\ off_time' = off
      /\ \/ /\ tick < on /\ beeping' = 1
            /\ sound' = IF BeepingAfterAlarm = 0 THEN e.tone ELSE SoundAfterAlarm
         \/ ~(tick < on) /\ beeping' = 0 /\ sound' = Silent
      /\ \/ tick <= off /\ playing' = 1 /\ UNCHANGED <<write_pos, read_pos>>
         \/ tick > off /\ playing' = 0 /\ Advance
      /\ status' = NextStatus(e, tick > off)
  BY <1>1, <1>2, <1>3, <1>4, <1>5, PlayFacts
<1>7. tick \in Nat \ {0}
  BY <1>4, Unwrapped
<1>8. playing \in {0, 1} /\ beeping \in {0, 1} /\ alarm_end \in Nat
  BY <1>4, BuzzerAssumption DEF TypeOK
<1>9. /\ playing = 0 => on = e.on + tick /\ off = e.off + on /\ e.on \in Nat /\ e.off \in Nat
      /\ on <= off
  <2>1. CASE playing = 0
    <3>1. e.on \in Durations \cup {0} /\ e.off \in Durations \cup {0}
      BY <1>6, ToneFields
    <3>2. e.on \in Nat /\ e.off \in Nat /\ tick + e.on + e.off < TickMod /\ TickMod \in Nat
      BY <1>4, <3>1, Unwrapped
    <3>3. on = e.on + tick
      <4>1. e.on + tick < TickMod
        BY <1>7, <3>2
      <4> QED BY <1>2, <1>7, <2>1, <3>2, <4>1, PlusSmall
    <3>4. off = e.off + on
      <4>1. e.off + on < TickMod
        BY <1>7, <3>2, <3>3
      <4> QED BY <1>3, <1>6, <2>1, <3>2, <4>1, PlusSmall
    <3> QED BY <1>6, <1>7, <3>2, <3>3, <3>4
  <2>2. CASE playing = 1
    BY <1>2, <1>3, <1>4, <2>2 DEF TimedInv
  <2> QED BY <1>8, <2>1, <2>2
<1>10. /\ beeping' = 1 => playing' = 1 /\ tick < on_time' /\ UNCHANGED write_pos
       /\ playing = 0 => playing' = 1
  BY <1>6, <1>7, <1>9
<1>11. SoundHasReason'
  BY <1>10 DEF SoundHasReason
<1>12. playing = 0 => BeepingAfterAlarm = 0
  <2>1. CASE AlarmOver
    BY <1>7, <1>8, <2>1 DEF BeepingAfterAlarm, AlarmOver, AlarmOn
  <2>2. CASE ~AlarmOver
    <3>1. alarm_end' = alarm_end
      BY <2>2 DEF buzzer_poll
    <3>2. alarm_end = 0 /\ ~AlarmOn
      BY <1>7, <1>8, <2>2, <3>1 DEF AlarmOver, AlarmOn
    <3> QED BY <1>4, <1>8, <2>2, <3>2 DEF BeepingAfterAlarm, SoundHasReason
  <2> QED BY <2>1, <2>2
<1>13. playing = 0 => Begun(e) \in {"stale", "sounded"}
  <2> SUFFICES ASSUME playing = 0 PROVE sound' = (IF e.on = 0 THEN Silent ELSE e.tone)
    BY DEF Begun
  <2>1. tick < on <=> e.on # 0
    BY <1>7, <1>9
  <2> QED BY <1>6, <1>12, <2>1
<1>14. read_pos \in Slots /\ write_pos \in 0 .. Size /\ Size \in Nat \ {0} /\ Slots = 0 .. Size - 1
       /\ status \in [Slots -> {"unused", "waiting", "late", "sounded", "stale"}]
  BY <1>4, BuzzerAssumption DEF TypeOK, Slots
<1>15. CASE tick > off /\ read_pos + 1 >= Size
  <2>1. status' = [s \in Slots |-> "unused"] /\ read_pos' = 0 /\ playing' = 0
    BY <1>6, <1>7, <1>15 DEF NextStatus, Advance
  <2>2. TimedInv' /\ UnwrittenInv' /\ PlayedInTurn'
    BY <2>1 DEF TimedInv, UnwrittenInv, PlayedInTurn
  <2> QED BY <1>10, <1>11, <2>2
<1>16. CASE ~(tick > off /\ read_pos + 1 >= Size)
  <2>1. status' = [status EXCEPT ![read_pos] = IF playing = 0 THEN Begun(e) ELSE @]
    BY <1>6, <1>16 DEF NextStatus
  <2>2. /\ \A s \in Slots : s # read_pos => status'[s] = status[s]
        /\ status'[read_pos] \in {"sounded", "stale", "late"}
        /\ playing = 0 => status'[read_pos] = Begun(e)
        /\ playing = 1 => status'[read_pos] = status[read_pos]
    BY <1>4, <1>8, <1>13, <1>14, <2>1 DEF TimedInv
  <2>3. UNCHANGED write_pos /\ (playing' = 1 => UNCHANGED read_pos)
        /\ (UNCHANGED read_pos \/ read_pos' = read_pos + 1)
    BY <1>6, <1>7, <1>14, <1>16 DEF Advance
  <2>4. TimedInv'
    BY <1>6, <1>9, <2>2, <2>3 DEF TimedInv
  <2>5. UnwrittenInv'
    <3>1. read_pos >= write_pos => status'[read_pos] \in {"unused", "stale"}
      BY <1>4, <1>8, <1>14, <2>2 DEF UnwrittenInv, Begun
    <3> QED BY <1>4, <2>2, <2>3, <3>1 DEF UnwrittenInv
  <2>6. PlayedInTurn'
    BY <1>4, <1>14, <2>2, <2>3 DEF PlayedInTurn
  <2> QED BY <1>10, <1>11, <2>4, <2>5, <2>6
<1> QED BY <1>15, <1>16

(* What a poll makes of the invariant, and of the sound. *)
LEMMA PollInTurn ==
  ASSUME NoWrap, IInv, buzzer_poll
  PROVE  /\ IInv'
         /\ beeping' = 1 => \/ alarm_end' # 0 /\ tick <= alarm_end'
                            \/ playing' = 1 /\ tick < on_time'
<1>1. AnyTimeInv' /\ calls'.ticks = calls.ticks /\ UNCHANGED tick
  BY PollKeeps, PollFacts DEF IInv
<1>2. ClockInv'
  BY <1>1 DEF IInv, ClockInv
<1>3. CASE /\ alarm_end' < tick /\ write_pos # 0
           /\ PlayTone(BeepingAfterAlarm, SoundAfterAlarm)
  BY <1>1, <1>2, <1>3, PlayInTurn DEF IInv
<1>4. CASE /\ ~(alarm_end' < tick /\ write_pos # 0)
           /\ beeping' = BeepingAfterAlarm /\ sound' = SoundAfterAlarm
           /\ UNCHANGED <<write_pos, read_pos, on_time, off_time, playing, status>>
  <2>1. tick \in Nat \ {0} /\ alarm_end \in Nat /\ beeping \in {0, 1}
    BY Unwrapped, BuzzerAssumption DEF IInv, AnyTimeInv, TypeOK
  <2>2. alarm_end' = (IF AlarmOver THEN 0 ELSE alarm_end)
    BY DEF buzzer_poll
  <2>3. beeping' = 1 => alarm_end' # 0 /\ tick <= alarm_end'
    <3> SUFFICES ASSUME beeping' = 1 PROVE AlarmOn
      BY <2>1, <2>2 DEF AlarmOn, AlarmOver
    <3>1. ~AlarmOver
      BY <1>4, <2>1 DEF BeepingAfterAlarm, AlarmOn, AlarmOver
    <3>2. ASSUME ~AlarmOn PROVE FALSE
      <4>1. alarm_end = 0 /\ beeping = 1
        BY <1>4, <2>1, <3>1, <3>2 DEF BeepingAfterAlarm, AlarmOn, AlarmOver
      <4>2. write_pos # 0
        BY <4>1 DEF IInv, SoundHasReason
      <4> QED BY <1>4, <2>1, <2>2, <4>1, <4>2 DEF AlarmOver
    <3> QED BY <3>2
  <2>4. SoundHasReason'
    BY <2>3 DEF SoundHasReason
  <2>5. TimedInv' /\ UnwrittenInv' /\ PlayedInTurn'
    BY <1>4 DEF IInv, TimedInv, UnwrittenInv, PlayedInTurn
  <2>6. IInv'
    BY <1>1, <1>2, <2>4, <2>5 DEF IInv
  <2> QED BY <2>3, <2>6
<1> QED BY <1>3, <1>4, PollFacts DEF IInv

(* Every step keeps the invariant until an end time wraps. *)
LEMMA InvStep == ASSUME NoWrap, IInv, [Next]_vars PROVE IInv'
<1>1. CASE UNCHANGED vars
  <2>1. AnyTimeInv'
    BY <1>1, AnyTimeStep DEF IInv
  <2>2. UNCHANGED <<write_pos, read_pos, beeping, alarm_end, on_time, off_time, playing, tick, status, calls>>
    BY <1>1 DEF vars, positions, times
  <2> QED BY <2>1, <2>2 DEF IInv, ClockInv, SoundHasReason, TimedInv, UnwrittenInv, PlayedInTurn
<1>2. CASE Next
  BY <1>2, ToneInTurn, ImmediateInTurn, TickInTurn, PollInTurn DEF Next
<1> QED BY <1>1, <1>2

-----------------------------------------------------------------------------
(* Positions, times and flags of buzzer.c are in range and the flag agrees   *)
(* with the hardware, the tick wrapping or not: BuzzerInv.                   *)
THEOREM FlagIsTrue == Spec => []BuzzerInv
<1>1. Init => AnyTimeInv
  BY InitInv
<1>2. AnyTimeInv /\ [Next]_vars => AnyTimeInv'
  BY AnyTimeStep
<1>3. AnyTimeInv => BuzzerInv
  BY DEF AnyTimeInv, BuzzerInv
<1> QED BY <1>1, <1>2, <1>3, PTL DEF Spec

(* The inductive invariant, until an end time wraps. *)
THEOREM Invariant == ASSUME NoWrap PROVE Spec => []IInv
<1>1. Init => IInv
  BY InitInv
<1>2. IInv /\ [Next]_vars => IInv'
  BY InvStep
<1> QED BY <1>1, <1>2, PTL DEF Spec

(* buzzer_poll never moves past a tone that it has not emitted: PlayedInTurn. *)
THEOREM TonesInTurn == ASSUME NoWrap PROVE Spec => []PlayedInTurn
<1>1. IInv => PlayedInTurn
  BY DEF IInv
<1> QED BY <1>1, Invariant, PTL

(* buzzer_poll leaves the buzzer on only inside the time of an alarm or of   *)
(* the tone in hand: StopsOnTime.                                            *)
THEOREM SilentOnTime == ASSUME NoWrap PROVE Spec => StopsOnTime
<1>1. IInv /\ [Next]_vars
        => [buzzer_poll /\ beeping' = 1 => \/ alarm_end' # 0 /\ tick <= alarm_end'
                                           \/ playing' = 1 /\ tick < on_time']_vars
  BY PollInTurn
<1> QED BY <1>1, Invariant, PTL DEF Spec, StopsOnTime
=============================================================================
