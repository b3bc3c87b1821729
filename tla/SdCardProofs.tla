---------------------------- MODULE SdCardProofs ----------------------------
(***************************************************************************)
(* For any number of blocks and of failures of card and bus: a transfer    *)
(* function of sdcard.c that returns SD_OK is done with the caller's       *)
(* buffer, and, but for the two exceptions, with the transfer as well; the *)
(* CMD12 of the interrupt and the commands of the caller do not collide.   *)
(***************************************************************************)
EXTENDS SdCard, TLAPS

Bits == {"ok", "error", "busy", "locked"}
Responses == [idx : Nat, bits : Bits, state : CardStates]

(* The types of what TypeOK leaves out. *)
RestOK ==
  /\ inten \subseteq Handled \cup {"CCRCERR"}
  /\ cmd \in Nat /\ rsp \in Responses /\ faults \in Nat
  /\ bad \in BOOLEAN /\ late \in BOOLEAN /\ failed \in BOOLEAN /\ astray \in BOOLEAN

(* In polling mode the interrupt and the DMA are not used. *)
ModeInv ==
  /\ transmode = "poll" => /\ inten = {} /\ isr = "none" /\ ~request /\ channel = "off" /\ ~late
                           /\ pc \notin {"enable", "config", "ftf", "end"}
  /\ transmode = "dma" => pc \notin {"poll", "stop"}

(* The DSM counts the blocks that are still to be moved. *)
DsmInv ==
  /\ dsm = "data" => left = todo /\ left > 0
  /\ dsm = "crc" => left = todo + 1

(* The end of the data, or an error, stops the DSM; in DMA mode the end has  *)
(* its interrupt enabled and is in SDIO_STAT until the interrupt is through. *)
SignalInv ==
  /\ dsm # "off" => \A f \in Handled : f \notin stat
  /\ isr = "stop" => "DTEND" \in stat
  /\ /\ transmode = "dma"
     /\ \/ "DTEND" \in stat \/ dsm = "crc"
        \/ dsm = "data" /\ (request \/ pc \in {"enable", "config"})
     => "DTEND" \in inten

(* Everything is moved, and nothing met an error. *)
Over == ~bad /\ dsm = "off" /\ left = 0 /\ todo = 0

(* Where the last command takes the card, and where the end of the data and, *)
(* for several blocks, CMD12 take it.                                        *)
Started ==
  CASE op = "read1" -> "data1" [] op = "readn" -> "data"
    [] op = "write1" -> "rcv1" [] op = "writen" -> "rcv"
Finished == IF IsRead THEN {"tran"} ELSE {"prg", "tran"}

(* The data phase: its end is signalled only when it is the end. *)
Moving ==
  /\ bad => dsm = "off"
  /\ ~bad => /\ IF IsMulti \/ dsm # "off" THEN card = Started ELSE card \in Finished
             /\ dsm = "off" => Over
  /\ dsm # "off" /\ ~IsMulti => left = 1
  /\ "DTEND" \in stat => Over
  /\ "DTBLKEND" \in stat /\ ~IsMulti => Over

(* Command c is on its way, or its one answer is in. *)
Quiet == \A f \in CmdFlags : f \notin stat
Asked(c) == cmd = c /\ Quiet
Heard(c) ==
  /\ cmd = 0 /\ Answered
  /\ \A f, g \in CmdFlags : f \in stat /\ g \in stat => f = g
  /\ "CMDRECV" \in stat => rsp.idx = c
Accepted == "CMDRECV" \in stat /\ rsp.bits # "error"

(* A command that is answered out of turn can only be CMD16, and it found    *)
(* the card ready.                                                           *)
StrayInv ==
  /\ cmd \in {0, 12, 13, 16} \/ pc = "r1"
  /\ "CMDRECV" \in stat /\ rsp.idx = 16 => card = "tran"

(* The commands before the data. *)
CommandInv ==
  pc = "r1" =>
    /\ isr = "none" /\ ~request /\ todo = Count /\ (transmode = "dma" => "DTEND" \notin stat)
    /\ cmd \in {0, Commands[k]}
    /\ IF IsRead /\ k = 2
       THEN stopcondition = (IF IsMulti THEN 1 ELSE 0) /\ dsm = (IF bad THEN "off" ELSE "data")
       ELSE dsm = "off" /\ ~bad
    /\ k > 1 => \/ Asked(Commands[k]) /\ card = "tran"
                \/ /\ Heard(Commands[k])
                   /\ Accepted => bad \/ card = IF k = Len(Commands) THEN Started ELSE "tran"

(* transend belongs to the call, unless a late interrupt sets it. *)
EntryInv ==
  /\ pc = "enter" => k = 1 /\ (isr = "stop" => late)
  /\ pc \in {"enter", "r1"} /\ ~late => transend = 0

(* The polling loop. *)
PollInv == pc = "poll" => cmd = 0 /\ Quiet /\ Moving

(* CMD12, from the polling loop or from the interrupt. *)
Stopping ==
  /\ IsMulti /\ Over
  /\ \/ Asked(12) /\ card = Started
     \/ Heard(12) /\ (Accepted => card \in Finished)

StopInv == pc = "stop" => Stopping

(* Once FTF has been seen the channel is through.                            *)
FtfInv ==
  /\ pc = "ftf" /\ ftf => todo = 0 /\ channel = "off"
  /\ pc \in {"end", "stop", "flush", "state"} => todo = 0 /\ channel = "off"
  /\ pc = "end" => op # "read1"
  /\ pc \in {"enable", "config", "ftf", "end"} => stopcondition = (IF IsMulti THEN 1 ELSE 0)

(* Where the channel can be at the buffer of the call, where at that of an   *)
(* earlier one, which then has failed, and where the request is on.          *)
Armed == op = "write1" /\ pc = "enable"
ChannelInv ==
  /\ channel = "own" => pc = "idle" \/ Armed \/ (pc = "ftf" /\ ~ftf)
  /\ Armed => channel = "own" /\ ~ftf
  /\ pc \in {"enter", "r1", "enable", "config"} /\ channel # "off" => failed \/ Armed
  /\ pc = "idle" /\ channel # "off" => status \notin {"OK", "none"}
  /\ pc = "enable" \/ (pc = "config" /\ op = "write1") => ~request
  /\ channel \in {"read", "write"} => pc \in {"enter", "r1", "enable", "config"} \/ ~request
  /\ pc = "ftf" => channel \in {"own", "off"}
  /\ astray => pc = "enter" \/ (failed /\ op # "write1")

(* transend says that the transfer is over, CMD12 included. *)
EndInv ==
  pc \in {"enable", "config", "ftf", "end"} /\ ~late =>
    \/ isr = "none" /\ transend = 0 /\ cmd = 0 /\ Quiet /\ Moving
    \/ isr = "stop" /\ transend = 0 /\ Stopping
    \/ /\ isr = "none" /\ transend = 1 /\ cmd = 0 /\ Quiet /\ "DTEND" \notin stat
       /\ Over /\ (transerror = "OK" => card \in Finished)

(* The wait for the card to program what it received. *)
FlushInv ==
  pc = "flush" =>
    /\ ~IsRead
    /\ ~late => /\ Over /\ card \in {"prg", "tran"} /\ cmd = 0 /\ isr = "none"
                /\ transmode = "dma" => "DTEND" \notin stat

StateInv ==
  pc = "state" =>
    /\ ~IsRead
    /\ ~late =>
         /\ Over /\ card \in {"prg", "tran"} /\ isr = "none" /\ "DTEND" \notin stat
         /\ \/ Asked(13)
            \/ Heard(13) /\ (Accepted => rsp.state = card \/ card = "tran")

(* What SD_OK tells the caller. *)
OkInv ==
  pc = "idle" /\ status = "OK" =>
    /\ todo = 0
    /\ ~late /\ ~(op = "read1" /\ transmode = "dma") =>
         Over /\ card = "tran" /\ cmd \in {0, 12}

(* The inductive invariant. *)
IInv ==
  /\ TypeOK /\ RestOK /\ ModeInv /\ DsmInv /\ SignalInv /\ StrayInv /\ CommandInv
  /\ EntryInv /\ PollInv /\ StopInv /\ FtfInv /\ ChannelInv /\ EndInv /\ FlushInv /\ StateInv
  /\ OkInv

-----------------------------------------------------------------------------
(* The commands of each function: CMD16 first, the data command last. *)
LEMMA CommandList ==
  ASSUME op \in Ops
  PROVE  /\ Len(Commands) \in 2 .. 5 /\ Commands[1] = 16 /\ (IsRead => Len(Commands) = 2)
         /\ \A j \in 2 .. Len(Commands) :
              Commands[j] \in IF j < Len(Commands) THEN {13, 55, 23} ELSE {17, 18, 24, 25}
         /\ Commands[Len(Commands)] = CASE op = "read1" -> 17 [] op = "readn" -> 18
                                        [] op = "write1" -> 24 [] op = "writen" -> 25
<1>1. CASE op = "read1"
  <2>1. Commands = <<16, 17>>
    BY <1>1 DEF Commands
  <2>2. Len(Commands) = 2 /\ Commands[1] = 16 /\ Commands[2] = 17
    BY <2>1
  <2> QED BY <1>1, <2>2 DEF IsRead
<1>2. CASE op = "readn"
  <2>1. Commands = <<16, 18>>
    BY <1>2 DEF Commands
  <2>2. Len(Commands) = 2 /\ Commands[1] = 16 /\ Commands[2] = 18
    BY <2>1
  <2> QED BY <1>2, <2>2 DEF IsRead
<1>3. CASE op = "write1"
  <2>1. Commands = <<16, 13, 24>>
    BY <1>3 DEF Commands
  <2>2. Len(Commands) = 3 /\ Commands[1] = 16 /\ Commands[2] = 13 /\ Commands[3] = 24
    BY <2>1
  <2> QED BY <1>3, <2>2 DEF IsRead
<1>4. CASE op = "writen"
  <2>1. Commands = <<16, 13, 55, 23, 25>>
    BY <1>4 DEF Commands
  <2>2. /\ Len(Commands) = 5 /\ Commands[1] = 16 /\ Commands[2] = 13 /\ Commands[3] = 55
        /\ Commands[4] = 23 /\ Commands[5] = 25
    BY <2>1
  <2> QED BY <1>4, <2>2 DEF IsRead
<1> QED BY <1>1, <1>2, <1>3, <1>4 DEF Ops

(* The commands of a call are two to five. *)
LEMMA SomeCommands == op \in Ops => Len(Commands) \in 2 .. 5
BY CommandList

(* What the type invariant says of the call. *)
LEMMA OpFacts ==
  ASSUME TypeOK
  PROVE  /\ op \in Ops /\ k \in 1 .. Len(Commands) /\ Len(Commands) \in 2 .. 5
         /\ Count \in 1 .. Blocks /\ (~IsMulti => Count = 1) /\ Blocks \in Nat
BY CommandList, SdAssumption DEF TypeOK, Count

(* A card that is ready accepts the command of the call. *)
LEMMA CardAccepts ==
  ASSUME TypeOK, k > 1
  PROVE  /\ Commands[k] \in {13, 55, 23, 17, 18, 24, 25}
         /\ k < Len(Commands) => Commands[k] \in {13, 55, 23}
         /\ card = "tran" => /\ Legal(Commands[k])
                             /\ After(Commands[k]) =
                                  IF k = Len(Commands) THEN Started ELSE "tran"
<1>1. k \in 2 .. Len(Commands) /\ op \in Ops
  BY OpFacts
<1>2. CASE k < Len(Commands)
  <2>1. Commands[k] \in {13, 55, 23}
    BY <1>1, <1>2, CommandList
  <2> QED BY <1>2, <2>1 DEF Legal, After
<1>3. CASE k = Len(Commands)
  BY <1>1, <1>3, CommandList DEF Legal, After, Started, Ops
<1> QED BY <1>1, <1>2, <1>3

(* The function called stays the same. *)
LEMMA OpSame ==
  ASSUME UNCHANGED op
  PROVE  /\ Commands' = Commands /\ (IsRead' <=> IsRead) /\ (IsMulti' <=> IsMulti)
         /\ Count' = Count /\ Started' = Started /\ Finished' = Finished
BY DEF Commands, IsRead, IsMulti, Count, Started, Finished

(* An answer is one of three flags. *)
LEMMA AnsweredIs ==
  /\ Answered <=> "CCRCERR" \in stat \/ "CMDTMOUT" \in stat \/ "CMDRECV" \in stat
  /\ Quiet <=> ~Answered
BY DEF Answered, Quiet, CmdFlags

(* r1_error_check: what SD_OK says, and what it clears. *)
LEMMA R1Facts ==
  ASSUME NEW c
  PROVE  /\ R1(c) \in {"OK", "CMD_CRC_ERROR", "CMD_RESP_TIMEOUT", "ILLEGAL_COMMAND", "R1_ERROR"}
         /\ Answered /\ R1(c) = "OK" => Accepted /\ rsp.idx = c /\ stat \ Cleared(c) = {}
BY AnsweredIs DEF R1, Cleared, Accepted

(* r1_error_check takes the answer it was waiting for out of SDIO_STAT. *)
LEMMA R1Clears ==
  ASSUME NEW c, Heard(c)
  PROVE  \A f \in CmdFlags : f \notin stat \ Cleared(c)
BY AnsweredIs DEF Heard, Cleared, CmdFlags

(* A step that leaves the DMA and the place of the call alone. *)
LEMMA ChannelSame ==
  ASSUME ChannelInv, UNCHANGED <<pc, op, status, request, channel, ftf, failed, astray>>
  PROVE  ChannelInv'
BY DEF ChannelInv, Armed

(* A call that did not configure its channel returns with an error, whatever *)
(* an earlier call has left to the channel.                                  *)
LEMMA ChannelFails ==
  ASSUME ChannelInv, pc \in {"r1", "ftf", "end", "poll", "stop"}, pc' = "idle",
         channel = "own" => pc = "ftf",
         channel \in {"read", "write"} => ~request,
         status' \notin {"OK", "none"} \/ channel = "off",
         UNCHANGED <<op, request, channel, ftf, failed, astray>>
  PROVE  ChannelInv'
BY DEF ChannelInv, Armed

(* The driver starts idle, the card ready. *)
LEMMA InitInv == Init => IInv
<1> SUFFICES ASSUME Init PROVE IInv
  OBVIOUS
<1>1. TypeOK
  <2>1. Len(Commands) \in 2 .. 5
    BY CommandList DEF Init, Ops
  <2>2. k \in 1 .. Len(Commands) /\ left \in 0 .. Blocks /\ todo \in 0 .. Blocks
    <3>1. k = 1 /\ left = 0 /\ todo = 0
      BY DEF Init
    <3>2. Blocks \in Nat
      BY SdAssumption
    <3> QED BY <2>1, <3>1, <3>2
  <2> QED BY <2>2 DEF Init, TypeOK, Ops, CardStates
<1>2. RestOK
  BY DEF Init, RestOK, Responses, Bits, CardStates
<1>3. ModeInv /\ DsmInv /\ SignalInv /\ StrayInv
  BY DEF Init, ModeInv, DsmInv, SignalInv, StrayInv
<1> QED
  BY <1>1, <1>2, <1>3 DEF Init, IInv, CommandInv, EntryInv, PollInv, StopInv, FtfInv, ChannelInv,
     Armed, EndInv, FlushInv, StateInv, OkInv

-----------------------------------------------------------------------------
(* A function is called. *)
LEMMA BeginStep == ASSUME IInv, NEW o \in Ops, Begin(o) PROVE IInv'
<1>1. /\ pc = "idle" /\ isr = "none" /\ pc' = "enter" /\ op' = o /\ k' = 1 /\ status' = "none"
      /\ transerror' = "OK" /\ transend' = 0 /\ late' = (late /\ cmd # 0)
      /\ channel' = (IF channel = "own" THEN Direction ELSE channel)
      /\ failed' = (status \notin {"OK", "none"})
      /\ UNCHANGED <<transmode, stopcondition, isr, stat, inten, cmd, rsp, dsm, left, request, ftf,
                     todo, card, illegal, faults, bad, astray>>
  BY DEF Begin, Running, bus, path, medium
<1>2. TypeOK'
  <2>1. (op \in Ops => Len(Commands) \in 2 .. 5)'
    BY SomeCommands, PTL
  <2>2. k' \in 1 .. Len(Commands')
    BY <1>1, <2>1
  <2>3. channel' \in {"off", "own", "read", "write"}
    BY <1>1 DEF IInv, TypeOK, Direction
  <2> QED BY <1>1, <2>2, <2>3 DEF IInv, TypeOK
<1>3. RestOK' /\ ModeInv' /\ DsmInv' /\ SignalInv' /\ StrayInv'
  <2>1. failed' \in BOOLEAN /\ late' \in BOOLEAN
    <3>1. failed' \in BOOLEAN
      BY <1>1
    <3>2. late' \in BOOLEAN
      BY <1>1
    <3> QED BY <3>1, <3>2
  <2>2. RestOK'
    BY <1>1, <2>1 DEF IInv, RestOK
  <2>3. ModeInv'
    BY <1>1 DEF IInv, ModeInv
  <2> QED BY <1>1, <2>2, <2>3 DEF IInv, DsmInv, SignalInv, StrayInv
<1>4. ChannelInv'
  <2>1. channel' # "own"
    BY <1>1 DEF Direction
  <2>2. channel' # "off" => failed'
    BY <1>1 DEF IInv, ChannelInv
  <2> QED BY <1>1, <2>1, <2>2 DEF ChannelInv, Armed
<1> QED
  BY <1>1, <1>2, <1>3, <1>4 DEF IInv, CommandInv, EntryInv, PollInv, StopInv, FtfInv, EndInv,
     FlushInv, StateInv, OkInv

(* The DSM and the DMA are switched off and CMD16 is sent: no interrupt of   *)
(* an earlier call can come any more.                                        *)
LEMMA EnterStep == ASSUME IInv, enter PROVE IInv'
<1>1. /\ pc = "enter" /\ isr = "none" /\ stat \cap inten = {}
      /\ dsm' = "off" /\ left' = 0 /\ request' = FALSE /\ todo' = Count
      /\ bad' = FALSE /\ astray' = FALSE
      /\ \/ pc' = "idle" /\ status' = "LOCK_UNLOCK_FAILED" /\ UNCHANGED cmd
         \/ pc' = "r1" /\ status' = status /\ cmd' = 16
      /\ UNCHANGED <<transmode, transend, transerror, stopcondition, op, k, isr, stat, inten, rsp,
                     channel, ftf, card, illegal, faults, late, failed>>
  BY DEF enter, Running, Pending, Return, Goto, Send, flags, call, bus, medium
<1>2. /\ Commands' = Commands /\ Count' = Count /\ (IsRead' <=> IsRead)
      /\ Count \in 0 .. Blocks /\ 0 \in 0 .. Blocks /\ Commands[1] = 16
  BY <1>1, OpSame, OpFacts, CommandList DEF IInv
<1>3. k = 1 /\ (~late => transend = 0)
  BY <1>1 DEF IInv, EntryInv
<1>4. TypeOK'
  <2>1. TypeOK
    BY DEF IInv
  <2>2. pc' \in {"idle", "r1"}
    BY <1>1
  <2>3. k' \in 1 .. Len(Commands')
    BY <1>1, <1>2, <2>1 DEF TypeOK
  <2>4. left' \in 0 .. Blocks /\ todo' \in 0 .. Blocks /\ dsm' = "off" /\ request' = FALSE
    BY <1>1, <1>2
  <2>5. /\ transmode' \in {"poll", "dma"} /\ transend' \in {0, 1} /\ stopcondition' \in {0, 1}
        /\ op' \in Ops /\ isr' \in {"none", "stop"} /\ card' \in CardStates
        /\ stat' \subseteq Flags /\ inten' \subseteq Flags
    BY <1>1, <2>1 DEF TypeOK
  <2>6. /\ channel' \in {"off", "own", "read", "write"}
        /\ ftf' \in BOOLEAN /\ illegal' \in BOOLEAN
    BY <1>1, <2>1 DEF TypeOK
  <2> QED BY <1>1, <2>1, <2>2, <2>3, <2>4, <2>5, <2>6 DEF TypeOK
<1>5. RestOK' /\ ModeInv' /\ DsmInv' /\ StrayInv'
  <2>1. bad' \in BOOLEAN /\ astray' \in BOOLEAN
    BY <1>1
  <2>2. RestOK'
    <3>1. cmd' \in Nat
      <4>1. cmd \in Nat
        BY DEF IInv, RestOK
      <4> QED BY <1>1, <4>1
    <3> QED BY <1>1, <2>1, <3>1 DEF IInv, RestOK
  <2>3. StrayInv'
    BY <1>1 DEF IInv, StrayInv
  <2> QED BY <1>1, <2>2, <2>3 DEF IInv, ModeInv, DsmInv
<1>6. SignalInv' /\ (transmode = "dma" => "DTEND" \notin stat)
  BY <1>1 DEF IInv, SignalInv
<1>7. CommandInv'
  BY <1>1, <1>2, <1>3, <1>6 DEF CommandInv
<1>8. ChannelInv'
  BY <1>1 DEF IInv, ChannelInv, Armed
<1> QED
  BY <1>1, <1>3, <1>4, <1>5, <1>6, <1>7, <1>8 DEF IInv, EntryInv, PollInv, StopInv, FtfInv, EndInv,
     FlushInv, StateInv, OkInv

(* What is common to the steps that end in r1_error_check of the call. *)
LEMMA Checking ==
  ASSUME IInv, Running("r1"), r1_error_check(Commands[k])
  PROVE  /\ pc = "r1" /\ isr = "none" /\ ~request /\ todo = Count /\ stat' \subseteq stat
         /\ cmd \in {0, 16} /\ (k > 1 => cmd = 0)
         /\ R1(Commands[k]) = "OK" =>
              /\ stat' = {} /\ (k = 1 => card = "tran")
              /\ k > 1 => bad \/ card = IF k = Len(Commands) THEN Started ELSE "tran"
<1>1. pc = "r1" /\ isr = "none" /\ Answered /\ stat' = stat \ Cleared(Commands[k])
  BY DEF Running, r1_error_check
<1>2. /\ ~request /\ todo = Count /\ cmd \in {0, Commands[k]}
      /\ k > 1 => /\ Heard(Commands[k]) /\ cmd = 0
                  /\ Accepted => bad \/ card = IF k = Len(Commands) THEN Started ELSE "tran"
  <2>1. k > 1 /\ Asked(Commands[k]) => FALSE
    BY <1>1, AnsweredIs DEF Asked
  <2> QED BY <1>1, <2>1 DEF IInv, CommandInv, Heard
<1>3. cmd \in {0, 16} /\ (k = 1 => Commands[k] = 16)
  BY <1>2, OpFacts, CommandList DEF IInv
<1>4. ASSUME R1(Commands[k]) = "OK" PROVE stat' = {} /\ Accepted /\ rsp.idx = Commands[k]
  BY <1>1, <1>4, R1Facts
<1>5. R1(Commands[k]) = "OK" /\ k = 1 => card = "tran"
  BY <1>3, <1>4 DEF IInv, StrayInv, Accepted
<1> QED BY <1>1, <1>2, <1>3, <1>4, <1>5

(* A step of the call that clears flags and leaves the hardware alone. *)
LEMMA CallSignals ==
  ASSUME IInv, isr = "none", stat' \subseteq stat,
         pc' \notin {"enable", "config"},
         UNCHANGED <<transmode, isr, inten, dsm, left, todo, request>>
  PROVE  SignalInv' /\ DsmInv'
BY DEF IInv, SignalInv, DsmInv

(* A command of the call failed. *)
LEMMA FailedStep == ASSUME IInv, command_failed PROVE IInv'
<1>1. /\ Running("r1") /\ r1_error_check(Commands[k]) /\ pc' = "idle"
      /\ status' = R1(Commands[k]) /\ status' # "OK"
      /\ UNCHANGED <<transmode, transend, transerror, stopcondition, op, k, isr, inten, cmd, rsp,
                     dsm, left, request, channel, ftf, todo, card, illegal, faults, bad, late,
                     failed, astray>>
  BY DEF command_failed, Return, flags, path, medium, history
<1>2. stat' \subseteq stat /\ cmd \in {0, 16} /\ isr = "none" /\ pc = "r1" /\ ~request
  BY <1>1, Checking
<1>3. TypeOK'
  BY <1>1, <1>2, OpSame DEF IInv, TypeOK
<1>4. SignalInv' /\ DsmInv'
  BY <1>1, <1>2, CallSignals
<1>5. RestOK' /\ ModeInv' /\ StrayInv'
  BY <1>1, <1>2 DEF IInv, RestOK, ModeInv, StrayInv
<1>6. ChannelInv'
  <2>1. status' \notin {"OK", "none"}
    BY <1>1, R1Facts
  <2> QED BY <1>1, <1>2, <2>1, ChannelFails DEF IInv, ChannelInv, Armed
<1> QED
  BY <1>1, <1>3, <1>4, <1>5, <1>6 DEF IInv, CommandInv, EntryInv, PollInv, StopInv, FtfInv, EndInv,
     FlushInv, StateInv, OkInv

(* The status of a card that is not ready is asked for once more. *)
LEMMA NotReadyStep == ASSUME IInv, card_not_ready PROVE IInv'
<1>1. /\ Running("r1") /\ r1_error_check(Commands[k]) /\ R1(Commands[k]) = "OK" /\ NotReady
      /\ \/ cmd' = 13 /\ UNCHANGED <<pc, status>>
         \/ pc' = "idle" /\ status' = "ERROR" /\ UNCHANGED cmd
      /\ UNCHANGED <<transmode, transend, transerror, stopcondition, op, k, isr, inten, rsp, dsm,
                     left, request, channel, ftf, todo, card, illegal, faults, bad, late, failed,
                     astray>>
  BY DEF card_not_ready, Send, Return, flags, call, path, medium, history
<1>2. /\ pc = "r1" /\ stat' = {} /\ cmd \in {0, 16} /\ isr = "none" /\ ~request
      /\ k > 1 => bad \/ card = IF k = Len(Commands) THEN Started ELSE "tran"
  BY <1>1, Checking
<1>3. Commands' = Commands /\ (IsRead' <=> IsRead) /\ (IsMulti' <=> IsMulti) /\ Count' = Count
  BY <1>1, OpSame
<1>4. /\ op = "write1" /\ Commands[k] = 13 /\ ~IsRead
      /\ k \in 1 .. Len(Commands) /\ Len(Commands) \in Nat
      /\ Commands[1] = 16 /\ Commands[Len(Commands)] = 24
  BY <1>1, OpFacts, CommandList DEF IInv, NotReady, IsRead
<1>5. k > 1 /\ k < Len(Commands) /\ ~bad /\ card = "tran"
  <2>1. ~bad
    BY <1>2, <1>4 DEF IInv, CommandInv
  <2>2. k # 1 /\ k # Len(Commands)
    BY <1>4
  <2> QED BY <1>2, <1>4, <2>1, <2>2
<1>6. TypeOK'
  BY <1>1, <1>2, <1>3 DEF IInv, TypeOK
<1>7. SignalInv' /\ DsmInv'
  BY <1>1, <1>2, CallSignals
<1>8. RestOK' /\ ModeInv' /\ StrayInv'
  <2>1. cmd' \in {0, 13, 16}
    BY <1>1, <1>2
  <2>2. RestOK'
    BY <1>1, <2>1 DEF IInv, RestOK
  <2> QED BY <1>1, <1>2, <2>1, <2>2 DEF IInv, ModeInv, StrayInv
<1>9. CommandInv'
  <2> SUFFICES ASSUME pc' = "r1" PROVE CommandInv'
    BY DEF CommandInv
  <2>1. cmd' = Commands[k]
    BY <1>1, <1>2, <1>4
  <2>2. Asked(Commands[k])'
    BY <1>1, <1>2, <1>3, <2>1 DEF Asked, Quiet
  <2> QED BY <1>1, <1>2, <1>3, <1>4, <1>5, <2>1, <2>2 DEF IInv, CommandInv
<1>10. EntryInv'
  BY <1>1, <1>2 DEF IInv, EntryInv
<1>11. ChannelInv'
  BY <1>1, <1>2, ChannelSame, ChannelFails DEF IInv, ChannelInv, Armed
<1> QED
  BY <1>1, <1>2, <1>6, <1>7, <1>8, <1>9, <1>10, <1>11 DEF IInv, PollInv, StopInv, FtfInv, EndInv,
     FlushInv, StateInv, OkInv

(* The next command is sent; before the last command of a read the DSM is    *)
(* enabled.                                                                  *)
LEMMA NextStep == ASSUME IInv, next_command PROVE IInv'
<1>1. /\ Running("r1") /\ r1_error_check(Commands[k]) /\ R1(Commands[k]) = "OK"
      /\ k < Len(Commands) /\ k' = k + 1 /\ cmd' = Commands[k + 1]
      /\ IF IsRead
         THEN /\ dsm' = "data" /\ left' = Count
              /\ stopcondition' = IF IsMulti THEN 1 ELSE 0
         ELSE UNCHANGED <<dsm, left, stopcondition>>
      /\ UNCHANGED <<transmode, transend, transerror, pc, op, status, isr, inten, rsp, request,
                     channel, ftf, todo, card, illegal, faults, bad, late, failed, astray>>
  BY DEF next_command, Send, DsmEnable, medium, history
<1>2. /\ pc = "r1" /\ stat' = {} /\ isr = "none" /\ ~request /\ todo = Count
      /\ k = 1 => card = "tran"
      /\ k > 1 => bad \/ card = IF k = Len(Commands) THEN Started ELSE "tran"
  BY <1>1, Checking
<1>3. Commands' = Commands /\ (IsRead' <=> IsRead) /\ (IsMulti' <=> IsMulti) /\ Count' = Count
  BY <1>1, OpSame
<1>4. /\ k \in 1 .. Len(Commands) /\ Len(Commands) \in 2 .. 5 /\ Count \in 1 .. Blocks
      /\ Commands[k + 1] \in {13, 55, 23, 17, 18, 24, 25} /\ (IsRead => Len(Commands) = 2)
  <2>1. /\ k \in 1 .. Len(Commands) /\ Len(Commands) \in 2 .. 5 /\ Count \in 1 .. Blocks
        /\ op \in Ops
    BY OpFacts DEF IInv
  <2>2. k + 1 \in 2 .. Len(Commands)
    BY <1>1, <2>1
  <2> QED BY <2>1, <2>2, CommandList
<1>5. dsm = "off" /\ ~bad /\ (IsRead => k = 1)
  <2>1. ASSUME IsRead PROVE k = 1
    <3>1. Len(Commands) = 2
      BY <1>4, <2>1
    <3> QED BY <1>1, <1>4, <3>1
  <2> QED BY <1>2, <2>1 DEF IInv, CommandInv
<1>6. card = "tran"
  BY <1>1, <1>2, <1>4, <1>5
<1>7. TypeOK'
  <2>1. k' \in 1 .. Len(Commands)
    BY <1>1, <1>4
  <2>2. left' \in 0 .. Blocks /\ dsm' \in {"off", "data"} /\ stopcondition' \in {0, 1}
    BY <1>1, <1>4, <1>5 DEF IInv, TypeOK
  <2> QED BY <1>1, <1>2, <1>3, <2>1, <2>2 DEF IInv, TypeOK
<1>8. RestOK' /\ ModeInv' /\ StrayInv'
  <2>1. cmd' \in Nat
    BY <1>1, <1>4
  <2> QED BY <1>1, <1>2, <2>1 DEF IInv, RestOK, ModeInv, StrayInv
<1>9. DsmInv' /\ SignalInv'
  BY <1>1, <1>2, <1>4, <1>5 DEF DsmInv, SignalInv
<1>10. CommandInv'
  <2>1. Asked(Commands[k])'
    BY <1>1, <1>2, <1>3 DEF Asked, Quiet
  <2>2. IsRead => k' = 2
    BY <1>1, <1>5
  <2> QED BY <1>1, <1>2, <1>3, <1>5, <1>6, <2>1, <2>2 DEF CommandInv
<1>11. EntryInv'
  BY <1>1, <1>2 DEF IInv, EntryInv
<1>12. ChannelInv'
  BY <1>1, ChannelSame DEF IInv
<1> QED
  BY <1>1, <1>2, <1>7, <1>8, <1>9, <1>10, <1>11, <1>12 DEF IInv, PollInv, StopInv, FtfInv, EndInv,
     FlushInv, StateInv, OkInv

(* The data phase begins: every flag is clear, and the DSM is on unless an   *)
(* error has stopped it.                                                     *)
LEMMA StartStep == ASSUME IInv, start_data PROVE IInv'
<1>1. /\ Running("r1") /\ r1_error_check(Commands[k]) /\ R1(Commands[k]) = "OK"
      /\ k = Len(Commands)
      /\ IF IsRead
         THEN UNCHANGED <<dsm, left, stopcondition>>
         ELSE /\ dsm' = "data" /\ left' = Count
              /\ stopcondition' = IF IsMulti THEN 1 ELSE 0
      /\ \/ transmode = "poll" /\ pc' = "poll" /\ UNCHANGED inten
         \/ /\ transmode # "poll" /\ inten' = IntEnable
            /\ pc' = IF op = "write1" THEN "config" ELSE "enable"
      /\ UNCHANGED <<transmode, transend, transerror, op, k, status, isr, cmd, rsp, request,
                     channel, ftf, todo, card, illegal, faults, bad, late, failed, astray>>
  BY DEF start_data, DsmEnable, Goto, medium, history
<1>2. /\ k \in 1 .. Len(Commands) /\ Len(Commands) \in 2 .. 5 /\ Count \in 1 .. Blocks
      /\ (~IsMulti => Count = 1) /\ op \in Ops /\ (IsRead => Len(Commands) = 2)
  BY OpFacts, CommandList DEF IInv
<1>3. k > 1 /\ (IsRead => k = 2)
  BY <1>1, <1>2
<1>4. /\ pc = "r1" /\ stat' = {} /\ isr = "none" /\ ~request /\ todo = Count
      /\ cmd = 0 /\ (bad \/ card = Started)
  BY <1>1, <1>3, Checking
<1>5. Commands' = Commands /\ (IsRead' <=> IsRead) /\ (IsMulti' <=> IsMulti) /\ Started' = Started
  BY <1>1, OpSame
<1>6. dsm' = (IF bad THEN "off" ELSE "data") /\ stopcondition' = (IF IsMulti THEN 1 ELSE 0)
  BY <1>1, <1>3, <1>4 DEF IInv, CommandInv
<1>7. dsm' = "data" => left' = Count
  BY <1>1, <1>4 DEF IInv, DsmInv
<1>8. TypeOK'
  <2>1. left' \in 0 .. Blocks /\ dsm' \in {"off", "data"} /\ stopcondition' \in {0, 1}
    BY <1>1, <1>2, <1>6 DEF IInv, TypeOK
  <2>2. inten' \subseteq Flags
    BY <1>1 DEF IInv, TypeOK, IntEnable, Flags, Handled, DataErrors, CmdFlags
  <2> QED BY <1>1, <1>4, <1>5, <2>1, <2>2 DEF IInv, TypeOK
<1>9. RestOK' /\ ModeInv' /\ StrayInv'
  <2>1. inten' \subseteq Handled \cup {"CCRCERR"}
    BY <1>1 DEF IInv, RestOK, IntEnable, Handled, DataErrors
  <2>2. ModeInv'
    BY <1>1, <1>4 DEF IInv, ModeInv
  <2> QED BY <1>1, <1>4, <2>1, <2>2 DEF IInv, RestOK, StrayInv
<1>10. DsmInv' /\ SignalInv'
  <2>1. DsmInv'
    BY <1>1, <1>2, <1>4, <1>6, <1>7 DEF DsmInv
  <2>2. transmode = "dma" => "DTEND" \in inten'
    BY <1>1 DEF IntEnable
  <2> QED BY <1>1, <1>4, <2>1, <2>2 DEF SignalInv
<1>11. Moving' /\ Quiet'
  <2>1. Quiet'
    BY <1>4 DEF Quiet
  <2>2. ~bad => card' = Started' /\ dsm' = "data"
    BY <1>1, <1>4, <1>5, <1>6
  <2>3. bad' = bad /\ (bad => dsm' = "off") /\ (dsm' # "off" /\ ~IsMulti' => left' = 1)
    BY <1>1, <1>2, <1>5, <1>6, <1>7
  <2> QED BY <1>4, <2>1, <2>2, <2>3 DEF Moving
<1>12. ~late => transend = 0
  BY <1>4 DEF IInv, EntryInv
<1>13. ChannelInv'
  <2>1. pc' \in {"poll", "enable", "config"} /\ ~Armed'
    BY <1>1 DEF Armed
  <2>2. transmode = "poll" => channel = "off"
    BY DEF IInv, ModeInv
  <2> QED BY <1>1, <1>4, <2>1, <2>2 DEF IInv, ChannelInv, Armed
<1> QED
  BY <1>1, <1>4, <1>5, <1>6, <1>8, <1>9, <1>10, <1>11, <1>12, <1>13 DEF IInv, CommandInv, EntryInv,
     PollInv, StopInv, FtfInv, EndInv, FlushInv, StateInv, OkInv

-----------------------------------------------------------------------------
(* The DMA request and the channel are enabled, in either order. *)
LEMMA ArmStep == ASSUME IInv, sdio_dma_enable \/ dma_config PROVE IInv'
<1>1. /\ isr = "none" /\ pc \in {"enable", "config"} /\ pc' \in {"enable", "config", "ftf"}
      /\ request' \in BOOLEAN /\ ftf' \in BOOLEAN /\ channel' \in {channel, "own"}
      /\ UNCHANGED <<transmode, transend, transerror, stopcondition, op, k, status, isr, stat,
                     inten, cmd, rsp, dsm, left, todo, card, illegal, faults, bad, late, failed,
                     astray>>
  BY DEF sdio_dma_enable, dma_config, Running, Goto, flags, bus, medium, history, IInv, TypeOK
<1>2. \/ /\ pc = "enable" /\ pc' = (IF op = "write1" THEN "ftf" ELSE "config")
         /\ request' = TRUE /\ UNCHANGED <<channel, ftf>>
      \/ /\ pc = "config" /\ pc' = (IF op = "write1" THEN "enable" ELSE "ftf")
         /\ ftf' = FALSE /\ channel' = "own" /\ UNCHANGED request
  BY DEF sdio_dma_enable, dma_config, Running, Goto
<1>3. /\ Commands' = Commands /\ (IsRead' <=> IsRead) /\ (IsMulti' <=> IsMulti)
      /\ Started' = Started /\ Finished' = Finished
  BY <1>1, OpSame
<1>4. (Over' <=> Over) /\ (Moving' <=> Moving) /\ (Quiet' <=> Quiet) /\ (Stopping' <=> Stopping)
  BY <1>1, <1>3 DEF Over, Moving, Quiet, Stopping, Asked, Heard, Answered, Accepted
<1>5. transmode = "dma"
  BY <1>1 DEF IInv, TypeOK, ModeInv
<1>6. TypeOK' /\ RestOK'
  BY <1>1, <1>3 DEF IInv, TypeOK, RestOK
<1>7. ModeInv' /\ StrayInv' /\ DsmInv'
  BY <1>1, <1>5 DEF IInv, ModeInv, StrayInv, DsmInv
<1>8. SignalInv'
  BY <1>1 DEF IInv, SignalInv
<1>9. ChannelInv'
  BY <1>1, <1>2 DEF IInv, ChannelInv, Armed
<1>10. FtfInv'
  <2>1. pc' = "ftf" => ~ftf'
    BY <1>2 DEF IInv, ChannelInv, Armed
  <2> QED BY <1>1, <1>3, <2>1 DEF IInv, FtfInv
<1>11. EndInv'
  BY <1>1, <1>3, <1>4 DEF IInv, EndInv
<1> QED
  BY <1>1, <1>6, <1>7, <1>8, <1>9, <1>10, <1>11 DEF IInv, CommandInv, EntryInv, PollInv, StopInv,
     FlushInv, StateInv, OkInv

(* The waits of the DMA mode. *)
LEMMA WaitStep == ASSUME IInv, ftf_seen \/ ftf_timeout \/ end_seen PROVE IInv'
<1>1. UNCHANGED <<transmode, transend, transerror, stopcondition, op, k, isr, stat, inten, cmd, rsp,
                  dsm, left, request, channel, ftf, todo, card, illegal, faults, bad, late, failed,
                  astray>>
  BY DEF ftf_seen, ftf_timeout, end_seen, Return, Goto, flags, bus, path, medium, history
<1>2. pc \in {"ftf", "end"} /\ isr = "none" /\ transmode = "dma"
  BY DEF ftf_seen, ftf_timeout, end_seen, Running, IInv, ModeInv, TypeOK
<1>3. \/ pc' = "idle" /\ status' \notin {"OK", "none"}
      \/ pc' = "idle" /\ status' = "OK" /\ pc = "ftf" /\ ftf /\ op = "read1"
      \/ pc' = "end" /\ pc = "ftf" /\ ftf /\ op # "read1"
      \/ pc' = "idle" /\ status' = "OK" /\ pc = "end" /\ op = "readn" /\ transend = 1
         /\ transerror = "OK"
      \/ pc' = "flush" /\ pc = "end" /\ op # "readn" /\ transend = 1 /\ transerror = "OK"
  BY DEF ftf_seen, ftf_timeout, end_seen, Running, Return, Goto, IInv, TypeOK, DataErrors
<1>4. /\ Commands' = Commands /\ (IsRead' <=> IsRead) /\ (IsMulti' <=> IsMulti)
      /\ Started' = Started /\ Finished' = Finished
  BY <1>1, OpSame
<1>5. (Over' <=> Over) /\ (Moving' <=> Moving) /\ (Quiet' <=> Quiet) /\ (Stopping' <=> Stopping)
  BY <1>1, <1>4 DEF Over, Moving, Quiet, Stopping, Asked, Heard, Answered, Accepted
<1>6. TypeOK'
  BY <1>1, <1>3, <1>4 DEF IInv, TypeOK
<1>7. RestOK' /\ ModeInv' /\ StrayInv' /\ DsmInv' /\ SignalInv'
  BY <1>1, <1>2, <1>3 DEF IInv, RestOK, ModeInv, StrayInv, DsmInv, SignalInv
<1>8. FtfInv'
  BY <1>1, <1>2, <1>3, <1>4 DEF IInv, FtfInv
<1>9. EndInv'
  BY <1>1, <1>2, <1>3, <1>4, <1>5 DEF IInv, EndInv
<1>10. pc = "end" /\ transend = 1 /\ transerror = "OK" /\ ~late =>
         Over /\ card \in Finished /\ cmd = 0 /\ "DTEND" \notin stat
  BY DEF IInv, EndInv
<1>11. FlushInv'
  <2> SUFFICES ASSUME pc' = "flush" PROVE FlushInv'
    BY DEF FlushInv
  <2>1. op \in {"write1", "writen"} /\ ~IsRead /\ pc = "end" /\ transend = 1 /\ transerror = "OK"
    BY <1>3 DEF IInv, TypeOK, FtfInv, Ops, IsRead
  <2> QED BY <1>1, <1>2, <1>4, <1>5, <1>10, <2>1 DEF FlushInv, Finished
<1>12. OkInv'
  <2> SUFFICES ASSUME pc' = "idle", status' = "OK" PROVE OkInv'
    BY DEF OkInv
  <2>1. todo = 0
    BY <1>3 DEF IInv, FtfInv
  <2>2. CASE pc = "ftf"
    BY <1>1, <1>2, <1>3, <2>1, <2>2 DEF OkInv
  <2>3. CASE pc = "end"
    BY <1>1, <1>3, <1>5, <1>10, <2>1, <2>3 DEF OkInv, Finished, IsRead
  <2> QED BY <1>2, <2>2, <2>3
<1>13. ChannelInv'
  <2>1. pc = "end" \/ (pc = "ftf" /\ ftf) => channel = "off"
    BY DEF IInv, FtfInv
  <2>2. channel = "own" => pc = "ftf"
    BY <1>2 DEF IInv, ChannelInv, Armed
  <2>3. channel \notin {"read", "write"}
    BY <1>2, <2>1 DEF IInv, ChannelInv
  <2>4. CASE pc' = "idle"
    <3>1. status' \notin {"OK", "none"} \/ channel = "off"
      BY <1>3, <2>1, <2>4
    <3> QED BY <1>1, <1>2, <2>2, <2>3, <2>4, <3>1, ChannelFails DEF IInv
  <2>5. CASE pc' \in {"end", "flush"}
    <3>1. channel = "off"
      BY <1>3, <2>1, <2>5
    <3> QED BY <1>1, <1>2, <2>5, <3>1 DEF IInv, ChannelInv, Armed
  <2> QED BY <1>3, <2>4, <2>5
<1> QED
  BY <1>2, <1>3, <1>6, <1>7, <1>8, <1>9, <1>11, <1>12, <1>13 DEF IInv, CommandInv, EntryInv,
     PollInv, StopInv, StateInv

(* The error that is reported is one that is set. *)
LEMMA FirstIs ==
  ASSUME NEW S, NEW s \in Seq(S), Len(s) \in {4, 5}, AnyOf(s)
  PROVE  First(s) \in S /\ First(s) \in stat
<1> DEFINE Least(i) == s[i] \in stat /\ \A j \in 1 .. i - 1 : s[j] \notin stat
<1>1. DOMAIN s = 1 .. Len(s)
  OBVIOUS
<1>2. \E i \in DOMAIN s : Least(i)
  <2>1. PICK m \in 1 .. 5 : m \in DOMAIN s /\ s[m] \in stat
    BY <1>1 DEF AnyOf
  <2>2. CASE s[1] \in stat
    BY <1>1, <2>2
  <2>3. CASE s[1] \notin stat /\ s[2] \in stat
    BY <1>1, <2>3
  <2>4. CASE s[1] \notin stat /\ s[2] \notin stat /\ s[3] \in stat
    BY <1>1, <2>4
  <2>5. CASE s[1] \notin stat /\ s[2] \notin stat /\ s[3] \notin stat /\ s[4] \in stat
    BY <1>1, <2>5
  <2>6. CASE s[1] \notin stat /\ s[2] \notin stat /\ s[3] \notin stat /\ s[4] \notin stat
    <3>1. m = 5
      BY <2>1, <2>6
    <3> QED BY <2>1, <2>6, <3>1
  <2> QED BY <2>2, <2>3, <2>4, <2>5, <2>6
<1>3. PICK i \in DOMAIN s : i = (CHOOSE n \in DOMAIN s : Least(n)) /\ Least(i)
  BY <1>2
<1>4. First(s) = s[i]
  BY <1>3 DEF First
<1> QED BY <1>1, <1>3, <1>4

(* The polling loop reports an error of the data path. *)
LEMMA PollFirst == AnyOf(PollErrors) => First(PollErrors) \in DataErrors
<1>1. PollErrors \in Seq(DataErrors) /\ Len(PollErrors) = 4
  BY DEF PollErrors, DataErrors
<1> QED BY <1>1, FirstIs

(* The interrupt reports an error of the data path that is set. *)
LEMMA IsrFirst ==
  AnyOf(IsrErrors) => First(IsrErrors) \in DataErrors /\ First(IsrErrors) \in stat
<1>1. IsrErrors \in Seq(DataErrors) /\ Len(IsrErrors) = 5
  BY DEF IsrErrors, DataErrors
<1> QED BY <1>1, FirstIs

(* The polling loop. *)
LEMMA PollStep == ASSUME IInv, poll_error \/ poll_done PROVE IInv'
<1>1. /\ pc = "poll" /\ stat' \subseteq stat
      /\ UNCHANGED <<transmode, transend, transerror, stopcondition, op, k, isr, inten, rsp, dsm,
                     left, request, channel, ftf, todo, card, illegal, faults, bad, late, failed,
                     astray>>
  <2>1. CASE poll_error
    BY <2>1 DEF poll_error, Running, Return, flags, path, medium, history
  <2>2. CASE poll_done
    <3>1. op \in Ops
      BY DEF IInv, TypeOK
    <3> QED BY <2>2, <3>1 DEF poll_done, Running, Return, Goto, Send, flags, path, medium,
               history, IsMulti, Ops
  <2> QED BY <2>1, <2>2
<1>2. /\ transmode = "poll" /\ isr = "none" /\ channel = "off" /\ cmd = 0 /\ Quiet /\ Moving
  BY <1>1 DEF IInv, ModeInv, TypeOK, PollInv
<1>3. \/ pc' = "idle" /\ status' # "OK" /\ UNCHANGED cmd
      \/ pc' = "stop" /\ IsMulti /\ "DTEND" \in stat /\ cmd' = 12 /\ UNCHANGED <<stat, status>>
      \/ pc' = "idle" /\ status' = "OK" /\ op = "read1" /\ "DTBLKEND" \in stat /\ UNCHANGED cmd
      \/ pc' = "flush" /\ op = "write1" /\ "DTBLKEND" \in stat /\ UNCHANGED <<cmd, status>>
  <2>1. CASE poll_error
    <3>1. AnyOf(PollErrors) /\ pc' = "idle" /\ status' = First(PollErrors) /\ cmd' = cmd
      BY <2>1 DEF poll_error, Return
    <3>2. status' \in DataErrors
      BY <3>1, PollFirst
    <3> QED BY <3>1, <3>2 DEF DataErrors
  <2>2. CASE poll_done
    <3>1. op \in Ops
      BY DEF IInv, TypeOK
    <3> QED BY <2>2, <3>1 DEF poll_done, Running, Return, Goto, Send, IsMulti, Ops
  <2> QED BY <2>1, <2>2
<1>4. /\ Commands' = Commands /\ (IsRead' <=> IsRead) /\ (IsMulti' <=> IsMulti)
      /\ Started' = Started /\ (Over' <=> Over)
  BY <1>1, OpSame DEF Over
<1>5. pc' # "idle" \/ status' = "OK" => Over
  BY <1>2, <1>3 DEF Moving, IsMulti
<1>6. TypeOK'
  BY <1>1, <1>3, <1>4 DEF IInv, TypeOK
<1>7. RestOK' /\ StrayInv'
  <2>1. cmd' \in {0, 12}
    BY <1>2, <1>3
  <2> QED BY <1>1, <2>1 DEF IInv, RestOK, StrayInv
<1>8. ModeInv' /\ SignalInv' /\ DsmInv'
  BY <1>1, <1>2, <1>3, CallSignals DEF IInv, ModeInv
<1>9. StopInv'
  <2> SUFFICES ASSUME pc' = "stop" PROVE Stopping'
    BY DEF StopInv
  <2>1. IsMulti /\ cmd' = 12 /\ stat' = stat
    BY <1>3
  <2>2. Asked(12)'
    BY <1>2, <2>1 DEF Asked, Quiet
  <2>3. card = Started
    BY <1>2, <1>5, <2>1 DEF Moving, Over
  <2> QED BY <1>1, <1>4, <1>5, <2>1, <2>2, <2>3 DEF Stopping
<1>10. FlushInv'
  BY <1>1, <1>2, <1>3, <1>4, <1>5 DEF FlushInv, IsRead, IsMulti, Moving, Finished, Over
<1>11. OkInv'
  BY <1>1, <1>2, <1>3, <1>4, <1>5 DEF OkInv, IsRead, IsMulti, Moving, Finished, Over
<1>12. FtfInv' /\ ChannelInv'
  <2>1. FtfInv'
    BY <1>1, <1>2, <1>3, <1>4, <1>5 DEF FtfInv, Over
  <2>2. ChannelInv'
    BY <1>1, <1>2, <1>3 DEF IInv, ChannelInv, Armed
  <2> QED BY <2>1, <2>2
<1> QED
  BY <1>3, <1>6, <1>7, <1>8, <1>9, <1>10, <1>11, <1>12 DEF IInv, CommandInv, EntryInv, PollInv,
     EndInv, StateInv

(* CMD12 of the polling loop. *)
LEMMA StoppedStep == ASSUME IInv, poll_stopped PROVE IInv'
<1>1. /\ pc = "stop" /\ stat' \subseteq stat /\ Answered
      /\ UNCHANGED <<transmode, transend, transerror, stopcondition, op, k, isr, inten, cmd, rsp,
                     dsm, left, request, channel, ftf, todo, card, illegal, faults, bad, late,
                     failed, astray>>
      /\ \/ R1(12) = "OK" /\ IsRead /\ pc' = "idle" /\ status' = "OK"
         \/ R1(12) = "OK" /\ ~IsRead /\ pc' = "flush" /\ UNCHANGED status
         \/ pc' = "idle" /\ status' # "OK"
  BY DEF poll_stopped, Running, r1_error_check, Return, Goto, flags, path, medium, history
<1>2. transmode = "poll" /\ isr = "none" /\ channel = "off" /\ Stopping
  BY <1>1 DEF IInv, ModeInv, TypeOK, StopInv
<1>3. cmd = 0 /\ Over /\ (R1(12) = "OK" => card \in Finished)
  <2>1. ~Asked(12)
    BY <1>1, AnsweredIs DEF Asked
  <2>2. R1(12) = "OK" => Accepted
    BY <1>1, R1Facts
  <2> QED BY <1>2, <2>1, <2>2 DEF Stopping, Heard
<1>4. /\ Commands' = Commands /\ (IsRead' <=> IsRead) /\ (IsMulti' <=> IsMulti) /\ (Over' <=> Over)
  BY <1>1, OpSame DEF Over
<1>5. TypeOK'
  BY <1>1, <1>4 DEF IInv, TypeOK
<1>6. RestOK' /\ StrayInv' /\ ModeInv'
  BY <1>1, <1>2, <1>3 DEF IInv, RestOK, StrayInv, ModeInv
<1>7. SignalInv' /\ DsmInv'
  BY <1>1, <1>2, CallSignals
<1>8. FlushInv' /\ OkInv'
  BY <1>1, <1>2, <1>3, <1>4 DEF FlushInv, OkInv, Finished, Over
<1>9. FtfInv' /\ ChannelInv'
  <2>1. FtfInv'
    BY <1>1, <1>2, <1>3 DEF FtfInv, Over
  <2>2. ChannelInv'
    BY <1>1, <1>2 DEF IInv, ChannelInv, Armed
  <2> QED BY <2>1, <2>2
<1> QED
  BY <1>1, <1>5, <1>6, <1>7, <1>8, <1>9 DEF IInv, CommandInv, EntryInv, PollInv, StopInv,
     EndInv, StateInv

(* The wait for the card. *)
LEMMA FlushStep == ASSUME IInv, flush PROVE IInv'
<1>1. /\ pc = "flush" /\ isr = "none" /\ stat' = {} /\ cmd' = 13 /\ pc' = "state"
      /\ UNCHANGED <<transmode, transend, transerror, stopcondition, op, k, status, isr, inten, rsp,
                     dsm, left, request, channel, ftf, todo, card, illegal, faults, bad, late,
                     failed, astray>>
  BY DEF flush, Running, Goto, Send, flags, path, medium, history
<1>2. Commands' = Commands /\ (IsRead' <=> IsRead) /\ (Over' <=> Over)
  BY <1>1, OpSame DEF Over
<1>3. TypeOK'
  BY <1>1, <1>2 DEF IInv, TypeOK
<1>4. RestOK' /\ StrayInv' /\ ModeInv' /\ FtfInv' /\ ChannelInv'
  BY <1>1 DEF IInv, RestOK, StrayInv, ModeInv, FtfInv, ChannelInv, Armed
<1>5. SignalInv' /\ DsmInv'
  BY <1>1, CallSignals
<1>6. StateInv'
  <2>1. Asked(13)'
    BY <1>1 DEF Asked, Quiet
  <2> QED BY <1>1, <1>2, <2>1 DEF IInv, FlushInv, StateInv
<1> QED
  BY <1>1, <1>3, <1>4, <1>5, <1>6 DEF IInv, CommandInv, EntryInv, PollInv, StopInv, EndInv,
     FlushInv, OkInv

(* The card tells its state. *)
LEMMA StateStep == ASSUME IInv, card_state PROVE IInv'
<1>1. /\ pc = "state" /\ isr = "none" /\ Answered /\ stat' = stat \ Cleared(13)
      /\ UNCHANGED <<transmode, transend, transerror, stopcondition, op, k, isr, inten, rsp, dsm,
                     left, request, channel, ftf, todo, card, illegal, faults, bad, late, failed,
                     astray>>
      /\ \/ /\ R1(13) = "OK" /\ cmd' = 13 /\ UNCHANGED <<pc, status>>
         \/ /\ R1(13) = "OK" => rsp.state \notin {"prg", "rcv1", "rcv"}
            /\ pc' = "idle" /\ status' = R1(13) /\ UNCHANGED cmd
  BY DEF card_state, Running, r1_error_check, Return, Send, call, flags, path, medium, history
<1>2. Commands' = Commands /\ (IsRead' <=> IsRead) /\ (Over' <=> Over)
  BY <1>1, OpSame DEF Over
<1>3. R1(13) = "OK" => Accepted /\ stat' = {}
  BY <1>1, R1Facts
<1>4. ~late => cmd = 0 /\ Over /\ (Accepted => rsp.state = card \/ card = "tran")
                /\ card \in {"prg", "tran"}
  <2>1. ~Asked(13)
    BY <1>1, AnsweredIs DEF Asked
  <2> QED BY <1>1, <2>1 DEF IInv, StateInv, Heard
<1>5. TypeOK'
  BY <1>1, <1>2 DEF IInv, TypeOK
<1>6. RestOK' /\ StrayInv' /\ ModeInv' /\ FtfInv' /\ ChannelInv'
  <2>1. cmd \in {0, 12, 13, 16} /\ cmd' \in {0, 12, 13, 16}
    BY <1>1 DEF IInv, StrayInv
  <2>2. FtfInv' /\ ChannelInv'
    BY <1>1 DEF IInv, FtfInv, ChannelInv, Armed
  <2> QED BY <1>1, <2>1, <2>2 DEF IInv, RestOK, StrayInv, ModeInv
<1>7. SignalInv' /\ DsmInv'
  BY <1>1, CallSignals
<1>8. StateInv'
  <2> SUFFICES ASSUME pc' = "state" PROVE StateInv'
    BY DEF StateInv
  <2>1. Asked(13)' /\ "DTEND" \notin stat'
    BY <1>1, <1>3 DEF Asked, Quiet
  <2> QED BY <1>1, <1>2, <2>1 DEF IInv, StateInv
<1>9. OkInv'
  <2> SUFFICES ASSUME pc' = "idle", status' = "OK" PROVE OkInv'
    BY DEF OkInv
  <2>1. todo = 0
    BY <1>1 DEF IInv, FtfInv
  <2>2. R1(13) = "OK" /\ rsp.state \notin {"prg", "rcv1", "rcv"}
    BY <1>1
  <2> QED BY <1>1, <1>2, <1>3, <1>4, <2>1, <2>2 DEF OkInv
<1> QED
  BY <1>1, <1>5, <1>6, <1>7, <1>8, <1>9 DEF IInv, CommandInv, EntryInv, PollInv, StopInv, EndInv,
     FlushInv

-----------------------------------------------------------------------------
(* DTEND interrupts in DMA mode, and not the commands of a call: it is       *)
(* NoCollision.                                                              *)
LEMMA EndInterrupts ==
  ASSUME IInv, isr = "none", Pending, "DTEND" \in stat
  PROVE  transmode = "dma" /\ pc \notin {"r1", "stop"} /\ (~late => pc \notin {"flush", "state"})
<1>1. transmode = "dma"
  BY DEF IInv, TypeOK, ModeInv, Pending
<1> QED BY <1>1 DEF IInv, ModeInv, CommandInv, FlushInv, StateInv

(* The end of several blocks: the interrupt sends CMD12. *)
LEMMA IsrStopStep == ASSUME IInv, isr_stop PROVE IInv'
<1>1. /\ isr = "none" /\ Pending /\ "DTEND" \in stat /\ stopcondition = 1
      /\ transerror' = "OK" /\ cmd' = 12 /\ isr' = "stop" /\ late' = (late \/ pc = "enter")
      /\ UNCHANGED <<transmode, transend, stopcondition, pc, op, k, status, stat, inten, rsp, dsm,
                     left, request, channel, ftf, todo, card, illegal, faults, bad, failed,
                     astray>>
  BY DEF isr_stop, Send, call, path, medium
<1>2. transmode = "dma" /\ pc \notin {"r1", "stop"} /\ (~late => pc \notin {"flush", "state"})
  BY <1>1, EndInterrupts
<1>3. /\ Commands' = Commands /\ (IsRead' <=> IsRead) /\ (IsMulti' <=> IsMulti)
      /\ Started' = Started /\ (Over' <=> Over)
  BY <1>1, OpSame DEF Over
<1>4. TypeOK'
  BY <1>1, <1>3 DEF IInv, TypeOK
<1>5. RestOK'
  <2>1. late' \in BOOLEAN
    BY <1>1
  <2> QED BY <1>1, <2>1 DEF IInv, RestOK
<1>6. ModeInv' /\ DsmInv' /\ SignalInv' /\ StrayInv'
  BY <1>1, <1>2 DEF IInv, ModeInv, DsmInv, SignalInv, StrayInv
<1>7. EntryInv' /\ FtfInv' /\ ChannelInv' /\ OkInv'
  BY <1>1, <1>2, <1>3, ChannelSame DEF IInv, EntryInv, FtfInv, OkInv
<1>8. EndInv'
  <2> SUFFICES ASSUME pc \in {"enable", "config", "ftf", "end"}, ~late
               PROVE  transend = 0 /\ Stopping'
    BY <1>1 DEF EndInv
  <2>1. transend = 0 /\ Quiet /\ Moving /\ IsMulti
    BY <1>1 DEF IInv, EndInv, FtfInv
  <2>2. Asked(12)'
    BY <1>1, <2>1 DEF Asked, Quiet
  <2> QED BY <1>1, <1>3, <2>1, <2>2 DEF Stopping, Moving, Over
<1> QED
  BY <1>1, <1>2, <1>3, <1>4, <1>5, <1>6, <1>7, <1>8 DEF IInv, CommandInv, PollInv, StopInv,
     FlushInv, StateInv, ModeInv

(* sd_transfer_stop has its answer. *)
LEMMA IsrStoppedStep == ASSUME IInv, isr_stopped PROVE IInv'
<1>1. /\ isr = "stop" /\ Answered /\ transerror' = R1(12)
      /\ stat' = (stat \ Cleared(12)) \ {"DTEND"} /\ inten' = inten \ Handled
      /\ transend' = 1 /\ isr' = "none"
      /\ UNCHANGED <<transmode, stopcondition, pc, op, k, status, cmd, rsp, dsm, left, request,
                     channel, ftf, todo, card, illegal, faults, bad, late, failed, astray>>
  BY DEF isr_stopped, call, path, medium, history
<1>2. /\ transmode = "dma" /\ "DTEND" \in stat /\ dsm = "off"
      /\ pc \notin {"r1", "poll", "stop"} /\ (~late => pc \notin {"enter", "flush", "state"})
  BY <1>1 DEF IInv, TypeOK, ModeInv, SignalInv, CommandInv, EntryInv, FlushInv, StateInv, Handled
<1>3. /\ Commands' = Commands /\ (IsRead' <=> IsRead) /\ (IsMulti' <=> IsMulti)
      /\ Finished' = Finished /\ (Over' <=> Over)
  BY <1>1, OpSame DEF Over
<1>4. TypeOK'
  <2>1. transerror' \in {"OK", "CMD_CRC_ERROR", "CMD_RESP_TIMEOUT", "ILLEGAL_COMMAND", "R1_ERROR"}
    BY <1>1, R1Facts
  <2> QED BY <1>1, <1>3, <2>1 DEF IInv, TypeOK
<1>5. RestOK' /\ ModeInv' /\ DsmInv' /\ SignalInv' /\ StrayInv'
  BY <1>1, <1>2 DEF IInv, RestOK, ModeInv, DsmInv, SignalInv, StrayInv
<1>6. EntryInv' /\ FtfInv' /\ ChannelInv' /\ OkInv'
  BY <1>1, <1>2, <1>3, ChannelSame DEF IInv, EntryInv, FtfInv, OkInv
<1>7. EndInv'
  <2> SUFFICES ASSUME pc \in {"enable", "config", "ftf", "end"}, ~late
               PROVE  cmd = 0 /\ Quiet' /\ Over /\ (R1(12) = "OK" => card \in Finished)
    BY <1>1, <1>3 DEF EndInv
  <2>1. Stopping
    BY <1>1 DEF IInv, EndInv
  <2>2. ~Asked(12)
    BY <1>1, AnsweredIs DEF Asked
  <2>3. Over /\ Heard(12) /\ (Accepted => card \in Finished)
    BY <2>1, <2>2 DEF Stopping
  <2>4. Quiet'
    BY <1>1, <2>3, R1Clears DEF Quiet
  <2>5. R1(12) = "OK" => Accepted
    BY <1>1, R1Facts
  <2> QED BY <2>3, <2>4, <2>5 DEF Heard
<1> QED
  BY <1>1, <1>2, <1>3, <1>4, <1>5, <1>6, <1>7 DEF IInv, CommandInv, PollInv, StopInv,
     FlushInv, StateInv

(* The end of a single block. *)
LEMMA IsrEndStep == ASSUME IInv, isr_end PROVE IInv'
<1>1. /\ isr = "none" /\ Pending /\ "DTEND" \in stat /\ stopcondition = 0
      /\ transerror' = "OK" /\ transend' = 1
      /\ stat' = stat \ {"DTEND"} /\ inten' = inten \ Handled /\ late' = (late \/ pc = "enter")
      /\ UNCHANGED <<transmode, stopcondition, pc, op, k, status, isr, cmd, rsp, dsm, left, request,
                     channel, ftf, todo, card, illegal, faults, bad, failed, astray>>
  BY DEF isr_end, call, path, medium
<1>2. transmode = "dma" /\ pc \notin {"r1", "stop"} /\ (~late => pc \notin {"flush", "state"})
  BY <1>1, EndInterrupts
<1>3. /\ Commands' = Commands /\ (IsRead' <=> IsRead) /\ (IsMulti' <=> IsMulti)
      /\ Finished' = Finished /\ (Over' <=> Over)
  BY <1>1, OpSame DEF Over
<1>4. dsm = "off"
  BY <1>1 DEF IInv, TypeOK, SignalInv, Handled
<1>5. TypeOK'
  BY <1>1, <1>3 DEF IInv, TypeOK
<1>6. RestOK'
  <2>1. late' \in BOOLEAN
    BY <1>1
  <2> QED BY <1>1, <2>1 DEF IInv, RestOK
<1>7. ModeInv' /\ DsmInv' /\ SignalInv' /\ StrayInv'
  BY <1>1, <1>2, <1>4 DEF IInv, ModeInv, DsmInv, SignalInv, StrayInv
<1>8. EntryInv' /\ FtfInv' /\ ChannelInv' /\ OkInv'
  BY <1>1, <1>2, <1>3, ChannelSame DEF IInv, EntryInv, FtfInv, OkInv
<1>9. EndInv'
  <2> SUFFICES ASSUME pc \in {"enable", "config", "ftf", "end"}, ~late
               PROVE  cmd = 0 /\ Quiet' /\ Over /\ card \in Finished
    BY <1>1, <1>3 DEF EndInv
  <2>1. cmd = 0 /\ Quiet /\ Moving /\ ~IsMulti
    BY <1>1 DEF IInv, EndInv, FtfInv
  <2>2. Quiet'
    BY <1>1, <2>1 DEF Quiet
  <2> QED BY <1>1, <1>4, <2>1, <2>2 DEF Moving, Over
<1> QED
  BY <1>1, <1>2, <1>3, <1>5, <1>6, <1>7, <1>8, <1>9 DEF IInv, CommandInv, PollInv, StopInv,
     FlushInv, StateInv, ModeInv

(* A step that leaves the flags of a command alone leaves its state alone. *)
LEMMA SameAnswer ==
  ASSUME UNCHANGED <<cmd, rsp>>, \A f \in CmdFlags : f \in stat' <=> f \in stat
  PROVE  /\ (Quiet' <=> Quiet) /\ (Accepted' <=> Accepted)
         /\ \A c : (Asked(c)' <=> Asked(c)) /\ (Heard(c)' <=> Heard(c))
<1>1. /\ "CCRCERR" \in stat' <=> "CCRCERR" \in stat
      /\ "CMDTMOUT" \in stat' <=> "CMDTMOUT" \in stat
      /\ "CMDRECV" \in stat' <=> "CMDRECV" \in stat
  BY DEF CmdFlags
<1>2. (Quiet' <=> Quiet) /\ (Accepted' <=> Accepted)
  BY <1>1 DEF Quiet, Accepted, CmdFlags
<1>3. Answered' <=> Answered
  BY <1>1 DEF Answered, CmdFlags
<1>4. ASSUME NEW c PROVE Heard(c)' <=> Heard(c)
  BY <1>1, <1>3 DEF Heard, CmdFlags
<1> QED BY <1>2, <1>4 DEF Asked

(* An error of the data phase in DMA mode. *)
LEMMA IsrErrorStep == ASSUME IInv, isr_error PROVE IInv'
<1> DEFINE e == First(IsrErrors)
<1>1. /\ isr = "none" /\ Pending /\ "DTEND" \notin stat /\ AnyOf(IsrErrors) /\ transerror' = e
      /\ stat' = stat \ {e} /\ inten' = inten \ Handled /\ late' = (late \/ pc = "enter")
      /\ UNCHANGED <<transmode, transend, stopcondition, pc, op, k, status, isr, cmd, rsp, dsm,
                     left, request, channel, ftf, todo, card, illegal, faults, bad, failed,
                     astray>>
  BY DEF isr_error, call, path, medium
<1>2. e \in DataErrors /\ e \in stat /\ e # "OK" /\ e \notin CmdFlags
  BY <1>1, IsrFirst DEF DataErrors, CmdFlags
<1> HIDE DEF e
<1>3. transmode = "dma" /\ dsm = "off"
  BY <1>1, <1>2 DEF IInv, TypeOK, ModeInv, Pending, SignalInv, Handled
<1>4. /\ Commands' = Commands /\ (IsRead' <=> IsRead) /\ (IsMulti' <=> IsMulti) /\ Count' = Count
      /\ Started' = Started /\ Finished' = Finished /\ (Over' <=> Over)
  BY <1>1, OpSame DEF Over
<1>5. /\ (Quiet' <=> Quiet) /\ (Accepted' <=> Accepted)
      /\ \A c : (Asked(c)' <=> Asked(c)) /\ (Heard(c)' <=> Heard(c))
  BY <1>1, <1>2, SameAnswer
<1>6. TypeOK'
  BY <1>1, <1>2, <1>4 DEF IInv, TypeOK
<1>7. RestOK'
  <2>1. late' \in BOOLEAN
    BY <1>1
  <2> QED BY <1>1, <2>1 DEF IInv, RestOK
<1>8. ModeInv' /\ DsmInv' /\ SignalInv' /\ StrayInv'
  BY <1>1, <1>3 DEF IInv, ModeInv, DsmInv, SignalInv, StrayInv
<1>9. CommandInv'
  BY <1>1, <1>4, <1>5 DEF IInv, CommandInv
<1>10. EntryInv' /\ FtfInv' /\ ChannelInv' /\ OkInv'
  BY <1>1, <1>4, ChannelSame DEF IInv, EntryInv, FtfInv, OkInv
<1>11. EndInv'
  <2>1. Moving => Moving'
    BY <1>1, <1>4 DEF Moving
  <2> QED BY <1>1, <1>2, <1>4, <1>5, <2>1 DEF IInv, EndInv
<1>12. FlushInv' /\ StateInv'
  BY <1>1, <1>4, <1>5 DEF IInv, FlushInv, StateInv
<1>13. PollInv' /\ StopInv'
  BY <1>1, <1>3 DEF IInv, ModeInv, PollInv, StopInv
<1> QED
  BY <1>6, <1>7, <1>8, <1>9, <1>10, <1>11, <1>12, <1>13 DEF IInv

(* CCRCERR interrupts again and again only after sd_block_read returned. *)
LEMMA IsrStormStep == ASSUME IInv, isr_storm PROVE IInv'
<1>1. /\ Storm /\ transerror' = "OK"
      /\ UNCHANGED <<transmode, transend, stopcondition, pc, op, k, status, isr, stat, inten, cmd,
                     rsp, dsm, left, request, channel, ftf, todo, card, illegal, faults, bad, late,
                     failed, astray>>
  BY DEF isr_storm, call, bus, path, medium, history
<1>2. "CCRCERR" \in stat /\ isr = "none"
  BY <1>1 DEF IInv, RestOK, Storm, Pending
<1>3. EndInv'
  <2>1. ~Quiet
    BY <1>2, AnsweredIs
  <2> QED BY <1>1, <1>2, <2>1 DEF IInv, EndInv
<1>4. /\ Commands' = Commands /\ (IsRead' <=> IsRead) /\ (IsMulti' <=> IsMulti) /\ Count' = Count
      /\ Started' = Started /\ Finished' = Finished /\ (Over' <=> Over)
  BY <1>1, OpSame DEF Over
<1>5. /\ (Quiet' <=> Quiet) /\ (Accepted' <=> Accepted)
      /\ \A c : (Asked(c)' <=> Asked(c)) /\ (Heard(c)' <=> Heard(c))
  BY <1>1, SameAnswer
<1>6. TypeOK' /\ RestOK'
  BY <1>1, <1>4 DEF IInv, TypeOK, RestOK
<1>7. /\ ModeInv' /\ DsmInv' /\ SignalInv' /\ StrayInv'
      /\ EntryInv' /\ FtfInv' /\ ChannelInv' /\ OkInv'
  BY <1>1, <1>4, ChannelSame DEF IInv, ModeInv, DsmInv, SignalInv, StrayInv, EntryInv, FtfInv, OkInv
<1>8. CommandInv' /\ FlushInv' /\ StateInv'
  BY <1>1, <1>4, <1>5 DEF IInv, CommandInv, FlushInv, StateInv
<1>9. PollInv' /\ StopInv'
  <2>1. (Moving' <=> Moving) /\ (Stopping' <=> Stopping)
    BY <1>1, <1>4, <1>5 DEF Moving, Stopping
  <2> QED BY <1>1, <1>5, <2>1 DEF IInv, PollInv, StopInv
<1> QED
  BY <1>3, <1>6, <1>7, <1>8, <1>9 DEF IInv

-----------------------------------------------------------------------------
(* What the card does with a command, whether or not something fails. *)
LEMMA AnswerFacts ==
  ASSUME IInv, card_answers \/ card_fails
  PROVE  /\ cmd # 0 /\ cmd' = 0 /\ rsp' \in Responses /\ illegal' \in BOOLEAN /\ faults' \in Nat
         /\ card' \in {card, After(cmd)} /\ (card' = card \/ Legal(cmd))
         /\ UNCHANGED <<transmode, transend, transerror, stopcondition, pc, op, k, status, isr,
                        inten, dsm, left, request, channel, ftf, todo, bad, late, failed, astray>>
         /\ \E f \in CmdFlags :
              /\ stat' = stat \cup {f}
              /\ f # "CMDRECV" => rsp' = rsp
              /\ f = "CMDRECV" =>
                   /\ Legal(cmd) /\ rsp'.idx = cmd
                   /\ rsp'.bits # "error" => card' = After(cmd) /\ rsp'.state = card
<1>1. /\ cmd # 0 /\ cmd' = 0
      /\ UNCHANGED <<transmode, transend, transerror, stopcondition, pc, op, k, status, isr, inten,
                     dsm, left, request, channel, ftf, todo, bad, late, failed, astray>>
  BY DEF card_answers, card_fails, flags, call, path, history
<1>2. cmd \in Nat /\ rsp \in Responses /\ card \in CardStates /\ illegal \in BOOLEAN
      /\ faults \in Nat
  BY DEF IInv, TypeOK, RestOK
<1>3. faults' \in Nat
  BY <1>2 DEF card_answers, card_fails
<1>4. ASSUME NEW b \in Bits, Respond(b), Legal(cmd), b # "error" => card' = After(cmd)
      PROVE  /\ stat' = stat \cup {"CMDRECV"} /\ illegal' \in BOOLEAN
             /\ rsp' \in Responses /\ rsp'.idx = cmd
             /\ rsp'.bits # "error" => card' = After(cmd) /\ rsp'.state = card
  BY <1>2, <1>4 DEF Respond, Responses
<1>5. CASE card_answers
  <2>1. CASE Legal(cmd)
    <3>1. Respond(IF illegal THEN "error" ELSE "ok") /\ card' = After(cmd)
      BY <1>5, <2>1 DEF card_answers
    <3>2. (IF illegal THEN "error" ELSE "ok") \in Bits
      BY DEF Bits
    <3> QED BY <1>1, <1>3, <1>4, <2>1, <3>1, <3>2 DEF CmdFlags
  <2>2. CASE ~Legal(cmd)
    <3>1. stat' = stat \cup {"CMDTMOUT"} /\ illegal' = TRUE /\ rsp' = rsp /\ card' = card
      BY <1>5, <2>2 DEF card_answers
    <3> QED BY <1>1, <1>2, <1>3, <3>1 DEF CmdFlags
  <2> QED BY <2>1, <2>2
<1>6. CASE card_fails
  <2>1. Legal(cmd)
    BY <1>6 DEF card_fails
  <2>2. CASE (\E executed \in BOOLEAN : Lost(executed)) \/ Garbled
    <3>1. /\ stat' = stat \cup {"CMDTMOUT"} \/ stat' = stat \cup {"CCRCERR"}
          /\ rsp' = rsp /\ illegal' = illegal /\ card' \in {card, After(cmd)}
      BY <2>2 DEF Lost, Garbled
    <3> QED BY <1>1, <1>2, <1>3, <2>1, <3>1 DEF CmdFlags
  <2>3. CASE Respond("error") /\ UNCHANGED card
    BY <1>1, <1>3, <1>4, <2>1, <2>3 DEF Bits, CmdFlags
  <2>4. CASE \E bits \in {"busy", "locked"} : Respond(bits) /\ card' = After(cmd)
    <3>1. PICK b \in {"busy", "locked"} : Respond(b) /\ card' = After(cmd)
      BY <2>4
    <3> QED BY <1>1, <1>3, <1>4, <2>1, <3>1 DEF Bits, CmdFlags
  <2> QED BY <1>6, <2>2, <2>3, <2>4 DEF card_fails
<1> QED BY <1>5, <1>6
(* The command in flight is answered, or it times out. *)
LEMMA AnswerStep == ASSUME IInv, card_answers \/ card_fails PROVE IInv'
<1>1. /\ cmd # 0 /\ cmd' = 0 /\ rsp' \in Responses /\ illegal' \in BOOLEAN /\ faults' \in Nat
      /\ card' \in {card, After(cmd)} /\ (card' = card \/ Legal(cmd))
      /\ UNCHANGED <<transmode, transend, transerror, stopcondition, pc, op, k, status, isr, inten,
                     dsm, left, request, channel, ftf, todo, bad, late, failed, astray>>
  BY AnswerFacts
<1>2. PICK f \in CmdFlags :
        /\ stat' = stat \cup {f}
        /\ f # "CMDRECV" => rsp' = rsp
        /\ f = "CMDRECV" => /\ Legal(cmd) /\ rsp'.idx = cmd
                            /\ rsp'.bits # "error" => card' = After(cmd) /\ rsp'.state = card
  BY AnswerFacts
<1>3. /\ Commands' = Commands /\ (IsRead' <=> IsRead) /\ (IsMulti' <=> IsMulti) /\ Count' = Count
      /\ Started' = Started /\ Finished' = Finished /\ (Over' <=> Over)
  BY <1>1, OpSame DEF Over
<1>4. f \in Flags /\ f \notin Handled /\ f # "DTEND" /\ f # "DTBLKEND"
  BY DEF CmdFlags, Flags, Handled, DataErrors
<1>5. ASSUME NEW c, Asked(c)
      PROVE  /\ cmd = c /\ Heard(c)'
             /\ Accepted' => card' = After(c) /\ rsp'.state = card
  <2>1. cmd = c /\ Quiet
    BY <1>5 DEF Asked
  <2>2. ASSUME NEW g \in CmdFlags PROVE g \in stat' <=> g = f
    BY <1>2, <2>1 DEF Quiet
  <2>3. Answered'
    BY <1>2 DEF Answered
  <2>4. "CMDRECV" \in stat' => f = "CMDRECV"
    BY <2>2 DEF CmdFlags
  <2>5. Heard(c)'
    BY <1>1, <1>2, <2>1, <2>2, <2>3, <2>4 DEF Heard
  <2> QED BY <1>2, <2>1, <2>4, <2>5 DEF Accepted
<1>6. TypeOK'
  <2>1. card' \in CardStates
    BY <1>1 DEF IInv, TypeOK, After, CardStates
  <2> QED BY <1>1, <1>2, <1>3, <1>4, <2>1 DEF IInv, TypeOK
<1>7. RestOK' /\ ModeInv' /\ DsmInv'
  BY <1>1 DEF IInv, RestOK, ModeInv, DsmInv
<1>8. SignalInv'
  BY <1>1, <1>2, <1>4 DEF IInv, SignalInv
<1>9. k > 1 /\ pc = "r1" => Asked(Commands[k]) /\ card = "tran"
  BY <1>1 DEF IInv, CommandInv, Heard
<1>10. StrayInv'
  <2> SUFFICES ASSUME "CMDRECV" \in stat', rsp'.idx = 16 PROVE card' = "tran"
    BY <1>1 DEF StrayInv
  <2>1. CASE f = "CMDRECV"
    BY <1>1, <1>2, <2>1 DEF Legal, After
  <2>2. CASE f # "CMDRECV"
    <3>1. "CMDRECV" \in stat /\ card = "tran"
      BY <1>2, <2>2 DEF IInv, StrayInv
    <3>2. CASE cmd \in {12, 13, 16}
      BY <1>1, <3>1, <3>2 DEF Legal, After
    <3>3. CASE cmd \notin {12, 13, 16}
      <4>1. pc = "r1" /\ cmd = Commands[k]
        BY <1>1, <3>3 DEF IInv, StrayInv, CommandInv
      <4>2. k # 1
        BY <3>3, <4>1, CommandList DEF IInv, TypeOK
      <4>3. k > 1
        BY <4>2, OpFacts DEF IInv
      <4>4. Quiet
        BY <1>9, <4>1, <4>3 DEF Asked
      <4> QED BY <3>1, <4>4 DEF Quiet, CmdFlags
    <3> QED BY <3>2, <3>3
  <2> QED BY <2>1, <2>2
<1>11. CommandInv'
  <2> SUFFICES ASSUME pc = "r1" PROVE CommandInv'
    BY <1>1 DEF CommandInv
  <2>1. ASSUME k > 1
        PROVE  /\ Heard(Commands[k])'
               /\ Accepted' => card' = IF k = Len(Commands) THEN Started ELSE "tran"
    <3>1. Asked(Commands[k]) /\ card = "tran" /\ TypeOK
      BY <1>9, <2>1 DEF IInv
    <3>2. PICK c : c = Commands[k]
      OBVIOUS
    <3>3. Asked(c) /\ Commands'[k'] = c
      BY <1>1, <1>3, <3>1, <3>2
    <3>4. Heard(c)' /\ (Accepted' => card' = After(c))
      BY <1>5, <3>3
    <3>5. Heard(Commands[k])'
      BY <3>3, <3>4 DEF Heard
    <3> QED BY <2>1, <3>1, <3>2, <3>4, <3>5, CardAccepts
  <2>3. k' > 1 => /\ Heard(Commands[k])'
                  /\ Accepted' => bad' \/ card' = IF k' = Len(Commands') THEN Started' ELSE "tran"
    BY <1>1, <1>3, <2>1
  <2>4. "DTEND" \in stat' <=> "DTEND" \in stat
    BY <1>2, <1>4
  <2> QED BY <1>1, <1>3, <2>3, <2>4 DEF IInv, CommandInv
<1>12. Stopping => Stopping'
  <2> SUFFICES ASSUME Stopping PROVE Stopping'
    OBVIOUS
  <2>1. IsMulti /\ Over /\ Asked(12) /\ card = Started
    BY <1>1 DEF Stopping, Heard
  <2>2. After(12) \in Finished
    BY <2>1 DEF After, Started, Finished, IsMulti, IsRead
  <2> QED BY <1>3, <1>5, <2>1, <2>2 DEF Stopping
<1>13. StopInv' /\ EndInv' /\ PollInv'
  BY <1>1, <1>12 DEF IInv, StopInv, EndInv, PollInv
<1>14. EntryInv' /\ FtfInv' /\ FlushInv' /\ ChannelInv'
  BY <1>1, <1>3, ChannelSame DEF IInv, EntryInv, FtfInv, FlushInv
<1>15. StateInv'
  <2> SUFFICES ASSUME pc = "state" PROVE StateInv'
    BY <1>1 DEF StateInv
  <2>1. ~late => Asked(13)
    BY <1>1 DEF IInv, StateInv, Heard
  <2>2. ~late => card' = card
    <3>1. After(13) = card
      BY DEF After
    <3> QED BY <1>1, <2>1, <3>1 DEF Asked
  <2>3. "DTEND" \in stat' <=> "DTEND" \in stat
    BY <1>2, <1>4
  <2> QED BY <1>1, <1>3, <1>5, <2>1, <2>2, <2>3 DEF IInv, StateInv
<1>16. OkInv'
  <2>1. cmd = 12 /\ card = "tran" => card' = "tran"
    BY <1>1 DEF Legal
  <2> QED BY <1>1, <1>3, <2>1 DEF IInv, OkInv
<1> QED
  BY <1>6, <1>7, <1>8, <1>10, <1>11, <1>13, <1>14, <1>15, <1>16 DEF IInv

(* The card is through with programming or with its single block. *)
LEMMA CardDoneStep == ASSUME IInv, card_done PROVE IInv'
<1>1. /\ card = "prg" \/ (card = "data1" /\ dsm = "off")
      /\ card' = "tran"
      /\ UNCHANGED <<transmode, transend, transerror, stopcondition, pc, op, k, status, isr, stat,
                     inten, cmd, rsp, dsm, left, request, channel, ftf, todo, illegal, faults, bad,
                     late, failed, astray>>
  BY DEF card_done, flags, call, bus, path, history
<1>2. /\ Commands' = Commands /\ (IsRead' <=> IsRead) /\ (IsMulti' <=> IsMulti) /\ Count' = Count
      /\ Started' = Started /\ Finished' = Finished /\ (Over' <=> Over)
  BY <1>1, OpSame DEF Over
<1>3. /\ (Quiet' <=> Quiet) /\ (Accepted' <=> Accepted)
      /\ \A c : (Asked(c)' <=> Asked(c)) /\ (Heard(c)' <=> Heard(c))
  BY <1>1, SameAnswer
<1>4. "tran" \in Finished
  BY DEF Finished
<1>5. card = Started => card = "data1" /\ op = "read1" /\ dsm = "off"
  BY <1>1 DEF IInv, TypeOK, Ops, Started
<1>6. TypeOK' /\ RestOK'
  BY <1>1, <1>2 DEF IInv, TypeOK, RestOK, CardStates
<1>7. /\ ModeInv' /\ DsmInv' /\ SignalInv' /\ StrayInv'
      /\ EntryInv' /\ FtfInv' /\ ChannelInv' /\ OkInv'
  BY <1>1, <1>2, ChannelSame DEF IInv, ModeInv, DsmInv, SignalInv, StrayInv, EntryInv, FtfInv, OkInv
<1>8. CommandInv'
  <2> SUFFICES ASSUME pc = "r1" PROVE CommandInv'
    BY <1>1 DEF CommandInv
  <2>1. CASE k > 1
    <3>1. Heard(Commands[k])
      BY <1>1, <2>1 DEF IInv, CommandInv
    <3>2. Accepted => bad
      <4>1. Accepted /\ ~bad => k = Len(Commands) /\ card = Started
        BY <1>1, <2>1 DEF IInv, CommandInv, Asked, Accepted, Quiet, CmdFlags
      <4>2. IsRead /\ k = 2 /\ dsm = "off" => bad
        BY DEF IInv, CommandInv
      <4>3. op = "read1" => IsRead /\ Len(Commands) = 2
        BY CommandList DEF IsRead, Ops
      <4> QED BY <1>5, <4>1, <4>2, <4>3
    <3> QED BY <1>1, <1>2, <1>3, <2>1, <3>1, <3>2 DEF IInv, CommandInv
  <2>2. CASE ~(k > 1)
    BY <1>1, <1>2, <1>3, <2>2 DEF IInv, CommandInv
  <2> QED BY <2>1, <2>2
<1>9. Moving => Moving'
  <2>1. IsMulti => card # Started
    BY <1>5 DEF IsMulti
  <2>2. dsm # "off" => card # Started
    BY <1>5
  <2> QED BY <1>1, <1>2, <1>4, <2>1, <2>2 DEF Moving
<1>10. Stopping => Stopping'
  BY <1>1, <1>2, <1>3, <1>4, <1>5 DEF Stopping, IsMulti
<1>11. PollInv' /\ StopInv'
  BY <1>1, <1>3, <1>9, <1>10 DEF IInv, PollInv, StopInv
<1>12. EndInv'
  BY <1>1, <1>2, <1>3, <1>4, <1>9, <1>10 DEF IInv, EndInv
<1>13. FlushInv' /\ StateInv'
  BY <1>1, <1>2, <1>3 DEF IInv, FlushInv, StateInv
<1> QED
  BY <1>6, <1>7, <1>8, <1>11, <1>12, <1>13 DEF IInv
-----------------------------------------------------------------------------
(* While the DSM is on, a call is at its data phase or has failed. *)
LEMMA DsmOn ==
  ASSUME IInv, dsm # "off"
  PROVE  /\ pc # "stop" /\ isr = "none" /\ "DTEND" \notin stat
         /\ ~late => pc \notin {"flush", "state"}
         /\ pc \in {"enable", "config", "ftf", "end"} /\ ~late =>
              transend = 0 /\ cmd = 0 /\ Quiet /\ Moving
         /\ pc = "poll" => cmd = 0 /\ Quiet /\ Moving
         /\ pc = "idle" /\ status = "OK" => late \/ (op = "read1" /\ transmode = "dma")
<1>1. "DTEND" \notin stat /\ isr = "none"
  BY DEF IInv, TypeOK, SignalInv, Handled
<1>2. ~Over /\ ~Stopping
  BY DEF Over, Stopping
<1> QED BY <1>1, <1>2 DEF IInv, StopInv, EndInv, PollInv, FlushInv, StateInv, OkInv

(* A block goes through the FIFO: through the buffer of the call, but for a  *)
(* channel that a failed call has left and the window before it is           *)
(* configured.                                                               *)
LEMMA DataStep == ASSUME IInv, dsm_data PROVE IInv'
<1>1. /\ dsm = "data" /\ (request \/ pc = "poll") /\ dsm' = "crc" /\ todo' = todo - 1
      /\ \/ UNCHANGED <<ftf, channel>>
         \/ request /\ todo = 1 /\ ftf' = TRUE /\ channel' = "off"
      /\ astray' \in BOOLEAN /\ (astray' => astray \/ (request /\ channel \in {"read", "write"}))
      /\ UNCHANGED <<transmode, transend, transerror, stopcondition, pc, op, k, status, isr, stat,
                     inten, cmd, rsp, left, request, card, illegal, faults, bad, late, failed>>
  <2>1. /\ dsm = "data" /\ (request \/ pc = "poll") /\ dsm' = "crc" /\ todo' = todo - 1
        /\ UNCHANGED <<transmode, transend, transerror, stopcondition, pc, op, k, status, isr, stat,
                       inten, cmd, rsp, left, request, card, illegal, faults, bad, late, failed>>
    BY DEF dsm_data, Served, flags, call, bus, medium
  <2>2. \/ UNCHANGED <<ftf, channel>>
        \/ request /\ todo = 1 /\ ftf' = TRUE /\ channel' = "off"
    BY DEF dsm_data, Served
  <2>3. astray' = (astray \/ (Served /\ channel # "own"))
    BY DEF dsm_data
  <2>4. astray' \in BOOLEAN
    BY <2>3
  <2>5. astray' => astray \/ (request /\ channel \in {"read", "write"})
    BY <2>3 DEF Served, Direction, IInv, TypeOK
  <2> QED BY <2>1, <2>2, <2>4, <2>5
<1>2. /\ Commands' = Commands /\ (IsRead' <=> IsRead) /\ (IsMulti' <=> IsMulti)
      /\ Started' = Started /\ Finished' = Finished
  BY <1>1, OpSame
<1>3. left = todo /\ left > 0 /\ todo \in 0 .. Blocks /\ Blocks \in Nat
  BY <1>1, SdAssumption DEF IInv, TypeOK, DsmInv
<1>4. todo' \in 0 .. Blocks /\ left = todo' + 1 /\ todo # 0 /\ (todo = 1 => todo' = 0)
  BY <1>1, <1>3
<1>5. /\ pc \notin {"r1", "end", "stop", "flush", "state"} /\ ~(pc = "ftf" /\ ftf)
      /\ ~(pc = "enable" /\ request)
  BY <1>1, <1>4 DEF IInv, CommandInv, FtfInv, ChannelInv
<1>6. pc = "idle" => status # "OK"
  BY <1>4 DEF IInv, OkInv
<1>7. TypeOK' /\ RestOK'
  <2>1. ftf' \in BOOLEAN /\ channel' \in {"off", "own", "read", "write"}
    BY <1>1 DEF IInv, TypeOK
  <2> QED BY <1>1, <1>2, <1>4, <2>1 DEF IInv, TypeOK, RestOK
<1>8. DsmInv'
  BY <1>1, <1>4 DEF DsmInv
<1>9. ModeInv' /\ StrayInv' /\ EntryInv'
  BY <1>1, <1>2, <1>5 DEF IInv, ModeInv, StrayInv, EntryInv
<1>10. FtfInv'
  BY <1>1, <1>2, <1>4, <1>5 DEF IInv, FtfInv
<1>11. ChannelInv'
  <2>1. request /\ channel \in {"read", "write"} =>
          pc = "enter" \/ (failed /\ op # "write1")
    BY <1>5 DEF IInv, ChannelInv, Armed
  <2>2. astray' => pc = "enter" \/ (failed /\ op # "write1")
    BY <1>1, <2>1 DEF IInv, ChannelInv
  <2>3. channel' = channel \/ channel' = "off"
    BY <1>1
  <2>4. Armed => UNCHANGED <<ftf, channel>>
    BY <1>1, <1>5 DEF Armed
  <2>5. channel' = "own" => UNCHANGED ftf
    BY <1>1
  <2> QED BY <1>1, <2>2, <2>3, <2>4, <2>5 DEF IInv, ChannelInv, Armed
<1>12. SignalInv'
  BY <1>1 DEF IInv, ModeInv, SignalInv
<1>13. Moving => Moving'
  BY <1>1, <1>2 DEF Moving, Over
<1>14. Quiet' <=> Quiet
  BY <1>1 DEF Quiet
<1>15. PollInv' /\ EndInv'
  BY <1>1, <1>5, <1>13, <1>14, DsmOn DEF PollInv, EndInv
<1> QED
  BY <1>1, <1>5, <1>6, <1>7, <1>8, <1>9, <1>10, <1>11, <1>12, <1>15 DEF IInv, CommandInv, StopInv,
     FlushInv, StateInv, OkInv

(* A block has passed its CRC check; the last one ends the transfer. *)
LEMMA CrcStep == ASSUME IInv, dsm_crc PROVE IInv'
<1>1. /\ dsm = "crc" /\ left' = left - 1 /\ dsm' = IF left = 1 THEN "off" ELSE "data"
      /\ stat' = stat \cup {"DTBLKEND"} \cup (IF left = 1 THEN {"DTEND"} ELSE {})
      /\ card' = CASE card = "data1" -> "tran" [] card = "rcv1" -> "prg" [] OTHER -> card
      /\ UNCHANGED <<transmode, transend, transerror, stopcondition, pc, op, k, status, isr, inten,
                     cmd, rsp, request, channel, ftf, todo, illegal, faults, bad, late, failed,
                     astray>>
  BY DEF dsm_crc, flags, call, history
<1>2. /\ Commands' = Commands /\ (IsRead' <=> IsRead) /\ (IsMulti' <=> IsMulti)
      /\ Started' = Started /\ Finished' = Finished
  BY <1>1, OpSame
<1>3. left = todo + 1 /\ todo \in 0 .. Blocks /\ left \in 0 .. Blocks /\ Blocks \in Nat
  BY <1>1, SdAssumption DEF IInv, TypeOK, DsmInv
<1>4. left' \in 0 .. Blocks /\ left' = todo /\ (left = 1 <=> todo = 0)
  BY <1>1, <1>3
<1>5. pc # "r1"
  BY <1>1 DEF IInv, CommandInv
<1>6. card' \in CardStates /\ (card = "tran" => card' = "tran")
  BY <1>1 DEF IInv, TypeOK, CardStates
<1>7. TypeOK'
  <2>1. stat' \subseteq Flags
    BY <1>1 DEF IInv, TypeOK, Flags, Handled
  <2> QED BY <1>1, <1>2, <1>4, <1>6, <2>1 DEF IInv, TypeOK
<1>8. "CMDRECV" \in stat' <=> "CMDRECV" \in stat
  BY <1>1
<1>9. RestOK' /\ ModeInv' /\ StrayInv' /\ EntryInv' /\ FtfInv' /\ ChannelInv'
  BY <1>1, <1>2, <1>6, <1>8, ChannelSame DEF IInv, RestOK, ModeInv, StrayInv, EntryInv, FtfInv
<1>10. DsmInv'
  BY <1>1, <1>3, <1>4 DEF DsmInv
<1>11. SignalInv'
  <2>1. dsm' # "off" => \A f \in Handled : f \notin stat'
    BY <1>1 DEF IInv, SignalInv, Handled, DataErrors
  <2>2. isr' # "stop"
    BY <1>1, DsmOn
  <2>3. transmode = "dma" => "DTEND" \in inten
    BY <1>1 DEF IInv, SignalInv
  <2> QED BY <1>1, <2>1, <2>2, <2>3 DEF SignalInv
<1>12. Moving => Moving'
  <2> SUFFICES ASSUME Moving PROVE Moving'
    OBVIOUS
  <2>1. ~bad /\ card = Started /\ (~IsMulti => left = 1) /\ "DTEND" \notin stat
    BY <1>1, DsmOn DEF Moving
  <2>2. left = 1 => Over'
    BY <1>1, <1>4, <2>1 DEF Over
  <2>3. IsMulti => card' = Started
    BY <1>1, <2>1 DEF Started, IsMulti
  <2>4. ~IsMulti => card' \in Finished
    BY <1>1, <2>1 DEF IInv, TypeOK, Ops, Started, Finished, IsMulti, IsRead
  <2>5. "DTEND" \in stat' => left = 1
    BY <1>1, <2>1
  <2> QED BY <1>1, <1>2, <2>1, <2>2, <2>3, <2>4, <2>5 DEF Moving
<1>13. Quiet' <=> Quiet
  BY <1>1 DEF Quiet, CmdFlags
<1>14. PollInv' /\ EndInv' /\ StopInv'
  BY <1>1, <1>12, <1>13, DsmOn DEF PollInv, EndInv, StopInv
<1>15. FlushInv' /\ StateInv'
  <2>1. pc \in {"flush", "state"} => late /\ ~IsRead
    BY <1>1, DsmOn DEF IInv, FlushInv, StateInv
  <2> QED BY <1>1, <1>2, <2>1 DEF FlushInv, StateInv
<1>16. OkInv'
  <2>1. pc = "idle" /\ status = "OK" => todo = 0
    BY DEF IInv, OkInv
  <2> QED BY <1>1, <2>1, DsmOn DEF OkInv
<1> QED
  BY <1>1, <1>5, <1>7, <1>9, <1>10, <1>11, <1>14, <1>15, <1>16 DEF IInv, CommandInv

(* The data path meets an error and stops. *)
LEMMA FailStep == ASSUME IInv, dsm_fails PROVE IInv'
<1>1. /\ dsm # "off" /\ dsm' = "off" /\ bad' = TRUE /\ faults' = faults + 1
      /\ card' = IF card = "rcv1" THEN "tran" ELSE card
      /\ UNCHANGED <<transmode, transend, transerror, stopcondition, pc, op, k, status, isr, inten,
                     cmd, rsp, left, request, channel, ftf, todo, illegal, late, failed, astray>>
  BY DEF dsm_fails, flags, call
<1>2. PICK e \in DataErrors : stat' = stat \cup {e}
  BY DEF dsm_fails, DataErrors
<1>3. e \notin CmdFlags /\ e # "DTEND" /\ e # "DTBLKEND" /\ e \in Flags
  BY DEF DataErrors, CmdFlags, Flags, Handled
<1>4. /\ Commands' = Commands /\ (IsRead' <=> IsRead) /\ (IsMulti' <=> IsMulti) /\ Count' = Count
      /\ Started' = Started /\ Finished' = Finished
  BY <1>1, OpSame
<1>5. /\ (Quiet' <=> Quiet) /\ (Accepted' <=> Accepted)
      /\ \A c : (Asked(c)' <=> Asked(c)) /\ (Heard(c)' <=> Heard(c))
  BY <1>1, <1>2, <1>3, SameAnswer
<1>6. TypeOK'
  <2>1. card' \in CardStates /\ stat' \subseteq Flags
    BY <1>1, <1>2, <1>3 DEF IInv, TypeOK, CardStates
  <2> QED BY <1>1, <1>4, <2>1 DEF IInv, TypeOK
<1>7. RestOK'
  <2>1. faults' \in Nat /\ bad' \in BOOLEAN
    BY <1>1 DEF IInv, RestOK
  <2> QED BY <1>1, <2>1 DEF IInv, RestOK
<1>8. "DTEND" \notin stat' /\ isr = "none"
  BY <1>1, <1>2, <1>3, DsmOn
<1>9. DsmInv' /\ SignalInv'
  BY <1>1, <1>8 DEF DsmInv, SignalInv
<1>10. ModeInv' /\ EntryInv' /\ FtfInv' /\ ChannelInv' /\ StrayInv'
  BY <1>1, <1>2, <1>3, <1>4, ChannelSame DEF IInv, ModeInv, EntryInv, FtfInv, StrayInv, CmdFlags
<1>11. CommandInv'
  <2> SUFFICES ASSUME pc = "r1" PROVE CommandInv'
    BY <1>1 DEF CommandInv
  <2>1. IsRead /\ k = 2
    BY <1>1 DEF IInv, CommandInv
  <2> QED BY <1>1, <1>4, <1>5, <1>8, <2>1 DEF IInv, CommandInv
<1>12. Moving => Moving'
  BY <1>1, <1>2, <1>3, <1>4, <1>8 DEF Moving, Over
<1>13. PollInv' /\ EndInv' /\ StopInv'
  BY <1>1, <1>5, <1>8, <1>12, DsmOn DEF PollInv, EndInv, StopInv
<1>14. FlushInv' /\ StateInv'
  <2>1. pc \in {"flush", "state"} => late /\ ~IsRead
    BY <1>1, DsmOn DEF IInv, FlushInv, StateInv
  <2> QED BY <1>1, <1>4, <2>1 DEF FlushInv, StateInv
<1>15. OkInv'
  <2>1. pc = "idle" /\ status = "OK" => todo = 0
    BY DEF IInv, OkInv
  <2> QED BY <1>1, <2>1, DsmOn DEF OkInv
<1> QED
  BY <1>6, <1>7, <1>9, <1>10, <1>11, <1>13, <1>14, <1>15 DEF IInv

(* The channel of an earlier call takes some words, or nothing happens. *)
LEMMA AstrayStep ==
  ASSUME IInv, astray' \in BOOLEAN,
         astray' => astray \/ (request /\ channel \in {"read", "write"}),
         UNCHANGED <<transmode, transend, transerror, stopcondition, pc, op, k, status, isr, stat,
                     inten, cmd, rsp, dsm, left, request, channel, ftf, todo, card, illegal, faults,
                     bad, late, failed>>
  PROVE  IInv'
<1>1. /\ Commands' = Commands /\ (IsRead' <=> IsRead) /\ (IsMulti' <=> IsMulti) /\ Count' = Count
      /\ Started' = Started /\ Finished' = Finished /\ (Over' <=> Over)
  BY OpSame DEF Over
<1>2. /\ (Quiet' <=> Quiet) /\ (Accepted' <=> Accepted)
      /\ \A c : (Asked(c)' <=> Asked(c)) /\ (Heard(c)' <=> Heard(c))
  BY SameAnswer
<1>3. (Moving' <=> Moving) /\ (Stopping' <=> Stopping)
  BY <1>1, <1>2 DEF Moving, Stopping
<1>4. TypeOK' /\ RestOK'
  BY <1>1 DEF IInv, TypeOK, RestOK
<1>5. DsmInv' /\ SignalInv' /\ StrayInv' /\ EntryInv'
  BY <1>1 DEF IInv, DsmInv, SignalInv, StrayInv, EntryInv
<1>6. ModeInv' /\ FtfInv' /\ OkInv'
  BY <1>1 DEF IInv, ModeInv, FtfInv, OkInv
<1>7. ChannelInv'
  <2>1. request /\ channel \in {"read", "write"} => pc = "enter" \/ (failed /\ op # "write1")
    BY DEF IInv, CommandInv, ChannelInv, Armed
  <2> QED BY <2>1 DEF IInv, ChannelInv, Armed
<1>8. CommandInv'
  BY <1>1, <1>2 DEF IInv, CommandInv
<1>9. PollInv' /\ StopInv' /\ EndInv'
  BY <1>1, <1>2, <1>3 DEF IInv, PollInv, StopInv, EndInv
<1>10. FlushInv' /\ StateInv'
  BY <1>1, <1>2 DEF IInv, FlushInv, StateInv
<1> QED
  BY <1>4, <1>5, <1>6, <1>7, <1>8, <1>9, <1>10 DEF IInv

-----------------------------------------------------------------------------
(* Every step of the calls, the interrupt, the card and the data path keeps  *)
(* the invariant.                                                            *)
LEMMA InvStep == IInv /\ [Next]_vars => IInv'
<1> SUFFICES ASSUME IInv, [Next]_vars PROVE IInv'
  OBVIOUS
<1>1. CASE \E o \in Ops : Begin(o)
  BY <1>1, BeginStep
<1>2. CASE Call
  BY <1>2, EnterStep, FailedStep, NotReadyStep, NextStep, StartStep, ArmStep, WaitStep,
     PollStep, StoppedStep, FlushStep, StateStep DEF Call
<1>3. CASE Interrupt
  BY <1>3, IsrStopStep, IsrStoppedStep, IsrEndStep, IsrErrorStep, IsrStormStep DEF Interrupt
<1>4. CASE card_answers \/ card_fails
  BY <1>4, AnswerStep
<1>5. CASE card_done
  BY <1>5, CardDoneStep
<1>6. CASE dsm_data
  BY <1>6, DataStep
<1>7. CASE dsm_crc
  BY <1>7, CrcStep
<1>8. CASE dsm_fails
  BY <1>8, FailStep
<1>9. CASE dma_astray
  <2>1. /\ request /\ channel \in {"read", "write"} /\ astray' = TRUE
        /\ UNCHANGED <<transmode, transend, transerror, stopcondition, pc, op, k, status, isr, stat,
                       inten, cmd, rsp, dsm, left, request, channel, ftf, todo, card, illegal,
                       faults, bad, late, failed>>
    BY <1>9 DEF dma_astray, flags, call, bus, path, medium
  <2> QED BY <2>1, AstrayStep
<1>10. CASE UNCHANGED vars
  <2>1. /\ UNCHANGED astray
        /\ UNCHANGED <<transmode, transend, transerror, stopcondition, pc, op, k, status, isr, stat,
                       inten, cmd, rsp, dsm, left, request, channel, ftf, todo, card, illegal,
                       faults, bad, late, failed>>
    BY <1>10 DEF vars, flags, call, bus, path, medium, history
  <2>2. astray' \in BOOLEAN
    BY <2>1 DEF IInv, RestOK
  <2> QED BY <2>1, <2>2, AstrayStep
<1> QED
  BY <1>1, <1>2, <1>3, <1>4, <1>5, <1>6, <1>7, <1>8, <1>9, <1>10 DEF Next, Hardware

(* The invariant holds at every step of sdcard.c, with any number of blocks  *)
(* and of failures of the card and the bus.                                  *)
THEOREM Invariant == Spec => []IInv
<1>1. Init => IInv
  BY InitInv
<1>2. IInv /\ [Next]_vars => IInv'
  BY InvStep
<1> QED BY <1>1, <1>2, PTL DEF Spec

(* A transfer function that returned SD_OK is done with the caller's buffer: *)
(* every block has been moved and the channel is off; no word went through   *)
(* the buffer of an earlier call, unless the call before failed and the      *)
(* function is not sd_block_write.  The buffer of a call that timed out is   *)
(* served in the next call only before sdio_dma_disable and between          *)
(* sdio_dma_enable and the configuration of the channel.                     *)
THEOREM OkGivesBuffer == Spec => []CardInv
<1>1. IInv => CardInv
  <2> SUFFICES ASSUME IInv PROVE CardInv
    OBVIOUS
  <2>1. TypeOK
    BY DEF IInv
  <2>2. OkMeansMoved
    BY DEF IInv, OkInv, ChannelInv, OkMeansMoved
  <2>3. OldBuffer
    <3> SUFFICES ASSUME request, channel \in {"read", "write"}
                 PROVE  failed /\ (pc = "enter" \/ (pc = "config" /\ op # "write1"))
      BY DEF OldBuffer
    <3>1. pc \in {"enter", "r1", "enable", "config"}
      BY DEF IInv, ChannelInv
    <3>2. pc \notin {"r1", "enable"} /\ ~(pc = "config" /\ op = "write1")
      BY DEF IInv, CommandInv, ChannelInv
    <3>3. failed
      BY <3>1, <3>2 DEF IInv, ChannelInv, Armed
    <3> QED BY <3>1, <3>2, <3>3
  <2> QED BY <2>1, <2>2, <2>3 DEF CardInv
<1> QED BY <1>1, Invariant, PTL

(* SD_OK means that the transfer is over: no error, the DSM off and the card *)
(* back in its transfer state, but for a single-block read by DMA and for a  *)
(* late interrupt of an earlier call.                                        *)
THEOREM OkIsTruth == Spec => []OkMeansDone
<1>1. IInv => OkMeansDone
  BY DEF IInv, OkInv, OkMeansDone, Over
<1> QED BY <1>1, Invariant, PTL

(* The interrupt sends its CMD12 only while no command of a call is on its   *)
(* way, unless it is late.                                                   *)
THEOREM CommandsApart == Spec => NoCollision
<1>1. IInv /\ [Next]_vars
        => [isr = "none" /\ isr' = "stop" => late \/ pc \notin {"r1", "stop", "state"}]_vars
  <2> SUFFICES ASSUME IInv, Next, isr = "none", isr' = "stop"
               PROVE  late \/ pc \notin {"r1", "stop", "state"}
    OBVIOUS
  <2>1. isr_stop
    <3>1. \/ isr_stop \/ isr' = isr \/ isr' = "none"
      BY DEF Next, Call, Interrupt, Hardware, Begin, enter, command_failed, card_not_ready,
         next_command, start_data, sdio_dma_enable, dma_config, ftf_seen, ftf_timeout, end_seen,
         poll_error, poll_done, poll_stopped, flush, card_state, isr_stopped, isr_end, isr_error,
         isr_storm,
         card_answers, card_fails, card_done, dsm_data, dsm_crc, dsm_fails, dma_astray
    <3> QED BY <3>1
  <2>2. Pending /\ "DTEND" \in stat
    BY <2>1 DEF isr_stop
  <2> QED BY <2>2, EndInterrupts
<1> QED BY <1>1, Invariant, PTL DEF Spec, NoCollision
=============================================================================
