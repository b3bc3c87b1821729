------------------------------- MODULE SdCard -------------------------------
(***************************************************************************)
(* The transfer functions of the SD card driver (user/sys/sdcard.c):       *)
(* sd_block_read, sd_multiblocks_read, sd_block_write and                  *)
(* sd_multiblocks_write in polling and in DMA mode, the SDIO interrupt,    *)
(* the card's answers, the data path state machine (DSM) and the DMA.      *)
(*                                                                         *)
(* A command is its number.  Data are counted in blocks.  The caller, a    *)
(* FatFs disk_read or disk_write, makes one call at a time with a valid    *)
(* buffer and block size.  An answer whose CRC is right is the answer to   *)
(* the command that was sent, and the DSM stops at an error without DTEND. *)
(* The SDIO is the flow controller of its DMA channel: the channel ends,   *)
(* and raises FTF, with the last word of the transfer.                     *)
(***************************************************************************)
EXTENDS Naturals, Sequences

CONSTANTS
  Blocks,      \* blocksnumber of a multi-block call
  MaxFaults    \* bound on the failures of card and bus

ASSUME SdAssumption == Blocks \in Nat \ {0, 1} /\ MaxFaults \in Nat

VARIABLES
  transmode,               \* "dma" or "poll"
  transend, transerror, stopcondition,
  pc, op, k, status,       \* the call: position, function, command, result
  isr,                     \* the SDIO interrupt: none, or in sd_transfer_stop
  stat, inten,             \* SDIO_STAT, SDIO_INTEN
  cmd, rsp,                \* command in flight (0: none), last response
  dsm, left,               \* DSM: off, moving data or awaiting the CRC; DTCNT
  request,                 \* the SDIO asks for DMA (SDIO_DATACTL)
  channel,                 \* DMA1_CH3: off, at the buffer of this call ("own"), or
                           \* still at that of an earlier "read" or "write"
  ftf, todo,               \* FTF of the channel, blocks that are still to be moved
  card, illegal,           \* state of the card, its ILLEGAL_COMMAND bit
  faults,                  \* number of failures so far
  bad,                     \* history: the data of this call met an error
  late,                    \* history: interrupt between transend = 0 and DSM off
  failed,                  \* history: the call before this one failed
  astray                   \* history: words of this call's transfer have gone through
                           \* the buffer of an earlier call

flags == <<transend, transerror, stopcondition>>
call == <<pc, op, k, status>>
bus == <<stat, inten, cmd, rsp>>
path == <<dsm, left, request, channel, ftf, todo>>
medium == <<card, illegal>>
history == <<bad, late, failed, astray>>
vars == <<transmode, flags, call, isr, bus, path, medium, faults, history>>

Ops == {"read1", "readn", "write1", "writen"}
IsRead == op \in {"read1", "readn"}
IsMulti == op \in {"readn", "writen"}
Count == IF IsMulti THEN Blocks ELSE 1

(* The commands that each function sends before the data. *)
Commands ==
  [read1  |-> <<16, 17>>,     readn  |-> <<16, 18>>,
   write1 |-> <<16, 13, 24>>, writen |-> <<16, 13, 55, 23, 25>>][op]

CmdFlags == {"CCRCERR", "CMDTMOUT", "CMDRECV"}
DataErrors == {"DTCRCERR", "DTTMOUT", "STBITE", "TXURE", "RXORE"}
(* the interrupts that sd_interrupts_process disables; it leaves CCRCERR *)
Handled == DataErrors \cup {"DTEND"}

Init ==
  /\ transmode \in {"poll", "dma"}
  /\ transend = 0 /\ transerror = "OK" /\ stopcondition = 0
  /\ pc = "idle" /\ op = "read1" /\ k = 1 /\ status = "none"
  /\ isr = "none" /\ stat = {} /\ inten = {}
  /\ cmd = 0 /\ rsp = [idx |-> 0, bits |-> "ok", state |-> "tran"]
  /\ dsm = "off" /\ left = 0 /\ request = FALSE /\ channel = "off" /\ ftf = FALSE /\ todo = 0
  /\ card = "tran" /\ illegal = FALSE /\ faults = 0
  /\ bad = FALSE /\ late = FALSE /\ failed = FALSE /\ astray = FALSE

-----------------------------------------------------------------------------
(* The interrupt preempts the calling context as soon as it is pending. *)
Pending == stat \cap inten # {}
Running(label) == pc = label /\ isr = "none" /\ ~Pending

Return(s) == pc' = "idle" /\ status' = s /\ UNCHANGED <<op, k>>
Goto(label) == pc' = label /\ UNCHANGED <<op, k, status>>
Send(c) == cmd' = c /\ UNCHANGED rsp

(* r1_error_check: the order of the tests, the status and the flags cleared *)
R1(c) ==
  CASE "CCRCERR" \in stat -> "CMD_CRC_ERROR"
    [] "CMDTMOUT" \in stat /\ "CCRCERR" \notin stat -> "CMD_RESP_TIMEOUT"
    [] OTHER -> IF rsp.idx # c THEN "ILLEGAL_COMMAND"
                ELSE IF rsp.bits = "error" THEN "R1_ERROR" ELSE "OK"

Cleared(c) ==
  CASE "CCRCERR" \in stat -> {"CCRCERR"}
    [] "CMDTMOUT" \in stat /\ "CCRCERR" \notin stat -> {"CMDTMOUT"}
    [] OTHER -> IF rsp.idx # c THEN {} ELSE stat

Answered == stat \cap CmdFlags # {}
r1_error_check(c) == Answered /\ stat' = stat \ Cleared(c)

Direction == IF IsRead THEN "read" ELSE "write"

(* A function is called: transerror and transend are reset first.  A channel *)
(* that the call before has left enabled is still at that call's buffer.     *)
Begin(o) ==
  /\ Running("idle")
  /\ op' = o /\ k' = 1 /\ status' = "none" /\ pc' = "enter"
  /\ transerror' = "OK" /\ transend' = 0
  /\ channel' = IF channel = "own" THEN Direction ELSE channel
  /\ late' = (late /\ cmd # 0) /\ failed' = (status \notin {"OK", "none"})
  /\ UNCHANGED <<transmode, stopcondition, isr, bus, dsm, left, request, ftf, todo, medium,
                 faults, bad, astray>>

(* Then the DSM and the DMA request are switched off, not the channel; the   *)
(* card may be found locked, and CMD16 is sent.                              *)
enter ==
  /\ Running("enter")
  /\ dsm' = "off" /\ left' = 0 /\ request' = FALSE
  /\ todo' = Count /\ bad' = FALSE /\ astray' = FALSE
  /\ IF rsp.bits = "locked"
     THEN Return("LOCK_UNLOCK_FAILED") /\ UNCHANGED <<cmd, rsp>>
     ELSE Goto("r1") /\ Send(16)
  /\ UNCHANGED <<transmode, flags, isr, stat, inten, channel, ftf, medium, faults, late, failed>>

(* The DSM is configured and enabled: before the command of a read, after    *)
(* the command of a write.                                                   *)
DsmEnable ==
  /\ dsm' = "data" /\ left' = Count
  /\ stopcondition' = IF IsMulti THEN 1 ELSE 0

(* r1_error_check of the command in flight failed: the function returns. *)
command_failed ==
  /\ Running("r1")
  /\ r1_error_check(Commands[k])
  /\ R1(Commands[k]) # "OK"
  /\ Return(R1(Commands[k]))
  /\ UNCHANGED <<transmode, flags, isr, inten, cmd, rsp, path, medium, faults, history>>

(* The card is not ready for data: sd_block_write asks again, or gives up    *)
(* when its retries are used up.                                             *)
NotReady == op = "write1" /\ Commands[k] = 13 /\ rsp.bits = "busy"

card_not_ready ==
  /\ Running("r1")
  /\ r1_error_check(Commands[k])
  /\ R1(Commands[k]) = "OK" /\ NotReady
  /\ \/ Send(13) /\ UNCHANGED call
     \/ Return("ERROR") /\ UNCHANGED <<cmd, rsp>>
  /\ UNCHANGED <<transmode, flags, isr, inten, path, medium, faults, history>>

(* It succeeded and the next command is sent. *)
next_command ==
  /\ Running("r1")
  /\ r1_error_check(Commands[k])
  /\ R1(Commands[k]) = "OK" /\ ~NotReady
  /\ k < Len(Commands)
  /\ k' = k + 1
  /\ Send(Commands[k + 1])
  /\ IF IsRead THEN DsmEnable ELSE UNCHANGED <<dsm, left, stopcondition>>
  /\ UNCHANGED <<transmode, transend, transerror, pc, op, status, isr, inten, request, channel,
                 ftf, todo, medium, faults, history>>

(* mutant: the end of the data does not interrupt *)
IntEnableWithoutEnd ==
  inten \cup {"DTTMOUT", "STBITE"}
        \cup {IF IsRead THEN "RXORE" ELSE "TXURE"}
        \cup {IF op = "read1" THEN "CCRCERR" ELSE "DTCRCERR"}

(* The interrupts that the function enables: sd_block_read names CCRCERR     *)
(* where the others name DTCRCERR.                                           *)
IntEnable ==
  inten \cup {"DTTMOUT", "STBITE", "DTEND"}
        \cup {IF IsRead THEN "RXORE" ELSE "TXURE"}
        \cup {IF op = "read1" THEN "CCRCERR" ELSE "DTCRCERR"}

(* It was the last one: the data are read or written by the polling loop, or *)
(* the interrupts are enabled.                                               *)
start_data ==
  /\ Running("r1")
  /\ r1_error_check(Commands[k])
  /\ R1(Commands[k]) = "OK" /\ ~NotReady
  /\ k = Len(Commands)
  /\ IF IsRead THEN UNCHANGED <<dsm, left, stopcondition>> ELSE DsmEnable
  /\ IF transmode = "poll"
     THEN Goto("poll") /\ UNCHANGED inten
     ELSE Goto(IF op = "write1" THEN "config" ELSE "enable") /\ inten' = IntEnable
  /\ UNCHANGED <<transmode, transend, transerror, isr, cmd, rsp, request, channel, ftf, todo,
                 medium, faults, history>>

(* Then the DMA: sd_block_write configures the channel before it enables the *)
(* request, the others enable the request first.                             *)
sdio_dma_enable ==
  /\ Running("enable")
  /\ request' = TRUE
  /\ Goto(IF op = "write1" THEN "ftf" ELSE "config")
  /\ UNCHANGED <<transmode, flags, isr, bus, dsm, left, channel, ftf, todo, medium, faults,
                 history>>

(* mutant: FTF of an earlier transfer is not cleared *)
ConfigKeepsFtf ==
  /\ Running("config")
  /\ channel' = "own"
  /\ Goto(IF op = "write1" THEN "enable" ELSE "ftf")
  /\ UNCHANGED <<transmode, flags, isr, bus, dsm, left, request, ftf, todo, medium, faults,
                 history>>

(* dma_transfer_config and dma_receive_config: the channel is disabled, its  *)
(* flags are cleared (by dma_deinit also what came up to then), and it is    *)
(* enabled again at the buffer of this call.                                 *)
dma_config ==
  /\ Running("config")
  /\ ftf' = FALSE /\ channel' = "own"
  /\ Goto(IF op = "write1" THEN "enable" ELSE "ftf")
  /\ UNCHANGED <<transmode, flags, isr, bus, dsm, left, request, todo, medium, faults, history>>

-----------------------------------------------------------------------------
(* The DMA has moved everything: sd_block_read returns, the others wait for  *)
(* the end of the transfer.                                                  *)
ftf_seen ==
  /\ Running("ftf")
  /\ ftf
  /\ IF op = "read1" THEN Return("OK") ELSE Goto("end")
  /\ UNCHANGED <<transmode, flags, isr, bus, path, medium, faults, history>>

(* The wait for FTF is bounded by a count; the request, the channel and the  *)
(* interrupts stay on.                                                       *)
ftf_timeout ==
  /\ Running("ftf")
  /\ ~ftf
  /\ Return("ERROR")
  /\ UNCHANGED <<transmode, flags, isr, bus, path, medium, faults, history>>

(* mutant: the error of the transfer is not looked at *)
EndIgnoresError ==
  /\ Running("end")
  /\ transend = 1 \/ transerror # "OK"
  /\ IF op = "readn" THEN Return("OK") ELSE Goto("flush")
  /\ UNCHANGED <<transmode, flags, isr, bus, path, medium, faults, history>>

(* mutant: sd_multiblocks_write does not wait for the end *)
EndNotAwaited ==
  /\ Running("end")
  /\ transend = 1 \/ transerror # "OK" \/ op = "writen"
  /\ CASE transerror # "OK" -> Return(transerror)
       [] transerror = "OK" /\ op = "readn" -> Return("OK")
       [] OTHER -> Goto("flush")
  /\ UNCHANGED <<transmode, flags, isr, bus, path, medium, faults, history>>

(* The wait for transend or transerror. *)
end_seen ==
  /\ Running("end")
  /\ transend = 1 \/ transerror # "OK"
  /\ CASE transerror # "OK" -> Return(transerror)
       [] transerror = "OK" /\ op = "readn" -> Return("OK")
       [] OTHER -> Goto("flush")
  /\ UNCHANGED <<transmode, flags, isr, bus, path, medium, faults, history>>

(* The polling loop ends with an error, which is returned and cleared, or    *)
(* with the last block; then multi-block calls send CMD12.                   *)
PollErrors ==
  <<"DTCRCERR", "DTTMOUT", IF IsRead THEN "RXORE" ELSE "TXURE", "STBITE">>
First(s) == s[CHOOSE i \in DOMAIN s : s[i] \in stat /\ \A j \in 1 .. i - 1 : s[j] \notin stat]
AnyOf(s) == \E i \in DOMAIN s : s[i] \in stat

poll_error ==
  /\ Running("poll")
  /\ AnyOf(PollErrors)
  /\ Return(First(PollErrors))
  /\ stat' = stat \ {First(PollErrors)}
  /\ UNCHANGED <<transmode, flags, isr, inten, cmd, rsp, path, medium, faults, history>>

poll_done ==
  /\ Running("poll")
  /\ ~AnyOf(PollErrors)
  /\ (IF IsMulti THEN "DTEND" ELSE "DTBLKEND") \in stat
  /\ CASE IsMulti -> Goto("stop") /\ Send(12) /\ UNCHANGED stat
       [] op = "read1" -> Return("OK") /\ stat' = {} /\ UNCHANGED <<cmd, rsp>>
       [] op = "write1" -> Goto("flush") /\ UNCHANGED <<stat, cmd, rsp>>
  /\ UNCHANGED <<transmode, flags, isr, inten, path, medium, faults, history>>

poll_stopped ==
  /\ Running("stop")
  /\ Answered
  /\ IF R1(12) = "OK"
     THEN stat' = {} /\ (IF IsRead THEN Return("OK") ELSE Goto("flush"))
     ELSE r1_error_check(12) /\ Return(R1(12))
  /\ UNCHANGED <<transmode, flags, isr, inten, cmd, rsp, path, medium, faults, history>>

(* A write ends by asking for the card's state (sd_card_state_get) until it  *)
(* is neither receiving nor programming.                                     *)
flush ==
  /\ Running("flush")
  /\ stat' = {}
  /\ Send(13)
  /\ Goto("state")
  /\ UNCHANGED <<transmode, flags, isr, inten, path, medium, faults, history>>

card_state ==
  /\ Running("state")
  /\ r1_error_check(13)
  /\ IF R1(13) = "OK" /\ rsp.state \in {"prg", "rcv1", "rcv"}
     THEN Send(13) /\ UNCHANGED call
     ELSE Return(R1(13)) /\ UNCHANGED <<cmd, rsp>>
  /\ UNCHANGED <<transmode, flags, isr, inten, path, medium, faults, history>>

-----------------------------------------------------------------------------
(* sd_interrupts_process.  DTEND comes first: CMD12 for a multi-block call,  *)
(* then the interrupts are disabled and transend is set.                     *)
isr_stop ==
  /\ isr = "none" /\ Pending
  /\ "DTEND" \in stat /\ stopcondition = 1
  /\ transerror' = "OK"
  /\ Send(12)
  /\ isr' = "stop"
  /\ late' = (late \/ pc = "enter")
  /\ UNCHANGED <<transmode, transend, stopcondition, call, stat, inten, path, medium,
                 faults, bad, failed, astray>>

isr_stopped ==
  /\ isr = "stop"
  /\ Answered
  /\ transerror' = R1(12)
  /\ stat' = (stat \ Cleared(12)) \ {"DTEND"}
  /\ inten' = inten \ Handled
  /\ transend' = 1
  /\ isr' = "none"
  /\ UNCHANGED <<transmode, stopcondition, call, cmd, rsp, path, medium, faults, history>>

isr_end ==
  /\ isr = "none" /\ Pending
  /\ "DTEND" \in stat /\ stopcondition = 0
  /\ transerror' = "OK" /\ transend' = 1
  /\ stat' = stat \ {"DTEND"} /\ inten' = inten \ Handled
  /\ late' = (late \/ pc = "enter")
  /\ UNCHANGED <<transmode, stopcondition, call, isr, cmd, rsp, path, medium,
                 faults, bad, failed, astray>>

IsrErrors == <<"DTCRCERR", "DTTMOUT", "STBITE", "TXURE", "RXORE">>

isr_error ==
  /\ isr = "none" /\ Pending
  /\ "DTEND" \notin stat /\ AnyOf(IsrErrors)
  /\ transerror' = First(IsrErrors)
  /\ stat' = stat \ {First(IsrErrors)} /\ inten' = inten \ Handled
  /\ late' = (late \/ pc = "enter")
  /\ UNCHANGED <<transmode, transend, stopcondition, call, isr, cmd, rsp, path, medium,
                 faults, bad, failed, astray>>

(* CCRCERR alone: nothing is cleared or disabled, the interrupt comes again. *)
Storm == isr = "none" /\ Pending /\ stat \cap Handled = {}

isr_storm ==
  /\ Storm
  /\ transerror' = "OK"
  /\ UNCHANGED <<transmode, transend, stopcondition, call, isr, bus, path, medium, faults, history>>

-----------------------------------------------------------------------------
(* The card (external).  A command that its state does not allow is not      *)
(* answered and marked in the next response.                                 *)
Legal(c) ==
  CASE c = 12 -> card \in {"data1", "data", "rcv1", "rcv"}
    [] c \in {13, 55} -> TRUE
    [] OTHER -> card = "tran"

After(c) ==
  CASE c = 12 -> IF card \in {"rcv1", "rcv"} THEN "prg" ELSE "tran"
    [] c = 17 -> "data1" [] c = 18 -> "data"
    [] c = 24 -> "rcv1"  [] c = 25 -> "rcv"
    [] OTHER -> card

Respond(bits) ==
  /\ stat' = stat \cup {"CMDRECV"}
  /\ rsp' = [idx |-> cmd, bits |-> bits, state |-> card]
  /\ illegal' = FALSE

card_answers ==
  /\ cmd # 0 /\ cmd' = 0
  /\ IF Legal(cmd)
     THEN Respond(IF illegal THEN "error" ELSE "ok") /\ card' = After(cmd)
     ELSE /\ stat' = stat \cup {"CMDTMOUT"} /\ illegal' = TRUE
          /\ UNCHANGED <<rsp, card>>
  /\ UNCHANGED <<transmode, flags, call, isr, inten, path, faults, history>>

Lost(executed) ==
  /\ stat' = stat \cup {"CMDTMOUT"}
  /\ card' = IF executed THEN After(cmd) ELSE card
  /\ UNCHANGED <<rsp, illegal>>

Garbled ==
  /\ stat' = stat \cup {"CCRCERR"}
  /\ card' = After(cmd)
  /\ UNCHANGED <<rsp, illegal>>

(* A command or its answer is lost or garbled, or the card answers with an   *)
(* error, as not ready or as locked.                                         *)
card_fails ==
  /\ cmd # 0 /\ cmd' = 0 /\ Legal(cmd)
  /\ faults < MaxFaults /\ faults' = faults + 1
  /\ \/ \E executed \in BOOLEAN : Lost(executed)
     \/ Garbled
     \/ Respond("error") /\ UNCHANGED card
     \/ \E bits \in {"busy", "locked"} : Respond(bits) /\ card' = After(cmd)
  /\ UNCHANGED <<transmode, flags, call, isr, inten, path, history>>

(* The card has programmed what it received, or sent its single block. *)
card_done ==
  /\ card = "prg" \/ (card = "data1" /\ dsm = "off")
  /\ card' = "tran"
  /\ UNCHANGED <<transmode, flags, call, isr, bus, path, illegal, faults, history>>

(* The data path (external): a block is moved through the FIFO by the        *)
(* polling loop, or by a channel that is enabled in the direction of the     *)
(* DSM: the one of this call, or one that an earlier call has left (whose    *)
(* transfer it still is before "enter").  Then its CRC is checked.           *)
OnTheLine == card \in {"data1", "data", "rcv1", "rcv"}
Served == request /\ (channel \in {"own", Direction} \/ (pc = "enter" /\ channel # "off"))

dsm_data ==
  /\ dsm = "data" /\ OnTheLine
  /\ Served \/ pc = "poll"
  /\ dsm' = "crc" /\ todo' = todo - 1
  /\ IF Served /\ todo = 1 THEN ftf' = TRUE /\ channel' = "off" ELSE UNCHANGED <<ftf, channel>>
  /\ astray' = (astray \/ (Served /\ channel # "own"))
  /\ UNCHANGED <<transmode, flags, call, isr, bus, left, request, medium, faults, bad, late,
                 failed>>

(* A channel that an earlier call has left at its buffer moves some words,   *)
(* in its own direction, and no whole block.                                 *)
dma_astray ==
  /\ dsm = "data" /\ OnTheLine
  /\ request /\ channel \in {"read", "write"}
  /\ astray' = TRUE
  /\ UNCHANGED <<transmode, flags, call, isr, bus, path, medium, faults, bad, late, failed>>

dsm_crc ==
  /\ dsm = "crc"
  /\ left' = left - 1
  /\ dsm' = IF left = 1 THEN "off" ELSE "data"
  /\ stat' = stat \cup {"DTBLKEND"} \cup (IF left = 1 THEN {"DTEND"} ELSE {})
  /\ card' = CASE card = "data1" -> "tran" [] card = "rcv1" -> "prg" [] OTHER -> card
  /\ UNCHANGED <<transmode, flags, call, isr, inten, cmd, rsp, request, channel, ftf, todo,
                 illegal, faults, history>>

dsm_fails ==
  /\ dsm # "off"
  /\ faults < MaxFaults /\ faults' = faults + 1
  /\ \E e \in IF dsm = "crc" THEN {"DTCRCERR"} ELSE DataErrors \ {"DTCRCERR"} :
       stat' = stat \cup {e}
  /\ dsm' = "off" /\ bad' = TRUE
  /\ card' = IF card = "rcv1" THEN "tran" ELSE card
  /\ UNCHANGED <<transmode, flags, call, isr, inten, cmd, rsp, left, request, channel, ftf,
                 todo, illegal, late, failed, astray>>

-----------------------------------------------------------------------------
Call ==
  \/ enter \/ command_failed \/ card_not_ready \/ next_command \/ start_data
  \/ sdio_dma_enable \/ dma_config
  \/ ftf_seen \/ ftf_timeout \/ end_seen
  \/ poll_error \/ poll_done \/ poll_stopped \/ flush \/ card_state
Interrupt == isr_stop \/ isr_stopped \/ isr_end \/ isr_error \/ isr_storm
Hardware == card_answers \/ card_done \/ dsm_data \/ dsm_crc \/ dma_astray

Next ==
  \/ \E o \in Ops : Begin(o)
  \/ Call \/ Interrupt \/ Hardware \/ card_fails \/ dsm_fails

(* A function that was called goes on, the interrupt is taken, and the card, *)
(* the DSM and the DMA do their work.                                        *)
Spec ==
  /\ Init /\ [][Next]_vars
  /\ WF_vars(Call) /\ WF_vars(Interrupt)
  /\ WF_vars(card_answers) /\ WF_vars(card_done)
  /\ WF_vars(dsm_data) /\ WF_vars(dsm_crc)

-----------------------------------------------------------------------------
CardStates == {"tran", "data1", "data", "rcv1", "rcv", "prg"}
Flags == CmdFlags \cup Handled \cup {"DTBLKEND"}

(* The driver's flags, the registers it uses and the card have their types. *)
TypeOK ==
  /\ transmode \in {"poll", "dma"} /\ transend \in {0, 1} /\ stopcondition \in {0, 1}
  /\ transerror \in DataErrors \cup {"OK", "CMD_CRC_ERROR", "CMD_RESP_TIMEOUT",
                                      "ILLEGAL_COMMAND", "R1_ERROR"}
  /\ pc \in {"idle", "enter", "r1", "enable", "config", "ftf", "end", "poll", "stop", "flush",
             "state"}
  /\ op \in Ops /\ k \in 1 .. Len(Commands) /\ isr \in {"none", "stop"}
  /\ stat \subseteq Flags /\ inten \subseteq Flags
  /\ dsm \in {"off", "data", "crc"} /\ left \in 0 .. Blocks /\ todo \in 0 .. Blocks
  /\ request \in BOOLEAN /\ channel \in {"off", "own", "read", "write"} /\ ftf \in BOOLEAN
  /\ card \in CardStates /\ illegal \in BOOLEAN

(* A function that returned SD_OK is done with the caller's buffer: every    *)
(* block has been moved and the channel is off.  All of it has gone through  *)
(* this buffer, unless the call before failed; and after a failed call       *)
(* sd_block_write, which configures the channel first, still keeps to it.    *)
OkMeansMoved ==
  pc = "idle" /\ status = "OK" =>
    todo = 0 /\ channel = "off" /\ (astray => failed /\ op # "write1")

(* A buffer that a failed call has left to the DMA is served until the next  *)
(* call switches the request off, and again from where that call enables the *)
(* request to where it configures the channel: never in sd_block_write, and  *)
(* never after a call that returned SD_OK.                                   *)
OldBuffer ==
  request /\ channel \in {"read", "write"} =>
    failed /\ (pc = "enter" \/ (pc = "config" /\ op # "write1"))

(* Flags, block counts and states of sdcard.c and its hardware are in range, *)
(* SD_OK gives the caller's buffer back, and the buffer of a call that timed *)
(* out is touched in a later call only in the window that three of the four  *)
(* functions open.                                                           *)
CardInv == TypeOK /\ OkMeansMoved /\ OldBuffer

(* SD_OK means that the transfer is over: no block met an error, the DSM has *)
(* stopped, and the card has left its sending, receiving and programming     *)
(* states, which for several blocks takes a CMD12 it accepted.  Two cases    *)
(* are excepted: sd_block_read in DMA mode does not wait for the end, and a  *)
(* late interrupt of an earlier call sets transend again before the DSM is   *)
(* switched off.                                                             *)
OkMeansDone ==
  pc = "idle" /\ status = "OK" /\ ~late /\ ~(op = "read1" /\ transmode = "dma")
    => ~bad /\ dsm = "off" /\ left = 0 /\ card = "tran"

(* The interrupt never sends its CMD12 into a command of the calling context *)
(* (there is one command register), whatever transfer a call that timed out  *)
(* left running; a late interrupt is again the exception.                    *)
NoCollision ==
  [][isr = "none" /\ isr' = "stop" => late \/ pc \notin {"r1", "stop", "state"}]_vars

(* Every call returns in the DMA mode that bsp_sd.c selects, although three  *)
(* of its four waits have no timeout, unless CCRCERR interrupts without end  *)
(* or a late interrupt has disturbed it.                                     *)
CallsReturn == transmode = "dma" => ((pc # "idle") ~> (pc = "idle" \/ Storm \/ late))

(* "data block sent/received (CRC check failed)" (sdcard.h:185): when a      *)
(* block does not pass its CRC check the caller is told so; a read that      *)
(* returned SD_OK has met no such error.                                     *)
ReadOkMeansGood == ~(pc = "idle" /\ op = "read1" /\ status = "OK" /\ "DTCRCERR" \in stat)
=============================================================================
