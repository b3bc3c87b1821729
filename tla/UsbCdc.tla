------------------------------- MODULE UsbCdc -------------------------------
(***************************************************************************)
(* The USB serial port: the main loop's cdc_acm_data_send_with_dtr_test    *)
(* and the callbacks of CherryUSB/demo/cdc_acm_template.c, with the        *)
(* endpoint functions of port/dwc2/usb_dc_dwc2.c and the requests of       *)
(* core/usbd_core.c that they rest on.                                     *)
(*                                                                         *)
(* The main program is preempted between any two of its accesses by        *)
(* USBD_IRQHandler, which has priority 0 and runs to its end: what the     *)
(* host does and the handler's answer to it are one action.  The control   *)
(* endpoint is left out: a request is handled when its SETUP packet comes. *)
(***************************************************************************)
EXTENDS Naturals

CONSTANTS
  MPS,   \* CDC_MAX_MPS, the packet size of the bulk endpoints and of TX FIFO 1
  Len    \* what the main loop sends, CDC_MAX_MPS - 1

ASSUME UsbAssumption == MPS \in Nat \ {0} /\ Len \in 1 .. MPS - 1

VARIABLES
  pc,               \* position of the main program
  loaded,           \* the DIEPCTL it loaded and has not stored back
  ep_tx_busy_flag, dtr_enable,
  ctl,              \* DIEPCTL of the IN endpoint; open: MPSIZ and USBAEP
  tsiz,             \* DIEPTSIZ of the IN endpoint
  empmsk,           \* its bit of DIEPEMPMSK
  daint,            \* its bit of DAINTMSK
  fifo,             \* bytes in TX FIFO 1
  in_ep,            \* g_dwc2_udc.in_ep[1]
  out_ctl,          \* DOEPCTL of the OUT endpoint
  configuration,    \* g_usbd_core.configuration
  plugged,          \* a host is on the bus
  spins,            \* dwc2_tx_fifo_empty_procecss is in its loop for ever
  taken,            \* history: the host took the bytes of the call
  touched,          \* history: SET_CONFIGURATION came during the call whose
                    \* transfer is on, or later
  selected,         \* history: SET_INTERFACE since the last SET_CONFIGURATION
  clobbered,        \* history: a stale DIEPCTL closed the configured endpoint
  raced             \* history: a reset after the check of MPSIZ and before xfer_len
                    \* was stored, or between the load and the store of DIEPCTL

registers == <<ctl, tsiz, empmsk, daint, fifo>>
bus == <<configuration, plugged, out_ctl>>
history == <<taken, touched, selected, clobbered, raced>>
main == <<pc, loaded>>
vars == <<main, ep_tx_busy_flag, dtr_enable, registers, in_ep, bus, spins, history>>

Closed == [open |-> FALSE, epena |-> FALSE, stall |-> FALSE]
NoEp == [ep_mps |-> 0, xfer_len |-> 0, actual |-> 0]

(* cdc_acm_init and usb_dc_init; then the main loop. *)
Init ==
  /\ pc = "check" /\ loaded = Closed
  /\ ep_tx_busy_flag = FALSE /\ dtr_enable = FALSE
  /\ ctl = Closed /\ tsiz = [pktcnt |-> 0, xfrsiz |-> 0]
  /\ empmsk = FALSE /\ daint = FALSE /\ fifo = 0
  /\ in_ep = NoEp
  /\ out_ctl = [open |-> FALSE, epena |-> FALSE]
  /\ configuration = 0 /\ plugged = FALSE
  /\ spins = FALSE
  /\ taken = FALSE /\ touched = FALSE /\ selected = FALSE
  /\ clobbered = FALSE /\ raced = FALSE

-----------------------------------------------------------------------------
(* The main program: cdc_acm_data_send_with_dtr_test with                    *)
(* usbd_ep_start_write, one action per access that the interrupt can see.    *)
Step(from, to) == ~spins /\ pc = from /\ pc' = to

send_check ==
  /\ Step("check", IF dtr_enable THEN "flag" ELSE "delay")
  /\ UNCHANGED <<loaded, ep_tx_busy_flag, dtr_enable, registers, in_ep, bus, spins, history>>

send_flag ==
  /\ Step("flag", "mpsiz")
  /\ ep_tx_busy_flag' = TRUE
  /\ taken' = FALSE /\ touched' = (touched /\ ctl.epena)
  /\ UNCHANGED <<loaded, dtr_enable, registers, in_ep, bus, spins, selected,
                 clobbered, raced>>

(* A closed endpoint is refused with -2, at which nobody looks. *)
start_write_mpsiz ==
  /\ Step("mpsiz", IF ctl.open THEN "xfer" ELSE "wait")
  /\ UNCHANGED <<loaded, ep_tx_busy_flag, dtr_enable, registers, in_ep, bus, spins, history>>

start_write_xfer ==
  /\ Step("xfer", "tsiz")
  /\ in_ep' = [in_ep EXCEPT !.xfer_len = Len, !.actual = 0]
  /\ UNCHANGED <<loaded, ep_tx_busy_flag, dtr_enable, registers, bus, spins, history>>

(* ep_mps is 0 after a reset, and the core divides by 0 with the result 0. *)
Packets == IF in_ep.ep_mps = 0 THEN 0 ELSE (Len + in_ep.ep_mps - 1) \div in_ep.ep_mps

start_write_tsiz ==
  /\ Step("tsiz", "load")
  /\ tsiz' = [pktcnt |-> Packets, xfrsiz |-> Len]
  /\ UNCHANGED <<loaded, ep_tx_busy_flag, dtr_enable, ctl, empmsk, daint, fifo, in_ep,
                 bus, spins, history>>

(* DIEPCTL |= CNAK | EPENA is a load and a store. *)
start_write_load ==
  /\ Step("load", "store")
  /\ loaded' = ctl
  /\ UNCHANGED <<ep_tx_busy_flag, dtr_enable, registers, in_ep, bus, spins, history>>

start_write_store ==
  /\ Step("store", "empmsk")
  /\ ctl' = [loaded EXCEPT !.epena = TRUE]
  /\ loaded' = Closed
  /\ clobbered' = (clobbered \/ (ctl.open /\ ~loaded.open))
  /\ UNCHANGED <<ep_tx_busy_flag, dtr_enable, tsiz, empmsk, daint, fifo, in_ep, bus, spins,
                 taken, touched, selected, raced>>

start_write_empmsk ==
  /\ Step("empmsk", "wait")
  /\ empmsk' = TRUE
  /\ UNCHANGED <<loaded, ep_tx_busy_flag, dtr_enable, ctl, tsiz, daint, fifo, in_ep, bus,
                 spins, history>>

(* mutant: the wait is left out *)
NoWait ==
  /\ Step("wait", "delay")
  /\ UNCHANGED <<loaded, ep_tx_busy_flag, dtr_enable, registers, in_ep, bus, spins, history>>

send_wait ==
  /\ ~ep_tx_busy_flag
  /\ Step("wait", "delay")
  /\ UNCHANGED <<loaded, ep_tx_busy_flag, dtr_enable, registers, in_ep, bus, spins, history>>

(* delay_ms(1000), then the loop starts again. *)
main_delay ==
  /\ Step("delay", "check")
  /\ UNCHANGED <<loaded, ep_tx_busy_flag, dtr_enable, registers, in_ep, bus, spins, history>>

Main ==
  \/ send_check \/ send_flag \/ start_write_mpsiz \/ start_write_xfer \/ start_write_tsiz
  \/ start_write_load \/ start_write_store \/ start_write_empmsk \/ send_wait \/ main_delay

-----------------------------------------------------------------------------
(* USBD_IRQHandler. *)

(* mutant: the reset forgets the packet size and keeps the transfer *)
ResetKeepsTransfer ==
  /\ ~spins
  /\ plugged' = TRUE
  /\ ctl' = Closed /\ tsiz' = [pktcnt |-> 0, xfrsiz |-> 0] /\ fifo' = 0
  /\ in_ep' = [in_ep EXCEPT !.ep_mps = 0]
  /\ out_ctl' = [open |-> FALSE, epena |-> FALSE]
  /\ configuration' = 0
  /\ raced' = (raced \/ pc = "xfer" \/ (pc = "store" /\ loaded.open))
  /\ UNCHANGED <<main, ep_tx_busy_flag, dtr_enable, empmsk, daint, spins, taken, touched,
                 selected, clobbered>>

(* The host resets the bus, perhaps after it was plugged in.  DIEPEMPMSK,    *)
(* DAINTMSK, the busy flag and DTR are left as they are.                     *)
isr_reset ==
  /\ ~spins
  /\ plugged' = TRUE
  /\ ctl' = Closed /\ tsiz' = [pktcnt |-> 0, xfrsiz |-> 0] /\ fifo' = 0
  /\ in_ep' = NoEp
  /\ out_ctl' = [open |-> FALSE, epena |-> FALSE]
  /\ configuration' = 0
  /\ raced' = (raced \/ pc = "xfer" \/ (pc = "store" /\ loaded.open))
  /\ UNCHANGED <<main, ep_tx_busy_flag, dtr_enable, empmsk, daint, spins, taken, touched,
                 selected, clobbered>>

(* mutant: a new configuration does not clear the busy flag *)
ConfiguredKeepsFlag == ep_tx_busy_flag' = ep_tx_busy_flag

(* usbd_event_handler at USBD_EVENT_CONFIGURED; its usbd_ep_start_read is    *)
(* in isr_set_configuration.                                                 *)
usbd_event_configured == ep_tx_busy_flag' = FALSE

(* A closed endpoint is refused with -2. *)
usbd_ep_start_read(out) == IF out.open THEN [out EXCEPT !.epena = TRUE] ELSE out

(* usbd_ep_open of the IN endpoint: an open endpoint's DIEPCTL is left as it *)
(* is, with the transfer that is on; its FIFO is flushed.                    *)
usbd_ep_open ==
  /\ in_ep' = [in_ep EXCEPT !.ep_mps = MPS]
  /\ daint' = TRUE
  /\ ctl' = [ctl EXCEPT !.open = TRUE]
  /\ fifo' = 0

(* SET_CONFIGURATION(1): both endpoints are opened, the first read started. *)
isr_set_configuration ==
  /\ ~spins /\ plugged
  /\ usbd_ep_open
  /\ out_ctl' = usbd_ep_start_read([out_ctl EXCEPT !.open = TRUE])
  /\ configuration' = 1
  /\ usbd_event_configured
  /\ touched' = TRUE /\ selected' = FALSE /\ clobbered' = FALSE
  /\ UNCHANGED <<main, dtr_enable, tsiz, empmsk, plugged, spins, taken, raced>>

(* SET_CONFIGURATION(0) closes nothing. *)
isr_unconfigure ==
  /\ ~spins /\ plugged
  /\ configuration' = 0
  /\ UNCHANGED <<main, ep_tx_busy_flag, dtr_enable, registers, in_ep, out_ctl, plugged,
                 spins, history>>

(* SET_CONTROL_LINE_STATE *)
usbd_cdc_acm_set_dtr(dtr) ==
  /\ ~spins /\ plugged /\ configuration = 1
  /\ dtr_enable' = dtr
  /\ UNCHANGED <<main, ep_tx_busy_flag, registers, in_ep, bus, spins, history>>

(* SET_FEATURE and CLEAR_FEATURE of ENDPOINT_HALT for the IN endpoint *)
isr_halt(stall) ==
  /\ ~spins /\ plugged /\ configuration = 1
  /\ ctl' = [ctl EXCEPT !.stall = stall]
  /\ UNCHANGED <<main, ep_tx_busy_flag, dtr_enable, tsiz, empmsk, daint, fifo, in_ep, bus,
                 spins, history>>

(* SET_INTERFACE(1, 0): usbd_set_interface closes the endpoints of           *)
(* alternate setting 0 and opens none.                                       *)
isr_set_interface ==
  /\ ~spins /\ plugged /\ configuration = 1
  /\ ctl' = Closed
  /\ daint' = FALSE
  /\ out_ctl' = [open |-> FALSE, epena |-> FALSE]
  /\ selected' = TRUE
  /\ UNCHANGED <<main, ep_tx_busy_flag, dtr_enable, tsiz, empmsk, fifo, in_ep,
                 configuration, plugged, spins, taken, touched, clobbered, raced>>

(* mutant: the bytes already written are taken for the ones that remain *)
ChunkOfActual == IF in_ep.actual < in_ep.xfer_len THEN in_ep.actual ELSE 0

(* TXFE: dwc2_tx_fifo_empty_procecss writes the next packet.  With ep_mps 0  *)
(* its loop writes 0 bytes at a time and does not end.                       *)
Chunk ==
  IF in_ep.actual < in_ep.xfer_len
  THEN IF in_ep.xfer_len - in_ep.actual > in_ep.ep_mps
       THEN in_ep.ep_mps ELSE in_ep.xfer_len - in_ep.actual
  ELSE 0

isr_tx_fifo_empty ==
  /\ ~spins /\ empmsk /\ daint /\ fifo = 0
  /\ spins' = (in_ep.ep_mps = 0 /\ in_ep.actual < in_ep.xfer_len)
  /\ in_ep' = [in_ep EXCEPT !.actual = @ + Chunk]
  /\ fifo' = Chunk
  /\ tsiz' = [tsiz EXCEPT !.xfrsiz = IF Chunk > @ THEN 0 ELSE @ - Chunk]
  /\ empmsk' = (in_ep'.actual < in_ep.xfer_len)
  /\ UNCHANGED <<main, ep_tx_busy_flag, dtr_enable, ctl, daint, bus, history>>

isr_spins == spins /\ UNCHANGED vars

(* mutant: the flag is cleared while the empty packet is on *)
ZlpNotAwaited(nbytes) ==
  /\ in_ep' = [in_ep EXCEPT !.xfer_len = 0, !.actual = 0]
  /\ tsiz' = [pktcnt |-> 1, xfrsiz |-> 0]
  /\ ep_tx_busy_flag' = FALSE
  /\ UNCHANGED ctl

(* usbd_cdc_acm_bulk_in: a transfer of whole packets is ended by an empty    *)
(* one, any other one is at its end.                                         *)
usbd_cdc_acm_bulk_in(nbytes) ==
  IF nbytes % MPS = 0 /\ nbytes # 0
  THEN /\ in_ep' = [in_ep EXCEPT !.xfer_len = 0, !.actual = 0]
       /\ tsiz' = [pktcnt |-> 1, xfrsiz |-> 0]
       /\ UNCHANGED <<ctl, ep_tx_busy_flag>>
  ELSE /\ ep_tx_busy_flag' = FALSE
       /\ in_ep' = [in_ep EXCEPT !.xfer_len = 0, !.actual = nbytes]
       /\ tsiz' = [tsiz EXCEPT !.pktcnt = 0]
       /\ ctl' = [ctl EXCEPT !.epena = FALSE]

(* The core sends the last packet of a transfer: what is in the FIFO, or     *)
(* nothing when no byte is due.                                              *)
PacketDue == fifo > 0 \/ tsiz.xfrsiz = 0

(* XFRC of the IN endpoint: the host polls and takes the packet. *)
isr_in_complete ==
  /\ ~spins /\ plugged /\ configuration = 1
  /\ ctl.open /\ ctl.epena /\ ~ctl.stall /\ tsiz.pktcnt = 1 /\ PacketDue
  /\ fifo' = 0
  /\ taken' = (taken \/ fifo = Len)
  /\ IF daint
     THEN usbd_cdc_acm_bulk_in(in_ep.xfer_len - tsiz.xfrsiz)
     ELSE /\ ctl' = [ctl EXCEPT !.epena = FALSE]
          /\ tsiz' = [tsiz EXCEPT !.pktcnt = 0]
          /\ UNCHANGED <<ep_tx_busy_flag, in_ep>>
  /\ UNCHANGED <<main, dtr_enable, empmsk, daint, bus, spins, touched, selected,
                 clobbered, raced>>

(* usbd_cdc_acm_bulk_out starts the next read; EPENA fell with the last one. *)
usbd_cdc_acm_bulk_out == out_ctl' = usbd_ep_start_read([out_ctl EXCEPT !.epena = FALSE])

(* XFRC of the OUT endpoint: the host sent a packet. *)
isr_out_complete ==
  /\ ~spins /\ plugged /\ configuration = 1 /\ out_ctl.epena
  /\ usbd_cdc_acm_bulk_out
  /\ UNCHANGED <<main, ep_tx_busy_flag, dtr_enable, registers, in_ep, configuration, plugged,
                 spins, history>>

(* The cable is pulled: the device is not told (external). *)
unplug ==
  /\ ~spins /\ plugged
  /\ plugged' = FALSE
  /\ UNCHANGED <<main, ep_tx_busy_flag, dtr_enable, registers, in_ep, configuration, out_ctl,
                 spins, history>>

USBD_IRQHandler ==
  \/ isr_reset \/ isr_set_configuration \/ isr_unconfigure
  \/ \E b \in BOOLEAN : usbd_cdc_acm_set_dtr(b) \/ isr_halt(b)
  \/ isr_set_interface \/ isr_tx_fifo_empty \/ isr_spins
  \/ isr_in_complete \/ isr_out_complete

Next == Main \/ USBD_IRQHandler \/ unplug

(* The main loop runs, an interrupt that is pending is taken, and a host     *)
(* that has configured the device goes on polling its IN endpoint.           *)
Spec ==
  /\ Init /\ [][Next]_vars
  /\ WF_vars(Main) /\ WF_vars(isr_tx_fifo_empty) /\ WF_vars(isr_in_complete)

-----------------------------------------------------------------------------
(* The values of DIEPCTL, DIEPTSIZ, in_ep[1] and DOEPCTL. *)
Ctl == [open : BOOLEAN, epena : BOOLEAN, stall : BOOLEAN]
Tsiz == [pktcnt : 0 .. Len, xfrsiz : 0 .. Len]
InEp == [ep_mps : {0, MPS}, xfer_len : {0, Len}, actual : 0 .. Len]
OutCtl == [open : BOOLEAN, epena : BOOLEAN]

(* The registers and the program counters have their types. *)
TypeOK ==
  /\ pc \in {"check", "flag", "mpsiz", "xfer", "tsiz", "load", "store", "empmsk", "wait",
             "delay"}
  /\ {ep_tx_busy_flag, dtr_enable, empmsk, daint, plugged, spins} \subseteq BOOLEAN
  /\ ctl \in Ctl /\ loaded \in Ctl /\ tsiz \in Tsiz
  /\ fifo \in 0 .. MPS
  /\ in_ep \in InEp /\ out_ctl \in OutCtl
  /\ configuration \in {0, 1}
  /\ {taken, touched, selected, clobbered, raced} \subseteq BOOLEAN

(* The packet on the endpoint is complete, or its bytes will be written. *)
Armed ==
  /\ ctl.open /\ ctl.epena /\ tsiz.pktcnt = 1
  /\ PacketDue \/ (empmsk /\ daint /\ in_ep.actual < in_ep.xfer_len)

(* The main loop never waits in vain: while it waits for ep_tx_busy_flag and *)
(* the device is configured, a transfer is on whose end will clear the flag, *)
(* whatever resets and configurations fell between the steps that set the    *)
(* flag and armed the endpoint.  (SET_INTERFACE closes the endpoint, and     *)
(* after it the wait is in vain.)                                            *)
WaitsForTransfer ==
  pc = "wait" /\ ep_tx_busy_flag /\ configuration = 1 /\ ~selected /\ ~clobbered => Armed

(* ep_tx_busy_flag is a lock: usbd_ep_start_write never programs the         *)
(* endpoint while an earlier transfer is on, unless the host configured the  *)
(* device once more, which clears the flag and leaves the transfer.          *)
OneTransferAtATime ==
  pc \in {"tsiz", "load", "store"} /\ ctl.epena => touched

(* A call that waited returns after the host took its bytes, unless the      *)
(* device was configured during the call.                                    *)
ReturnMeansTaken ==
  [][(pc = "wait" /\ pc' = "delay") => taken \/ touched]_vars

(* The host can always send: as long as the device is configured, a read is  *)
(* on, which every completion renews.                                        *)
HostCanSend == configuration = 1 /\ ~selected => out_ctl.epena

(* No side of the serial port waits in vain, the main loop not for the end   *)
(* of a transfer and the host not for a read, and the registers have their   *)
(* types.                                                                    *)
PortInv == TypeOK /\ WaitsForTransfer /\ HostCanSend

(* The interrupt comes to its end, but for one race: a bus reset between the *)
(* check of MPSIZ and the store of xfer_len leaves a length with a packet    *)
(* size of 0, and the loop that fills the FIFO never ends.                   *)
InterruptReturns == spins => raced

(* With a host that stays, polls, does not halt the endpoint and does not    *)
(* select the interface again, every call returns: the main loop comes       *)
(* round for ever, whatever happened to the bus before.                      *)
MainLoopRuns ==
  <>[](plugged /\ configuration = 1 /\ ~selected /\ ~clobbered /\ ~ctl.stall /\ ~spins)
    => []<>(pc = "delay")
=============================================================================
