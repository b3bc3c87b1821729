---------------------------- MODULE UsbCdcProofs ----------------------------
(***************************************************************************)
(* For any packet size and any message shorter than a packet: neither the  *)
(* main loop nor the host waits in vain, ep_tx_busy_flag keeps transfers   *)
(* apart, the interrupt returns but for the one race, and a call returns   *)
(* after the host took its bytes.                                          *)
(***************************************************************************)
EXTENDS UsbCdc, TLAPS

(* A message is one packet: it is in the FIFO as a whole or not at all. *)
OnePacket ==
  /\ tsiz.pktcnt \in {0, 1} /\ tsiz.xfrsiz \in {0, Len}
  /\ fifo \in {0, Len}
  /\ in_ep.actual \in {0, Len}
  /\ fifo > 0 => in_ep.xfer_len = Len

(* What SET_CONFIGURATION leaves lasts until the host undoes it. *)
Configured ==
  configuration = 1 /\ ~selected =>
    /\ daint /\ in_ep.ep_mps = MPS
    /\ out_ctl.open /\ out_ctl.epena
    /\ ~clobbered => ctl.open

(* The call that is under way is the one whose flag is set, in a             *)
(* configuration that stands.                                                *)
Live == ep_tx_busy_flag /\ configuration = 1 /\ ~selected /\ ~clobbered

(* The bytes of the call are in the FIFO, or are still to be written there. *)
Pending == fifo > 0 \/ in_ep.actual < in_ep.xfer_len

(* The endpoint is armed step by step: WaitsForTransfer at every position    *)
(* of the call.                                                              *)
Arming ==
  Live =>
    /\ pc = "tsiz" => Pending
    /\ pc \in {"load", "store", "empmsk", "wait"} =>
         tsiz.pktcnt = 1 /\ (Pending \/ tsiz.xfrsiz = 0)
    /\ pc \in {"empmsk", "wait"} => ctl.open /\ ctl.epena
    /\ pc = "wait" => PacketDue \/ empmsk

(* The flag is the lock of the endpoint: a transfer is on, or the flag is    *)
(* clear within a call, only as the call's own or after a configuration.     *)
Lock ==
  /\ ctl.epena => touched \/ (pc \in {"empmsk", "wait"} /\ ep_tx_busy_flag)
  /\ pc \in {"mpsiz", "xfer", "tsiz", "load", "store"} /\ ~ep_tx_busy_flag => touched

(* A packet that is due is the one with the call's bytes. *)
DueIsFull ==
  /\ ~touched
  /\ pc \in {"load", "store"} \/ (ctl.epena /\ pc \in {"empmsk", "wait"})
  /\ tsiz.pktcnt = 1 /\ tsiz.xfrsiz = 0
  => fifo = Len

(* ReturnMeansTaken from the moment the flag is cleared. *)
ClearMeansTaken == pc \in {"empmsk", "wait"} /\ ~ep_tx_busy_flag => taken \/ touched

(* Without the race an open endpoint has its packet size, and a length is    *)
(* stored only next to a packet size.                                        *)
Unraced ==
  /\ spins => raced
  /\ in_ep.ep_mps = 0 /\ in_ep.actual < in_ep.xfer_len => raced
  /\ ctl.open \/ pc = "xfer" \/ (pc = "store" /\ loaded.open) => in_ep.ep_mps = MPS \/ raced

(* The inductive invariant. *)
IInv ==
  /\ TypeOK /\ OnePacket /\ Configured /\ Arming /\ Lock /\ DueIsFull
  /\ ClearMeansTaken /\ Unraced

-----------------------------------------------------------------------------
(* It holds after cdc_acm_init and usb_dc_init. *)
LEMMA InitInv == Init => IInv
<1> SUFFICES ASSUME Init PROVE IInv
  OBVIOUS
<1> USE UsbAssumption DEF Init, Closed, NoEp
<1>1. TypeOK
  <2>1. ctl \in Ctl /\ loaded \in Ctl /\ out_ctl \in OutCtl
    BY DEF Ctl, OutCtl
  <2>2. tsiz \in Tsiz /\ in_ep \in InEp
    BY DEF Tsiz, InEp
  <2>3. /\ {ep_tx_busy_flag, dtr_enable, empmsk, daint, plugged, spins} \subseteq BOOLEAN
        /\ {taken, touched, selected, clobbered, raced} \subseteq BOOLEAN
    OBVIOUS
  <2>4. pc = "check" /\ configuration = 0 /\ fifo = 0
    OBVIOUS
  <2> HIDE DEF Init
  <2> QED BY <2>1, <2>2, <2>3, <2>4 DEF TypeOK
<1>2. OnePacket /\ Configured /\ Arming
  BY DEF OnePacket, Configured, Arming, Live
<1>3. Lock /\ DueIsFull /\ ClearMeansTaken /\ Unraced
  BY DEF Lock, DueIsFull, ClearMeansTaken, Unraced
<1> QED BY <1>1, <1>2, <1>3 DEF IInv

(* A register stays a register when one of its fields is assigned. *)
LEMMA CtlField ==
  ASSUME NEW c \in Ctl, NEW b \in BOOLEAN
  PROVE  /\ [c EXCEPT !.open = b] \in Ctl /\ [c EXCEPT !.epena = b] \in Ctl
         /\ [c EXCEPT !.stall = b] \in Ctl
BY DEF Ctl

(* Likewise DIEPTSIZ. *)
LEMMA TsizField ==
  ASSUME NEW z \in Tsiz, NEW n \in 0 .. Len
  PROVE  [z EXCEPT !.pktcnt = n] \in Tsiz /\ [z EXCEPT !.xfrsiz = n] \in Tsiz
BY DEF Tsiz

(* Likewise in_ep[1]. *)
LEMMA InEpField ==
  ASSUME NEW e \in InEp, NEW l \in {0, Len}, NEW n \in 0 .. Len
  PROVE  /\ [e EXCEPT !.ep_mps = MPS] \in InEp /\ [e EXCEPT !.actual = n] \in InEp
         /\ [e EXCEPT !.xfer_len = l, !.actual = n] \in InEp
BY DEF InEp

(* Likewise DOEPCTL, also when a read is started. *)
LEMMA OutCtlField ==
  ASSUME NEW o \in OutCtl, NEW b \in BOOLEAN
  PROVE  /\ [o EXCEPT !.open = b] \in OutCtl /\ [o EXCEPT !.epena = b] \in OutCtl
         /\ usbd_ep_start_read(o) \in OutCtl
BY DEF OutCtl, usbd_ep_start_read

(* A message is one packet, as long as the endpoint has its packet size. *)
LEMMA PacketsIsOne == TypeOK => Packets = (IF in_ep.ep_mps = 0 THEN 0 ELSE 1)
<1> SUFFICES ASSUME TypeOK PROVE Packets = (IF in_ep.ep_mps = 0 THEN 0 ELSE 1)
  OBVIOUS
<1>1. in_ep.ep_mps \in {0, MPS}
  BY DEF TypeOK, InEp
<1>2. (Len + MPS - 1) \div MPS = 1
  BY UsbAssumption
<1> QED BY <1>1, <1>2, UsbAssumption DEF Packets

(* The FIFO is given the whole message, or nothing. *)
LEMMA ChunkIsMessage ==
  ASSUME TypeOK, OnePacket
  PROVE  Chunk = IF in_ep.actual = 0 /\ in_ep.xfer_len = Len /\ in_ep.ep_mps = MPS
                 THEN Len ELSE 0
<1>1. /\ in_ep.ep_mps \in {0, MPS} /\ in_ep.xfer_len \in {0, Len}
      /\ in_ep.actual \in {0, Len}
  BY DEF TypeOK, InEp, OnePacket
<1> QED BY <1>1, UsbAssumption DEF Chunk

(* A completed transfer was the message or empty, and neither is of whole    *)
(* packets: usbd_cdc_acm_bulk_in clears the flag.                            *)
LEMMA TransferIsShort ==
  ASSUME TypeOK, OnePacket, PacketDue
  PROVE  LET n == in_ep.xfer_len - tsiz.xfrsiz
         IN  n \in {0, Len} /\ ~(n % MPS = 0 /\ n # 0)
<1>1. /\ in_ep.xfer_len \in {0, Len} /\ tsiz.xfrsiz \in {0, Len}
      /\ fifo > 0 => in_ep.xfer_len = Len
  BY DEF TypeOK, InEp, OnePacket
<1>2. in_ep.xfer_len - tsiz.xfrsiz \in {0, Len}
  BY <1>1, UsbAssumption DEF PacketDue
<1>3. Len % MPS = Len
  BY UsbAssumption
<1> QED BY <1>2, <1>3, UsbAssumption

(* Every step keeps the registers in their types; where a length is          *)
(* computed it is that of one packet.                                        *)
LEMMA TypeStep == ASSUME TypeOK, OnePacket, Next PROVE TypeOK'
<1> USE DEF TypeOK, Step, registers, bus, history, main
<1>1. 0 \in 0 .. Len /\ 1 \in 0 .. Len /\ Len \in 0 .. Len /\ Len \in 0 .. MPS
      /\ 0 \in 0 .. MPS
  BY UsbAssumption
<1>2. CASE send_check \/ send_wait \/ main_delay
  BY <1>2 DEF send_check, send_wait, main_delay
<1>3. CASE send_flag \/ start_write_mpsiz
  BY <1>3 DEF send_flag, start_write_mpsiz
<1>4. CASE start_write_xfer
  <2>1. in_ep' \in InEp
    BY <1>1, <1>4, InEpField DEF start_write_xfer
  <2> QED BY <1>4, <2>1 DEF start_write_xfer
<1>5. CASE start_write_tsiz
  <2>2. Packets \in 0 .. Len
    BY <1>1, PacketsIsOne
  <2>3. tsiz' \in Tsiz
    BY <1>1, <1>5, <2>2 DEF start_write_tsiz, Tsiz
  <2> QED BY <1>5, <2>3 DEF start_write_tsiz
<1>6. CASE start_write_load \/ start_write_empmsk
  BY <1>6 DEF start_write_load, start_write_empmsk
<1>7. CASE start_write_store
  <2>1. ctl' \in Ctl /\ loaded' \in Ctl
    BY <1>7, CtlField DEF start_write_store, Closed, Ctl
  <2> QED BY <1>7, <2>1 DEF start_write_store
<1>8. CASE isr_reset
  <2>1. ctl' \in Ctl /\ out_ctl' \in OutCtl
    BY <1>8 DEF isr_reset, Closed, Ctl, OutCtl
  <2>2. tsiz' \in Tsiz /\ in_ep' \in InEp
    BY <1>1, <1>8 DEF isr_reset, NoEp, Tsiz, InEp
  <2> QED BY <1>1, <1>8, <2>1, <2>2 DEF isr_reset
<1>9. CASE isr_set_configuration
  <2>1. ctl' \in Ctl /\ in_ep' \in InEp
    BY <1>1, <1>9, CtlField, InEpField DEF isr_set_configuration, usbd_ep_open
  <2>2. out_ctl' \in OutCtl
    BY <1>9, OutCtlField DEF isr_set_configuration
  <2> QED
    BY <1>1, <1>9, <2>1, <2>2 DEF isr_set_configuration, usbd_ep_open, usbd_event_configured
<1>10. CASE isr_unconfigure \/ unplug
  BY <1>10 DEF isr_unconfigure, unplug
<1>11. ASSUME NEW b \in BOOLEAN, usbd_cdc_acm_set_dtr(b) PROVE TypeOK'
  BY <1>11 DEF usbd_cdc_acm_set_dtr
<1>12. ASSUME NEW b \in BOOLEAN, isr_halt(b) PROVE TypeOK'
  BY <1>12, CtlField DEF isr_halt
<1>13. CASE isr_set_interface
  <2>1. ctl' \in Ctl /\ out_ctl' \in OutCtl
    BY <1>13 DEF isr_set_interface, Closed, Ctl, OutCtl
  <2> QED BY <1>13, <2>1 DEF isr_set_interface
<1>14. CASE isr_tx_fifo_empty
  <2>1. in_ep.actual \in {0, Len} /\ tsiz.xfrsiz \in {0, Len}
    BY DEF OnePacket
  <2>2. in_ep.actual + Chunk \in 0 .. Len /\ Chunk \in 0 .. Len /\ Chunk \in 0 .. MPS
    BY <2>1, ChunkIsMessage, UsbAssumption
  <2> DEFINE left == IF Chunk > tsiz.xfrsiz THEN 0 ELSE tsiz.xfrsiz - Chunk
  <2>3. left \in 0 .. Len
    BY <2>1, <2>2, UsbAssumption
  <2>4. tsiz' = [tsiz EXCEPT !.xfrsiz = left] /\ in_ep' = [in_ep EXCEPT !.actual = @ + Chunk]
    BY <1>14 DEF isr_tx_fifo_empty
  <2> HIDE DEF left
  <2>5. tsiz' \in Tsiz
    BY <2>3, <2>4, TsizField
  <2>6. in_ep' \in InEp
    BY <1>1, <2>2, <2>4, InEpField
  <2> QED BY <1>14, <2>2, <2>5, <2>6 DEF isr_tx_fifo_empty
<1>15. CASE isr_in_complete
  <2> DEFINE n == in_ep.xfer_len - tsiz.xfrsiz
  <2>1. n \in 0 .. Len
    BY <1>1, <1>15, TransferIsShort DEF isr_in_complete
  <2>2. \/ usbd_cdc_acm_bulk_in(n)
        \/ /\ ctl' = [ctl EXCEPT !.epena = FALSE]
           /\ tsiz' = [tsiz EXCEPT !.pktcnt = 0]
           /\ UNCHANGED <<ep_tx_busy_flag, in_ep>>
    BY <1>15 DEF isr_in_complete
  <2> HIDE DEF n
  <2>3. ctl' \in Ctl /\ ep_tx_busy_flag' \in BOOLEAN
    BY <2>2, CtlField DEF usbd_cdc_acm_bulk_in
  <2>4. tsiz' \in Tsiz
    <3>1. [pktcnt |-> 1, xfrsiz |-> 0] \in Tsiz
      BY <1>1 DEF Tsiz
    <3>2. tsiz' \in {[pktcnt |-> 1, xfrsiz |-> 0], [tsiz EXCEPT !.pktcnt = 0]}
      BY <2>2 DEF usbd_cdc_acm_bulk_in
    <3>3. [tsiz EXCEPT !.pktcnt = 0] \in Tsiz
      BY <1>1, TsizField
    <3> QED BY <3>1, <3>2, <3>3
  <2>5. in_ep' \in InEp
    <3>1. 0 \in {0, Len} /\ 0 \in 0 .. Len
      BY <1>1
    <3>2. in_ep' \in {in_ep, [in_ep EXCEPT !.xfer_len = 0, !.actual = 0],
                      [in_ep EXCEPT !.xfer_len = 0, !.actual = n]}
      BY <2>2 DEF usbd_cdc_acm_bulk_in
    <3>3. [in_ep EXCEPT !.xfer_len = 0, !.actual = 0] \in InEp
      BY <3>1, InEpField
    <3>4. [in_ep EXCEPT !.xfer_len = 0, !.actual = n] \in InEp
      BY <2>1, <3>1, InEpField
    <3> QED BY <3>2, <3>3, <3>4
  <2> QED BY <1>1, <1>15, <2>3, <2>4, <2>5 DEF isr_in_complete
<1>16. CASE isr_out_complete
  <2>1. out_ctl' \in OutCtl
    BY <1>16, OutCtlField DEF isr_out_complete, usbd_cdc_acm_bulk_out
  <2> QED BY <1>16, <2>1 DEF isr_out_complete
<1>17. CASE isr_spins
  BY <1>17 DEF isr_spins, vars
<1> QED
  BY <1>2, <1>3, <1>4, <1>5, <1>6, <1>7, <1>8, <1>9, <1>10, <1>11, <1>12, <1>13, <1>14,
     <1>15, <1>16, <1>17
  DEF Next, Main, USBD_IRQHandler

(* The main program keeps it at every position of a call. *)
LEMMA MainStep == ASSUME IInv, TypeOK', Main PROVE IInv'
<1> USE UsbAssumption DEF IInv, TypeOK, OnePacket, Configured, Live, Pending, PacketDue,
        Arming, Lock, DueIsFull, ClearMeansTaken, Unraced, Step, registers, bus, history,
        main, Closed, NoEp, Ctl, Tsiz, InEp, OutCtl
<1>1. CASE send_check
  BY <1>1 DEF send_check
<1>2. CASE send_flag
  <2>1. touched' \in BOOLEAN /\ (touched' <=> (touched /\ ctl.epena))
    BY <1>2 DEF send_flag
  <2>3. OnePacket' /\ Configured' /\ Unraced'
    BY <1>2, <2>1 DEF send_flag
  <2>4. Arming' /\ DueIsFull' /\ ClearMeansTaken'
    BY <1>2, <2>1 DEF send_flag
  <2>5. Lock'
    BY <1>2, <2>1 DEF send_flag
  <2> QED BY <2>3, <2>4, <2>5 DEF IInv
<1>3. CASE start_write_mpsiz
  BY <1>3 DEF start_write_mpsiz
<1>4. CASE start_write_xfer
  <2>1. OnePacket'
    BY <1>4 DEF start_write_xfer
  <2>2. Configured' /\ Unraced'
    BY <1>4 DEF start_write_xfer
  <2>3. Arming'
    BY <1>4 DEF start_write_xfer
  <2>4. Lock' /\ DueIsFull' /\ ClearMeansTaken'
    BY <1>4 DEF start_write_xfer
  <2> QED BY <2>1, <2>2, <2>3, <2>4 DEF IInv
<1>5. CASE start_write_tsiz
  <2>1. OnePacket'
    BY <1>5, PacketsIsOne DEF start_write_tsiz
  <2>2. Configured' /\ Unraced'
    BY <1>5, PacketsIsOne DEF start_write_tsiz
  <2>3. Arming'
    BY <1>5, PacketsIsOne DEF start_write_tsiz
  <2>4. Lock' /\ DueIsFull' /\ ClearMeansTaken'
    BY <1>5, PacketsIsOne DEF start_write_tsiz
  <2> QED BY <2>1, <2>2, <2>3, <2>4 DEF IInv
<1>6. CASE start_write_load
  <2>1. OnePacket'
    BY <1>6 DEF start_write_load
  <2>2. Configured' /\ Unraced'
    BY <1>6 DEF start_write_load
  <2>3. Arming'
    BY <1>6 DEF start_write_load
  <2>4. Lock' /\ DueIsFull' /\ ClearMeansTaken'
    BY <1>6 DEF start_write_load
  <2> QED BY <2>1, <2>2, <2>3, <2>4 DEF IInv
<1>7. CASE start_write_store
  <2>1. OnePacket'
    BY <1>7 DEF start_write_store
  <2>2. Configured' /\ Unraced'
    BY <1>7 DEF start_write_store
  <2>3. Arming'
    BY <1>7 DEF start_write_store
  <2>4. Lock' /\ DueIsFull' /\ ClearMeansTaken'
    BY <1>7 DEF start_write_store
  <2> QED BY <2>1, <2>2, <2>3, <2>4 DEF IInv
<1>8. CASE start_write_empmsk
  <2>1. OnePacket'
    BY <1>8 DEF start_write_empmsk
  <2>2. Configured' /\ Unraced'
    BY <1>8 DEF start_write_empmsk
  <2>3. Arming'
    BY <1>8 DEF start_write_empmsk
  <2>4. Lock' /\ DueIsFull' /\ ClearMeansTaken'
    BY <1>8 DEF start_write_empmsk
  <2> QED BY <2>1, <2>2, <2>3, <2>4 DEF IInv
<1>9. CASE send_wait
  BY <1>9 DEF send_wait
<1>10. CASE main_delay
  BY <1>10 DEF main_delay
<1> QED BY <1>1, <1>2, <1>3, <1>4, <1>5, <1>6, <1>7, <1>8, <1>9, <1>10 DEF Main

(* The interrupt and the host keep it, whichever steps of a call they fall  *)
(* between.                                                                  *)
LEMMA InterruptStep == ASSUME IInv, TypeOK', USBD_IRQHandler \/ unplug PROVE IInv'
<1> USE UsbAssumption DEF IInv, TypeOK, OnePacket, Configured, Live, Pending, PacketDue,
        Arming, Lock, DueIsFull, ClearMeansTaken, Unraced, Step, registers, bus, history,
        main, Closed, NoEp, Ctl, Tsiz, InEp, OutCtl
<1>1. CASE isr_reset
  <2>1. OnePacket'
    BY <1>1 DEF isr_reset
  <2>2. Configured' /\ Unraced'
    BY <1>1 DEF isr_reset
  <2>3. Arming'
    BY <1>1 DEF isr_reset
  <2>4. Lock' /\ DueIsFull' /\ ClearMeansTaken'
    BY <1>1 DEF isr_reset
  <2> QED BY <2>1, <2>2, <2>3, <2>4 DEF IInv
<1>2. CASE isr_set_configuration
  <2>1. OnePacket'
    BY <1>2 DEF isr_set_configuration, usbd_ep_open, usbd_event_configured, usbd_ep_start_read
  <2>2. Configured' /\ Unraced'
    BY <1>2 DEF isr_set_configuration, usbd_ep_open, usbd_event_configured, usbd_ep_start_read
  <2>3. Arming'
    BY <1>2 DEF isr_set_configuration, usbd_ep_open, usbd_event_configured, usbd_ep_start_read
  <2>4. Lock' /\ DueIsFull' /\ ClearMeansTaken'
    BY <1>2 DEF isr_set_configuration, usbd_ep_open, usbd_event_configured, usbd_ep_start_read
  <2> QED BY <2>1, <2>2, <2>3, <2>4 DEF IInv
<1>3. CASE isr_unconfigure
  BY <1>3 DEF isr_unconfigure
<1>4. ASSUME NEW b \in BOOLEAN, usbd_cdc_acm_set_dtr(b) PROVE IInv'
  BY <1>4 DEF usbd_cdc_acm_set_dtr
<1>5. ASSUME NEW b \in BOOLEAN, isr_halt(b) PROVE IInv'
  BY <1>5 DEF isr_halt
<1>6. CASE isr_set_interface
  <2>1. OnePacket'
    BY <1>6 DEF isr_set_interface
  <2>2. Configured' /\ Unraced'
    BY <1>6 DEF isr_set_interface
  <2>3. Arming'
    BY <1>6 DEF isr_set_interface
  <2>4. Lock' /\ DueIsFull' /\ ClearMeansTaken'
    BY <1>6 DEF isr_set_interface
  <2> QED BY <2>1, <2>2, <2>3, <2>4 DEF IInv
<1>7. CASE isr_tx_fifo_empty
  <2>1. OnePacket'
    BY <1>7, ChunkIsMessage DEF isr_tx_fifo_empty
  <2>2. Configured' /\ Unraced'
    BY <1>7, ChunkIsMessage DEF isr_tx_fifo_empty
  <2>3. Arming'
    BY <1>7, ChunkIsMessage DEF isr_tx_fifo_empty
  <2>4. Lock' /\ DueIsFull' /\ ClearMeansTaken'
    BY <1>7, ChunkIsMessage DEF isr_tx_fifo_empty
  <2> QED BY <2>1, <2>2, <2>3, <2>4 DEF IInv
<1>8. CASE isr_in_complete
  <2> DEFINE n == in_ep.xfer_len - tsiz.xfrsiz
  <2>1. n \in {0, Len} /\ ~(n % MPS = 0 /\ n # 0)
    BY <1>8, TransferIsShort DEF isr_in_complete
  <2>2. taken' \in BOOLEAN /\ (taken' <=> (taken \/ fifo = Len))
    BY <1>8 DEF isr_in_complete
  <2>3. /\ ctl' = [ctl EXCEPT !.epena = FALSE]
        /\ tsiz' = [tsiz EXCEPT !.pktcnt = 0]
        /\ fifo' = 0
    BY <1>8, <2>1 DEF isr_in_complete, usbd_cdc_acm_bulk_in
  <2>4. \/ /\ ep_tx_busy_flag' = FALSE
           /\ in_ep' = [in_ep EXCEPT !.xfer_len = 0, !.actual = n]
        \/ UNCHANGED <<ep_tx_busy_flag, in_ep>> /\ ~daint
    BY <1>8, <2>1 DEF isr_in_complete, usbd_cdc_acm_bulk_in
  <2>5. /\ UNCHANGED <<main, dtr_enable, empmsk, daint, bus, spins, touched, selected,
                       clobbered, raced>>
        /\ configuration = 1 /\ ctl.epena /\ tsiz.pktcnt = 1 /\ PacketDue
    BY <1>8 DEF isr_in_complete
  <2> HIDE DEF n
  <2>6. /\ in_ep'.ep_mps = in_ep.ep_mps /\ in_ep'.actual \in {0, Len}
        /\ in_ep'.actual < in_ep'.xfer_len => in_ep' = in_ep
    <3>1. CASE in_ep' = in_ep
      BY <3>1
    <3>2. CASE in_ep' = [in_ep EXCEPT !.xfer_len = 0, !.actual = n]
      <4>1. in_ep'.ep_mps = in_ep.ep_mps /\ in_ep'.actual = n /\ in_ep'.xfer_len = 0
        BY <3>2
      <4> QED BY <4>1, <2>1
    <3> QED BY <2>4, <3>1, <3>2
  <2>7. /\ tsiz'.pktcnt = 0 /\ tsiz'.xfrsiz = tsiz.xfrsiz
        /\ ~ctl'.epena /\ ctl'.open = ctl.open
    BY <2>3
  <2>8. OnePacket'
    <3> HIDE DEF TypeOK, Configured, Arming, Lock, DueIsFull, ClearMeansTaken, Unraced
    <3> QED BY <2>3, <2>6, <2>7
  <2>9. Configured' /\ Unraced'
    <3> HIDE DEF TypeOK, OnePacket, Arming, Lock, DueIsFull, ClearMeansTaken
    <3>1. Configured'
      BY <2>5, <2>6, <2>7
    <3>2. Unraced'
      BY <2>5, <2>6, <2>7
    <3> QED BY <3>1, <3>2
  <2>10. Arming'
    BY <2>1, <2>3, <2>4, <2>5
  <2>11. Lock' /\ DueIsFull'
    BY <2>1, <2>3, <2>4, <2>5
  <2>12. ClearMeansTaken'
    BY <2>1, <2>2, <2>3, <2>4, <2>5
  <2> QED BY <2>8, <2>9, <2>10, <2>11, <2>12 DEF IInv
<1>9. CASE isr_out_complete
  <2>1. /\ out_ctl' \in [open : BOOLEAN, epena : BOOLEAN]
        /\ out_ctl.open => out_ctl'.open /\ out_ctl'.epena
    BY <1>9 DEF isr_out_complete, usbd_cdc_acm_bulk_out, usbd_ep_start_read
  <2>2. OnePacket' /\ Configured' /\ Unraced'
    BY <1>9, <2>1 DEF isr_out_complete
  <2>3. Arming' /\ Lock' /\ DueIsFull' /\ ClearMeansTaken'
    BY <1>9 DEF isr_out_complete
  <2> QED BY <2>2, <2>3 DEF IInv
<1>10. CASE unplug
  <2>1. OnePacket' /\ Configured' /\ Unraced'
    BY <1>10 DEF unplug
  <2>2. Arming' /\ Lock' /\ DueIsFull' /\ ClearMeansTaken'
    BY <1>10 DEF unplug
  <2> QED BY <2>1, <2>2 DEF IInv
<1>11. CASE isr_spins
  BY <1>11 DEF isr_spins, vars
<1> QED
  BY <1>1, <1>2, <1>3, <1>4, <1>5, <1>6, <1>7, <1>8, <1>9, <1>10, <1>11
  DEF USBD_IRQHandler

(* Every step keeps the inductive invariant. *)
LEMMA InvStep == IInv /\ [Next]_vars => IInv'
<1> SUFFICES ASSUME IInv, [Next]_vars PROVE IInv'
  OBVIOUS
<1>1. CASE UNCHANGED vars
  <2> USE <1>1 DEF vars, main, registers, bus, history
  <2>1. TypeOK' /\ OnePacket' /\ Configured' /\ Unraced'
    BY DEF IInv, TypeOK, OnePacket, Configured, Unraced
  <2>2. Arming' /\ Lock' /\ DueIsFull' /\ ClearMeansTaken'
    BY DEF IInv, Arming, Live, Pending, PacketDue, Lock, DueIsFull, ClearMeansTaken
  <2> QED BY <2>1, <2>2 DEF IInv
<1>2. CASE Next
  <2>1. TypeOK'
    BY <1>2, TypeStep DEF IInv
  <2> QED BY <1>2, <2>1, MainStep, InterruptStep DEF Next
<1> QED BY <1>1, <1>2

-----------------------------------------------------------------------------
(* The invariant that carries the theorems below. *)
THEOREM Invariant == Spec => []IInv
BY InitInv, InvStep, PTL DEF Spec

(* Neither side of the port waits in vain: while the main loop spins on      *)
(* ep_tx_busy_flag a transfer is armed whose end clears it, and while the    *)
(* device is configured a read is on.                                        *)
THEOREM PortSafe == Spec => []PortInv
<1>1. IInv => PortInv
  <2> SUFFICES ASSUME IInv PROVE PortInv
    OBVIOUS
  <2>1. HostCanSend
    BY DEF IInv, Configured, HostCanSend
  <2>2. WaitsForTransfer
    <3> SUFFICES ASSUME pc = "wait", Live PROVE Armed
      BY DEF WaitsForTransfer, Live
    <3>1. /\ tsiz.pktcnt = 1 /\ (Pending \/ tsiz.xfrsiz = 0)
          /\ ctl.open /\ ctl.epena /\ (PacketDue \/ empmsk)
      BY DEF IInv, Arming
    <3>2. daint
      BY DEF IInv, Configured, Live
    <3> QED BY <3>1, <3>2 DEF Armed, Pending, PacketDue
  <2> QED BY <2>1, <2>2 DEF IInv, PortInv
<1> QED BY <1>1, Invariant, PTL

(* ep_tx_busy_flag is a lock: usbd_ep_start_write programs the endpoint      *)
(* while a transfer is on only after a configuration cleared the flag.       *)
THEOREM FlagIsLock == Spec => []OneTransferAtATime
<1>1. IInv => OneTransferAtATime
  BY DEF IInv, Lock, OneTransferAtATime
<1> QED BY <1>1, Invariant, PTL

(* The loop of dwc2_tx_fifo_empty_procecss ends, unless a bus reset fell     *)
(* into one of the two windows of usbd_ep_start_write.                       *)
THEOREM FifoLoopEnds == Spec => []InterruptReturns
<1>1. IInv => InterruptReturns
  BY DEF IInv, Unraced, InterruptReturns
<1> QED BY <1>1, Invariant, PTL

(* cdc_acm_data_send_with_dtr_test leaves its wait after the host took the   *)
(* bytes, or after a configuration during the call.                          *)
THEOREM WaitEndsWhenTaken == Spec => ReturnMeansTaken
<1>1. IInv /\ [Next]_vars => [(pc = "wait" /\ pc' = "delay") => taken \/ touched]_vars
  <2> SUFFICES ASSUME IInv, Next, pc = "wait", pc' = "delay" PROVE taken \/ touched
    OBVIOUS
  <2>1. ~ep_tx_busy_flag
    BY DEF Next, Main, USBD_IRQHandler, Step, main, vars,
           send_check, send_flag, start_write_mpsiz, start_write_xfer, start_write_tsiz,
           start_write_load, start_write_store, start_write_empmsk, send_wait, main_delay,
           isr_reset, isr_set_configuration, isr_unconfigure, usbd_cdc_acm_set_dtr, isr_halt,
           isr_set_interface, isr_tx_fifo_empty, isr_spins, isr_in_complete,
           isr_out_complete, unplug
  <2> QED BY <2>1 DEF IInv, ClearMeansTaken
<1> QED BY <1>1, Invariant, PTL DEF Spec, ReturnMeansTaken
=============================================================================
