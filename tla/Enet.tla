-------------------------------- MODULE Enet --------------------------------
(***************************************************************************)
(* The Ethernet driver as a whole: EnetRx and EnetTx share the context of  *)
(* ENET_IRQHandler.  netif->input of a received frame may answer it, and   *)
(* low_level_output then runs inside the handler, which goes on draining   *)
(* the receive chain only when the answer is on its way: whether receive   *)
(* descriptors come back depends on the transmit chain, and that on the    *)
(* DMA.  The main loop sends too (lwip_periodic_handle).                   *)
(***************************************************************************)
EXTENDS EnetRx, EnetTx

vars == <<rx_vars, tx_vars>>

Init == RxInit /\ TxInit

(* The interrupt is taken when the main loop is not inside lwIP, unless      *)
(* TwoContexts; the main loop runs when the handler does not.                *)
isr_enter ==
  /\ tx_pc["main"] = "idle" \/ TwoContexts
  /\ isr_clear /\ UNCHANGED tx_vars

isr_drain ==
  /\ tx_pc["isr"] = "idle"
  /\ \/ enet_rxframe_size_get \/ low_level_input \/ enet_frame_receive
     \/ ethernetif_input \/ isr_return
  /\ UNCHANGED tx_vars

(* lwIP answers the frame it was given before ethernetif_input returns. *)
isr_answer == hand # 0 /\ ethernetif_input /\ low_level_output("isr")

isr_output == Output("isr") /\ UNCHANGED rx_vars

Isr == isr_enter \/ isr_drain \/ isr_answer \/ isr_output

main_send == rx_pc = "idle" /\ low_level_output("main") /\ UNCHANGED rx_vars

main_output == rx_pc = "idle" /\ Output("main") /\ UNCHANGED rx_vars

Dma ==
  \/ dma_send /\ UNCHANGED rx_vars
  \/ \E good \in BOOLEAN : dma_store(good) /\ UNCHANGED tx_vars

Next == Isr \/ main_send \/ main_output \/ Dma

(* The handler runs when its interrupt is pending and may be taken, the main *)
(* loop when the handler does not, and the DMA goes on sending.              *)
Spec ==
  /\ Init /\ [][Next]_vars
  /\ WF_vars(Isr) /\ WF_vars(main_output) /\ WF_vars(dma_send /\ UNCHANGED rx_vars)
=============================================================================
