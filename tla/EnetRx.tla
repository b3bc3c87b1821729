------------------------------- MODULE EnetRx -------------------------------
(***************************************************************************)
(* Frame reception: the chain of receive descriptors that the ENET DMA     *)
(* fills, and ENET_IRQHandler (app/gd32f4xx_it.c) that empties it into     *)
(* lwIP through ethernetif_input (lwip-2.1.3/arch/ethernetif.c).  The DMA  *)
(* runs beside the handler and may fill a descriptor between any two of    *)
(* its steps.                                                              *)
(***************************************************************************)
EXTENDS Naturals, Sequences, FiniteSets, SequencesExt

CONSTANTS
  RxN,            \* ENET_RXBUF_NUM
  MaxRx           \* bound on the frames on the wire

ASSUME RxAssumption == RxN \in Nat \ {0} /\ MaxRx \in Nat

VARIABLES
  rx_dav,         \* per descriptor: ENET_RDES0_DAV, it belongs to the DMA
  held,           \* per descriptor: the frame in its buffer
  rx_dma,         \* the descriptor the DMA fills next
  rx_cur,         \* dma_current_rxdesc
  rs,             \* the receive interrupt is pending (RS and NI)
  rx_pc,          \* position in ENET_IRQHandler
  hand,           \* the pbuf of low_level_input, 0 for NULL
  arrived,        \* history: frames on the wire so far
  stored,         \* history: the good frames the DMA stored
  delivered,      \* history: the frames given to netif->input, in order
  nomem           \* history: frames for which there was no pbuf

rx_ring == <<rx_dav, held, rx_dma, rx_cur>>
rx_history == <<arrived, stored, delivered, nomem>>
rx_vars == <<rx_ring, rs, rx_pc, hand, rx_history>>

RxDesc == 0 .. RxN - 1
RxFrames == 1 .. MaxRx

RxAfter(d) == (d + 1) % RxN      \* buffer2_next_desc_addr, chain mode
NoFrame == [id |-> 0, good |-> FALSE]

(* low_level_init *)
RxInit ==
  /\ rx_dav = [d \in RxDesc |-> TRUE] /\ held = [d \in RxDesc |-> NoFrame]
  /\ rx_dma = 0 /\ rx_cur = 0
  /\ rs = FALSE /\ rx_pc = "idle" /\ hand = 0
  /\ arrived = 0 /\ stored = {} /\ delivered = <<>> /\ nomem = {}

-----------------------------------------------------------------------------
(* A frame comes in.  Without a descriptor the DMA suspends and flushes it   *)
(* (ENET_FLUSH_RXFRAME_ENABLE); it looks again at the next frame (external). *)
dma_store(good) ==
  /\ arrived < MaxRx
  /\ arrived' = arrived + 1
  /\ IF rx_dav[rx_dma]
     THEN /\ rx_dav' = [rx_dav EXCEPT ![rx_dma] = FALSE]
          /\ held' = [held EXCEPT ![rx_dma] = [id |-> arrived + 1, good |-> good]]
          /\ rx_dma' = RxAfter(rx_dma)
          /\ rs' = TRUE
          /\ stored' = IF good THEN stored \cup {arrived + 1} ELSE stored
     ELSE UNCHANGED <<rx_dav, held, rx_dma, rs, stored>>
  /\ UNCHANGED <<rx_cur, rx_pc, hand, delivered, nomem>>

(* The interrupt is taken, and its flags are cleared before the loop. *)
isr_clear ==
  /\ rx_pc = "idle" /\ rs
  /\ rs' = FALSE
  /\ rx_pc' = "size"
  /\ UNCHANGED <<rx_ring, hand, rx_history>>

(* The descriptor goes back to the DMA: enet_frame_receive(NULL, 0) and      *)
(* enet_rxframe_drop.                                                        *)
GiveBack ==
  /\ rx_dav' = [rx_dav EXCEPT ![rx_cur] = TRUE]
  /\ rx_cur' = RxAfter(rx_cur)

(* enet_rxframe_size_get: 0 ends the loop, 1 is a frame dropped for an       *)
(* error, anything else is a frame to be read.                               *)
enet_rxframe_size_get ==
  /\ rx_pc = "size"
  /\ \/ /\ rx_dav[rx_cur]
        /\ rx_pc' = "return"
        /\ UNCHANGED <<rx_dav, rx_cur>>
     \/ /\ ~rx_dav[rx_cur] /\ ~held[rx_cur].good
        /\ GiveBack
        /\ UNCHANGED rx_pc
     \/ /\ ~rx_dav[rx_cur] /\ held[rx_cur].good
        /\ rx_pc' = "input"
        /\ UNCHANGED <<rx_dav, rx_cur>>
  /\ UNCHANGED <<held, rx_dma, rs, hand, rx_history>>

(* low_level_input up to the copy; there may be no pbuf *)
low_level_input ==
  /\ rx_pc = "input"
  /\ \/ hand' = held[rx_cur].id /\ UNCHANGED nomem
     \/ hand' = 0 /\ nomem' = nomem \cup {held[rx_cur].id}
  /\ rx_pc' = "receive"
  /\ UNCHANGED <<rx_ring, rs, arrived, stored, delivered>>

enet_frame_receive ==
  /\ rx_pc = "receive"
  /\ IF rx_dav[rx_cur] THEN UNCHANGED <<rx_dav, rx_cur>> ELSE GiveBack
  /\ rx_pc' = "deliver"
  /\ UNCHANGED <<held, rx_dma, rs, hand, rx_history>>

(* mutant: what is delivered is read from the buffer after it went back *)
DeliverFromBuffer ==
  /\ rx_pc = "deliver"
  /\ delivered' = IF hand # 0
                  THEN Append(delivered, held[(rx_cur + RxN - 1) % RxN].id) ELSE delivered
  /\ rx_pc' = "size"
  /\ UNCHANGED <<rx_ring, rs, hand, arrived, stored, nomem>>

(* The rest of ethernetif_input. *)
ethernetif_input ==
  /\ rx_pc = "deliver"
  /\ delivered' = IF hand # 0 THEN Append(delivered, hand) ELSE delivered
  /\ rx_pc' = "size"
  /\ UNCHANGED <<rx_ring, rs, hand, arrived, stored, nomem>>

(* mutant: the flags are cleared after the loop *)
ReturnClearing ==
  /\ rx_pc = "return"
  /\ rx_pc' = "idle"
  /\ rs' = FALSE
  /\ UNCHANGED <<rx_ring, hand, rx_history>>

isr_return ==
  /\ rx_pc = "return"
  /\ rx_pc' = "idle"
  /\ UNCHANGED <<rx_ring, rs, hand, rx_history>>

ENET_IRQHandler ==
  \/ isr_clear \/ enet_rxframe_size_get \/ low_level_input
  \/ enet_frame_receive \/ ethernetif_input \/ isr_return

RxNext == ENET_IRQHandler \/ \E good \in BOOLEAN : dma_store(good)

(* The handler runs when its interrupt is pending: it has priority 0. *)
RxSpec == RxInit /\ [][RxNext]_rx_vars /\ WF_rx_vars(ENET_IRQHandler)

-----------------------------------------------------------------------------
(* The descriptors and the position in the handler have their types. *)
RxTypeOK ==
  /\ rx_dav \in [RxDesc -> BOOLEAN]
  /\ held \in [RxDesc -> [id : 0 .. MaxRx, good : BOOLEAN]]
  /\ rx_dma \in RxDesc /\ rx_cur \in RxDesc /\ rs \in BOOLEAN
  /\ rx_pc \in {"idle", "size", "input", "receive", "deliver", "return"}
  /\ hand \in 0 .. MaxRx /\ arrived \in 0 .. MaxRx
  /\ stored \subseteq RxFrames /\ nomem \subseteq RxFrames /\ delivered \in Seq(RxFrames)

(* The frames the CPU has to read are in the descriptors from                *)
(* dma_current_rxdesc up to the one the DMA fills next, also when the chain  *)
(* is full or empty and the two are the same: the driver and the DMA, which  *)
(* never compare their positions, do not fall out of step.                   *)
InStep ==
  \E k \in 0 .. RxN :
    /\ (rx_cur + k) % RxN = rx_dma
    /\ \A i \in 0 .. RxN - 1 : rx_dav[(rx_cur + i) % RxN] <=> i >= k

(* No frame is left behind: when the handler is not running and a frame is   *)
(* in the chain, an interrupt is pending, for a frame stored after the last  *)
(* look of the loop was stored after the flags were cleared.                 *)
NoneStranded == rx_pc = "idle" /\ (\E d \in RxDesc : ~rx_dav[d]) => rs

(* lwIP gets the good frames in the order of the wire, each once and         *)
(* untouched, and no other frame: every one that was stored is delivered,    *)
(* was refused a pbuf, or is still in the chain or in hand.                  *)
Accounted ==
  /\ \A i, j \in 1 .. Len(delivered) : i < j => delivered[i] < delivered[j]
  /\ stored = UNION { ToSet(delivered), nomem,
                      {held[d].id : d \in {e \in RxDesc : ~rx_dav[e] /\ held[e].good}},
                      IF rx_pc \in {"receive", "deliver"} /\ hand # 0 THEN {hand} ELSE {} }

(* Reception keeps its books: descriptors and frames have their types, the   *)
(* driver is in step with the DMA, and every frame is accounted for.         *)
RxInv == RxTypeOK /\ InStep /\ Accounted

(* Every descriptor that holds a frame goes back to the DMA, whether the     *)
(* frame is good, broken, or finds no pbuf.                                  *)
AlwaysRefilled == \A d \in RxDesc : ~rx_dav[d] ~> rx_dav[d]
=============================================================================
