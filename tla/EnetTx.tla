------------------------------- MODULE EnetTx -------------------------------
(***************************************************************************)
(* Frame transmission: low_level_output (lwip-2.1.3/arch/ethernetif.c) and *)
(* the library's enet_frame_transmit on the chain of transmit descriptors  *)
(* that the ENET DMA sends from.                                           *)
(*                                                                         *)
(* lwIP sends from the ENET interrupt (answers to frames) and from the     *)
(* main loop (timers).  With TwoContexts the interrupt may preempt the     *)
(* main loop inside low_level_output, as in this firmware; without it lwIP *)
(* is in one context at a time, as it requires.                            *)
(***************************************************************************)
EXTENDS Naturals, Sequences

CONSTANTS
  TwoContexts,    \* the ENET interrupt may preempt the main loop inside lwIP
  TxN,            \* ENET_TXBUF_NUM
  MaxTx           \* bound on the frames lwIP sends

ASSUME TxAssumption ==
  TwoContexts \in BOOLEAN /\ TxN \in Nat \ {0} /\ MaxTx \in Nat

VARIABLES
  tx_dav,         \* per descriptor: ENET_TDES0_DAV, it belongs to the DMA
  buf,            \* per descriptor: the frame whose bytes are in its buffer
  len,            \* per descriptor: the frame whose length is in control_buffer_size
  tx_cur,         \* dma_current_txdesc
  tx_dma,         \* the descriptor the DMA sends next
  tbu,            \* TBU: the DMA found no descriptor and is suspended
  tx_pc, job, dst,\* per context: position, its frame, the buffer it copies to
  nframes,        \* history: frames given to low_level_output, which number them
  ok,             \* history: frames for which it returned ERR_OK
  sent            \* history: what went out: bytes of one frame, length of another

tx_chain == <<tx_dav, buf, len>>
locals == <<tx_pc, job, dst>>
tx_history == <<nframes, ok, sent>>
tx_vars == <<tx_chain, tx_cur, tx_dma, tbu, locals, tx_history>>

TxDesc == 0 .. TxN - 1
TxFrames == 1 .. MaxTx
Contexts == {"isr", "main"}

TxAfter(d) == (d + 1) % TxN

(* low_level_init *)
TxInit ==
  /\ tx_dav = [d \in TxDesc |-> FALSE]
  /\ buf = [d \in TxDesc |-> 0] /\ len = [d \in TxDesc |-> 0]
  /\ tx_cur = 0 /\ tx_dma = 0 /\ tbu = FALSE
  /\ tx_pc = [c \in Contexts |-> "idle"]
  /\ job = [c \in Contexts |-> 0] /\ dst = [c \in Contexts |-> 0]
  /\ nframes = 0 /\ ok = {} /\ sent = <<>>

-----------------------------------------------------------------------------
At(c, label) == tx_pc[c] = label /\ (c = "main" => tx_pc["isr"] = "idle")
Goto(c, label) == tx_pc' = [tx_pc EXCEPT ![c] = label]

low_level_output(c) ==
  /\ At(c, "idle")
  /\ tx_pc["main"] = "idle" \/ TwoContexts
  /\ nframes < MaxTx
  /\ nframes' = nframes + 1
  /\ job' = [job EXCEPT ![c] = nframes + 1]
  /\ Goto(c, "wait")
  /\ UNCHANGED <<tx_chain, tx_cur, tx_dma, tbu, dst, ok, sent>>

(* mutant: the copy does not wait for the DMA *)
OutputWithoutWait(c) ==
  /\ At(c, "wait")
  /\ dst' = [dst EXCEPT ![c] = tx_cur]
  /\ Goto(c, "copy")
  /\ UNCHANGED <<tx_chain, tx_cur, tx_dma, tbu, job, tx_history>>

(* The busy wait for the current descriptor, and the address of its buffer. *)
output_wait(c) ==
  /\ At(c, "wait")
  /\ ~tx_dav[tx_cur]
  /\ dst' = [dst EXCEPT ![c] = tx_cur]
  /\ Goto(c, "copy")
  /\ UNCHANGED <<tx_chain, tx_cur, tx_dma, tbu, job, tx_history>>

output_copy(c) ==
  /\ At(c, "copy")
  /\ buf' = [buf EXCEPT ![dst[c]] = job[c]]
  /\ Goto(c, "transmit")
  /\ UNCHANGED <<tx_dav, len, tx_cur, tx_dma, tbu, job, dst, tx_history>>

(* enet_frame_transmit up to DAV.  Its ERROR is not looked at, so            *)
(* low_level_output returns ERR_OK whatever happened.  The ERROR for a frame *)
(* longer than ENET_MAX_FRAME_SIZE is left out: with the MTU of 1500 that    *)
(* low_level_init gives the interface lwIP makes no such frame.              *)
enet_frame_transmit(c) ==
  /\ At(c, "transmit")
  /\ IF tx_dav[tx_cur]
     THEN /\ Goto(c, "idle")
          /\ ok' = ok \cup {job[c]}
          /\ UNCHANGED <<tx_dav, len>>
     ELSE /\ len' = [len EXCEPT ![tx_cur] = job[c]]
          /\ tx_dav' = [tx_dav EXCEPT ![tx_cur] = TRUE]
          /\ Goto(c, "resume")
          /\ UNCHANGED ok
  /\ UNCHANGED <<buf, tx_cur, tx_dma, tbu, job, dst, nframes, sent>>

(* mutant: a suspended DMA is not resumed *)
ResumeForgotten(c) ==
  /\ At(c, "resume")
  /\ tx_cur' = TxAfter(tx_cur)
  /\ ok' = ok \cup {job[c]}
  /\ Goto(c, "idle")
  /\ UNCHANGED <<tx_chain, tx_dma, tbu, job, dst, nframes, sent>>

(* The rest of it: clear TBU and poll the DMA if it was suspended, and take  *)
(* the next descriptor.                                                      *)
transmit_resume(c) ==
  /\ At(c, "resume")
  /\ tbu' = FALSE
  /\ tx_cur' = TxAfter(tx_cur)
  /\ ok' = ok \cup {job[c]}
  /\ Goto(c, "idle")
  /\ UNCHANGED <<tx_chain, tx_dma, job, dst, nframes, sent>>

(* The DMA sends a descriptor, or suspends (external). *)
dma_send ==
  /\ ~tbu
  /\ IF tx_dav[tx_dma]
     THEN /\ sent' = Append(sent, [bytes |-> buf[tx_dma], length |-> len[tx_dma]])
          /\ tx_dav' = [tx_dav EXCEPT ![tx_dma] = FALSE]
          /\ tx_dma' = TxAfter(tx_dma)
          /\ UNCHANGED tbu
     ELSE /\ tbu' = TRUE
          /\ UNCHANGED <<tx_dav, tx_dma, sent>>
  /\ UNCHANGED <<buf, len, tx_cur, locals, nframes, ok>>

Output(c) ==
  \/ output_wait(c) \/ output_copy(c) \/ enet_frame_transmit(c) \/ transmit_resume(c)

TxNext == dma_send \/ \E c \in Contexts : low_level_output(c) \/ Output(c)

(* The DMA and a context that is running go on. *)
TxSpec ==
  /\ TxInit /\ [][TxNext]_tx_vars
  /\ WF_tx_vars(dma_send)
  /\ \A c \in Contexts : WF_tx_vars(Output(c))

-----------------------------------------------------------------------------
(* The descriptors and the two contexts have their types. *)
TxTypeOK ==
  /\ tx_dav \in [TxDesc -> BOOLEAN]
  /\ buf \in [TxDesc -> 0 .. MaxTx] /\ len \in [TxDesc -> 0 .. MaxTx]
  /\ tx_cur \in TxDesc /\ tx_dma \in TxDesc /\ tbu \in BOOLEAN
  /\ tx_pc \in [Contexts -> {"idle", "wait", "copy", "transmit", "resume"}]
  /\ job \in [Contexts -> 0 .. MaxTx] /\ dst \in [Contexts -> TxDesc]
  /\ nframes \in 0 .. MaxTx /\ ok \subseteq TxFrames
  /\ \A i \in 1 .. Len(sent) : sent[i] \in [bytes : 0 .. MaxTx, length : 0 .. MaxTx]

(* The wire carries the frames of lwIP in their order, each once, with its   *)
(* own length and its own bytes: the copy never touches a buffer the DMA has *)
(* not sent yet, also when the chain is full.                                *)
WireInOrder ==
  \A i \in 1 .. Len(sent) : sent[i] = [bytes |-> i, length |-> i]

(* "@return ERR_OK if the packet could be sent" (ethernetif.c:142): a frame  *)
(* for which low_level_output returned ERR_OK has gone out, whole, or is in  *)
(* a descriptor that belongs to the DMA.                                     *)
OkMeansSent ==
  \A f \in ok :
    \/ \E i \in 1 .. Len(sent) : sent[i] = [bytes |-> f, length |-> f]
    \/ \E d \in TxDesc : tx_dav[d] /\ buf[d] = f /\ len[d] = f

(* Transmission keeps its books: descriptors and contexts have their types,  *)
(* the wire carries the frames in order and whole, and ERR_OK is the truth.  *)
TxInv == TxTypeOK /\ WireInOrder /\ OkMeansSent

(* Every frame goes out in the end: a DMA that suspended between two frames  *)
(* is resumed by the one that comes next, and a context waiting for a        *)
(* descriptor of a full chain gets it.                                       *)
EventuallySent ==
  \A f \in TxFrames : (nframes >= f) ~> (\E i \in 1 .. Len(sent) : sent[i].bytes = f)
=============================================================================
