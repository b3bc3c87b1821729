------------------------------ MODULE TcpEcho ------------------------------
(***************************************************************************)
(* The raw-API TCP echo server of user/sys/tcpecho_raw.c, one connection   *)
(* after another, with as much of lwIP as its callbacks rely on.           *)
(*                                                                         *)
(* Frames reach lwIP, and through it accept, recv, sent and err, from the  *)
(* ENET interrupt (app/gd32f4xx_it.c, lwip_pkt_handle); the timers, and    *)
(* through them poll and err, run in the main loop (lwip_periodic_handle). *)
(* With TwoContexts the interrupt may preempt the main loop anywhere, as   *)
(* in this firmware; without it lwIP is entered from one context at a      *)
(* time, as it requires.                                                   *)
(*                                                                         *)
(* Every pbuf carries one unit of data and is named by its position in the *)
(* received stream, so pbuf b can only be chained to b + 1.                *)
(***************************************************************************)
EXTENDS Naturals, Sequences, FiniteSetsExt

CONSTANTS
  TwoContexts,  \* the ENET interrupt may preempt the main loop inside lwIP
  Wnd,          \* TCP_WND, in pbufs
  SndBuf,       \* TCP_SND_BUF, in pbufs
  MaxPbufs      \* bound on the pbufs received on one connection

ASSUME EchoAssumption ==
  /\ TwoContexts \in BOOLEAN
  /\ {Wnd, SndBuf, MaxPbufs} \subseteq Nat \ {0}

VARIABLES
  pcb,          \* "none", "open", "closed" (tcp_close) or "aborted"
  callbacks,    \* the callbacks registered on pcb; tcp_arg is es while there are any
  es,           \* struct tcpecho_raw_state: live, state, and p (0 for NULL)
  ref, link,    \* pbuf b: its reference count, and whether b->next is b + 1
  pc, ptr,      \* per context: position in tcpecho_raw_send, and its local ptr
  wnd, sndbuf,  \* lwIP: rcv_wnd and snd_buf of the pcb
  fin,          \* lwIP: the peer's FIN has been reported
  nrecv,        \* history: pbufs received on this connection
  out,          \* history: the pbufs handed to tcp_write, in order
  closing,      \* history: what tcp_close sent, "fin", "rst" or "none"
  fault         \* history: freed memory was used or freed again

app == <<callbacks, es>>
pbufs == <<ref, link>>
lwip == <<pcb, wnd, sndbuf, fin>>
ghosts == <<nrecv, out, closing, fault>>
vars == <<app, pbufs, pc, ptr, lwip, ghosts>>

Contexts == {"isr", "main"}
Pbufs == 1 .. MaxPbufs
Callbacks == {"recv", "sent", "poll", "err"}
NoState == [live |-> FALSE, state |-> "ES_NONE", p |-> 0]

Init ==
  /\ pcb = "none" /\ callbacks = {} /\ es = NoState
  /\ ref = [b \in Pbufs |-> 0] /\ link = [b \in Pbufs |-> FALSE]
  /\ pc = [c \in Contexts |-> "idle"] /\ ptr = [c \in Contexts |-> 0]
  /\ wnd = Wnd /\ sndbuf = SndBuf /\ fin = FALSE
  /\ nrecv = 0 /\ out = <<>> /\ closing = "none" /\ fault = FALSE

-----------------------------------------------------------------------------
(* lwIP enters a callback in context c. *)
Enters(c) ==
  /\ pc[c] = "idle"
  /\ pc["isr"] = "idle"
  /\ pc["main"] = "idle" \/ TwoContexts

(* Context c is at a label of tcpecho_raw_send and not preempted. *)
At(c, label) == pc[c] = label /\ (c = "main" => pc["isr"] = "idle")

Goto(c, label) == pc' = [pc EXCEPT ![c] = label]

(* pbuf_free(b): drop a reference, and go down the chain as long as that     *)
(* was the last one (external).                                              *)
FreeEnd(b) == Min({e \in b .. MaxPbufs : ref[e] # 1 \/ ~link[e]})

pbuf_free(b) ==
  /\ ref' = [x \in Pbufs |-> IF x \in b .. FreeEnd(b) /\ ref[x] > 0 THEN ref[x] - 1
                             ELSE ref[x]]
  /\ link' = [x \in Pbufs |-> link[x] /\ ~(x \in b .. FreeEnd(b) /\ ref[x] <= 1)]

(* mutant: the pbuf chain is not freed with es *)
LeakChain == UNCHANGED pbufs

tcpecho_raw_free == IF es.p # 0 THEN pbuf_free(es.p) ELSE UNCHANGED pbufs

FreesTwice == ~es.live \/ (es.p # 0 /\ ref[es.p] = 0)

(* tcpecho_raw_close.  lwIP's tcp_close sends RST in place of FIN when the   *)
(* receive window shows data the application never took (external).          *)
tcpecho_raw_close ==
  /\ callbacks' = {}
  /\ tcpecho_raw_free
  /\ es' = NoState
  /\ pcb' = "closed"
  /\ closing' = IF wnd = Wnd THEN "fin" ELSE "rst"
  /\ fault' = (fault \/ FreesTwice)

-----------------------------------------------------------------------------
(* tcpecho_raw_send, one access after another: the loop's test, tcp_write,   *)
(* chopping the head off the chain, and giving it back.                      *)

Fault(c) ==
  /\ fault' = TRUE
  /\ Goto(c, "idle")
  /\ UNCHANGED <<app, pbufs, ptr, lwip, nrecv, out, closing>>

send_test(c) ==
  /\ At(c, "test")
  /\ IF ~es.live \/ pcb # "open"
     THEN Fault(c)
     ELSE /\ IF es.p # 0 /\ sndbuf >= 1
             THEN Goto(c, "write") /\ ptr' = [ptr EXCEPT ![c] = es.p]
             ELSE Goto(c, "idle") /\ UNCHANGED ptr
          /\ UNCHANGED <<app, pbufs, lwip, ghosts>>

(* The context resumes with a ptr, an es or a pcb that is no longer there. *)
Stale(c) == ~es.live \/ pcb # "open" \/ ref[ptr[c]] = 0

(* tcp_write copies the data (TCP_WRITE_FLAG_COPY) *)
send_write(c) ==
  /\ At(c, "write")
  /\ IF Stale(c)
     THEN Fault(c)
     ELSE /\ sndbuf' = IF sndbuf > 0 THEN sndbuf - 1 ELSE 0
          /\ out' = Append(out, ptr[c])
          /\ Goto(c, "chop")
          /\ UNCHANGED <<app, pbufs, ptr, pcb, wnd, fin, nrecv, closing, fault>>

(* tcp_write fails: es->p is left for a later call of poll or sent *)
send_nomem(c) ==
  /\ At(c, "write")
  /\ ~Stale(c)
  /\ es' = [es EXCEPT !.p = ptr[c]]
  /\ Goto(c, "idle")
  /\ UNCHANGED <<callbacks, pbufs, ptr, lwip, ghosts>>

(* mutant: the rest of the chain is not referenced before the head goes *)
ChopWithoutRef(c) ==
  /\ At(c, "chop")
  /\ IF Stale(c)
     THEN Fault(c)
     ELSE /\ es' = [es EXCEPT !.p = IF link[ptr[c]] THEN ptr[c] + 1 ELSE 0]
          /\ Goto(c, "release")
          /\ UNCHANGED <<callbacks, pbufs, ptr, lwip, ghosts>>

send_chop(c) ==
  /\ At(c, "chop")
  /\ IF Stale(c)
     THEN Fault(c)
     ELSE /\ es' = [es EXCEPT !.p = IF link[ptr[c]] THEN ptr[c] + 1 ELSE 0]
          /\ ref' = [b \in Pbufs |->
                       IF b = ptr[c] + 1 /\ link[ptr[c]] THEN ref[b] + 1 ELSE ref[b]]
          /\ Goto(c, "release")
          /\ UNCHANGED <<callbacks, link, ptr, lwip, ghosts>>

send_release(c) ==
  /\ At(c, "release")
  /\ IF Stale(c)
     THEN Fault(c)
     ELSE /\ pbuf_free(ptr[c])
          /\ wnd' = wnd + 1
          /\ Goto(c, "test")
          /\ UNCHANGED <<app, ptr, pcb, sndbuf, fin, ghosts>>

SendStep(c) ==
  \/ send_test(c) \/ send_write(c) \/ send_nomem(c) \/ send_chop(c) \/ send_release(c)

-----------------------------------------------------------------------------
(* The callbacks. *)

(* tcpecho_raw_accept; when mem_malloc fails lwIP drops the connection *)
tcpecho_raw_accept ==
  /\ Enters("isr")
  /\ pcb # "open"
  /\ pcb' = "open" /\ wnd' = Wnd /\ sndbuf' = SndBuf /\ fin' = FALSE
  /\ es' = [live |-> TRUE, state |-> "ES_ACCEPTED", p |-> 0]
  /\ callbacks' = Callbacks
  /\ nrecv' = 0 /\ out' = <<>> /\ closing' = "none"
  /\ UNCHANGED <<pbufs, pc, ptr, fault>>

(* tcpecho_raw_recv with a chain of n pbufs.  Data only comes before the     *)
(* FIN, so the state is ES_ACCEPTED or ES_RECEIVED.                          *)
Arrived(n) == nrecv + 1 .. nrecv + n

(* mutant: data that comes while a chain is pending replaces it *)
RecvReplacesChain(n) ==
  /\ Enters("isr")
  /\ pcb = "open" /\ "recv" \in callbacks /\ ~fin
  /\ n <= wnd /\ nrecv + n <= MaxPbufs
  /\ es' = [es EXCEPT !.state = "ES_RECEIVED", !.p = nrecv + 1]
  /\ Goto("isr", "test")
  /\ ref' = [b \in Pbufs |-> IF b \in Arrived(n) THEN 1 ELSE ref[b]]
  /\ link' = [b \in Pbufs |-> link[b] \/ (b \in Arrived(n) /\ b + 1 \in Arrived(n))]
  /\ nrecv' = nrecv + n /\ wnd' = wnd - n
  /\ UNCHANGED <<callbacks, ptr, pcb, sndbuf, fin, out, closing, fault>>

tcpecho_raw_recv(n) ==
  /\ Enters("isr")
  /\ pcb = "open" /\ "recv" \in callbacks /\ ~fin
  /\ n <= wnd /\ nrecv + n <= MaxPbufs
  /\ LET first == es.state = "ES_ACCEPTED" \/ es.p = 0
     IN /\ es' = [es EXCEPT !.state = "ES_RECEIVED",
                            !.p = IF first THEN nrecv + 1 ELSE es.p]
        /\ IF first THEN Goto("isr", "test") ELSE UNCHANGED pc
        /\ ref' = [b \in Pbufs |-> IF b \in Arrived(n) THEN 1 ELSE ref[b]]
        /\ link' = [b \in Pbufs |->
                      \/ link[b]
                      \/ b \in Arrived(n) /\ b + 1 \in Arrived(n)
                      \/ ~first /\ b = nrecv]        \* pbuf_cat
  /\ nrecv' = nrecv + n /\ wnd' = wnd - n
  /\ UNCHANGED <<callbacks, ptr, pcb, sndbuf, fin, out, closing, fault>>

(* mutant: close at the FIN, pending data or not *)
CloseAtFin ==
  /\ Enters("isr")
  /\ pcb = "open" /\ "recv" \in callbacks /\ ~fin
  /\ fin' = TRUE
  /\ tcpecho_raw_close
  /\ UNCHANGED <<pc, ptr, wnd, sndbuf, nrecv, out>>

(* mutant: a FIN with data pending is not remembered *)
FinForgotten ==
  /\ Enters("isr")
  /\ pcb = "open" /\ "recv" \in callbacks /\ ~fin
  /\ fin' = TRUE
  /\ IF es.p = 0
     THEN tcpecho_raw_close /\ UNCHANGED pc
     ELSE Goto("isr", "test") /\ UNCHANGED <<app, pbufs, pcb, closing, fault>>
  /\ UNCHANGED <<ptr, wnd, sndbuf, nrecv, out>>

(* tcpecho_raw_recv with p == NULL: the peer has closed *)
recv_fin ==
  /\ Enters("isr")
  /\ pcb = "open" /\ "recv" \in callbacks /\ ~fin
  /\ fin' = TRUE
  /\ IF es.p = 0
     THEN tcpecho_raw_close /\ UNCHANGED pc
     ELSE /\ es' = [es EXCEPT !.state = "ES_CLOSING"]
          /\ Goto("isr", "test")
          /\ UNCHANGED <<callbacks, pbufs, pcb, closing, fault>>
  /\ UNCHANGED <<ptr, wnd, sndbuf, nrecv, out>>

(* What poll and sent have in common: send what is pending, else close if   *)
(* the peer has.                                                             *)
SendOrClose(c) ==
  IF es.p # 0
  THEN Goto(c, "test") /\ UNCHANGED <<app, pbufs, pcb, closing, fault>>
  ELSE /\ UNCHANGED pc
       /\ IF es.state = "ES_CLOSING"
          THEN tcpecho_raw_close
          ELSE UNCHANGED <<app, pbufs, pcb, closing, fault>>

(* lwIP frees acknowledged data and calls tcpecho_raw_sent *)
tcpecho_raw_sent(n) ==
  /\ Enters("isr")
  /\ pcb = "open" /\ "sent" \in callbacks
  /\ sndbuf + n <= SndBuf
  /\ sndbuf' = sndbuf + n
  /\ SendOrClose("isr")
  /\ UNCHANGED <<ptr, wnd, fin, nrecv, out>>

(* mutant: poll only closes, it never retries *)
PollNeverSends ==
  /\ Enters("main")
  /\ pcb = "open" /\ "poll" \in callbacks
  /\ es.p = 0 /\ es.state = "ES_CLOSING"
  /\ tcpecho_raw_close
  /\ UNCHANGED <<pc, ptr, wnd, sndbuf, fin, nrecv, out>>

tcpecho_raw_poll ==
  /\ Enters("main")
  /\ pcb = "open" /\ "poll" \in callbacks
  /\ SendOrClose("main")
  /\ UNCHANGED <<ptr, wnd, sndbuf, fin, nrecv, out>>

(* A reset from the peer (isr) or a timeout (main): lwIP has already freed   *)
(* the pcb.                                                                  *)
tcpecho_raw_error(c) ==
  /\ Enters(c)
  /\ pcb = "open" /\ "err" \in callbacks
  /\ tcpecho_raw_free
  /\ es' = NoState
  /\ callbacks' = {} /\ pcb' = "aborted"
  /\ fault' = (fault \/ FreesTwice)
  /\ UNCHANGED <<pc, ptr, wnd, sndbuf, fin, nrecv, out, closing>>

-----------------------------------------------------------------------------
Next ==
  \/ tcpecho_raw_accept
  \/ \E n \in 1 .. MaxPbufs : tcpecho_raw_recv(n) \/ tcpecho_raw_sent(n)
  \/ recv_fin
  \/ tcpecho_raw_poll
  \/ \E c \in Contexts : SendStep(c) \/ tcpecho_raw_error(c)

Spec == Init /\ [][Next]_vars

(* The main loop goes on calling lwip_periodic_handle; the peer goes on      *)
(* acknowledging; tcp_write does not fail for ever; a context that is        *)
(* running goes on.                                                          *)
FairSpec ==
  /\ Spec
  /\ SF_vars(tcpecho_raw_poll)
  /\ SF_vars(\E n \in 1 .. MaxPbufs : tcpecho_raw_sent(n))
  /\ \A c \in Contexts : WF_vars(SendStep(c)) /\ SF_vars(send_write(c))

-----------------------------------------------------------------------------
(* struct tcpecho_raw_state *)
EchoStates == [live : BOOLEAN,
               state : {"ES_NONE", "ES_ACCEPTED", "ES_RECEIVED", "ES_CLOSING"},
               p : 0 .. MaxPbufs]

(* The fields of the echo state and of lwIP's pcb stay in their ranges, and  *)
(* the window is never reopened beyond its size.                             *)
TypeOK ==
  /\ pcb \in {"none", "open", "closed", "aborted"}
  /\ callbacks \subseteq Callbacks
  /\ es \in EchoStates
  /\ ref \in [Pbufs -> 0 .. 2] /\ link \in [Pbufs -> BOOLEAN]
  /\ pc \in [Contexts -> {"idle", "test", "write", "chop", "release"}]
  /\ ptr \in [Contexts -> 0 .. MaxPbufs]
  /\ wnd \in 0 .. Wnd /\ sndbuf \in 0 .. SndBuf
  /\ fin \in BOOLEAN /\ nrecv \in 0 .. MaxPbufs /\ out \in Seq(Pbufs)
  /\ closing \in {"none", "fin", "rst"} /\ fault \in BOOLEAN

(* No pbuf and no echo state is used after it was freed, or freed twice: the *)
(* reference that tcpecho_raw_send takes on the rest of the chain is the one *)
(* that pbuf_free of its head gives up.                                      *)
(* "you have to watch out for yourself that you don't access lwIP functions/ *)
(* structures from more than one context at a time" (lwip opt.h:85).         *)
MemorySafe == ~fault

(* Every pbuf the peer's data is held in is on the chain at es->p, with one  *)
(* reference, and none is left once the connection is over, however it       *)
(* ended: close, reset or timeout with data pending.                         *)
NoLeak ==
  (\A c \in Contexts : pc[c] \in {"idle", "test", "write"}) =>
    \A b \in Pbufs :
      ref[b] = IF pcb = "open" /\ es.p # 0 /\ b \in es.p .. nrecv THEN 1 ELSE 0

(* The server's bookkeeping is sound: windows, send buffer and reference     *)
(* counts of tcpecho_raw's pbufs are in range, and none of them is leaked.   *)
EchoInv == TypeOK /\ NoLeak

(* What is echoed is what was received, in the order in which it was, each   *)
(* byte once, however sends are cut short and resumed by recv, sent or poll. *)
EchoesInOrder == \A i \in 1 .. Len(out) : out[i] = i

(* The server ends a connection only after it has echoed everything, and by  *)
(* FIN: every byte was given back to the receive window with tcp_recved, for *)
(* otherwise lwIP would send RST and discard the echo still in flight.       *)
GracefulClose ==
  pcb = "closed" => Len(out) = nrecv /\ closing = "fin"

(* Everything received is echoed in the end, or the connection fails: data   *)
(* chained behind a send that ran out of memory or of send buffer is picked  *)
(* up by sent or poll, as recv itself does not send it.                      *)
EventuallyEchoed ==
  \A n \in Pbufs : (pcb = "open" /\ nrecv >= n) ~> (Len(out) >= n \/ pcb # "open")

(* A connection the peer has closed is closed in the end: when the last data *)
(* goes out with the FIN already seen, nothing but a later sent or poll      *)
(* closes it.                                                                *)
EventuallyClosed == (pcb = "open" /\ fin) ~> (pcb # "open")
=============================================================================
