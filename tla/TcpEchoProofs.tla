--------------------------- MODULE TcpEchoProofs ---------------------------
(***************************************************************************)
(* For any window, send buffer and number of pbufs, and with lwIP entered  *)
(* from one context at a time: the echo server uses no memory it freed,    *)
(* leaks none, echoes in order and ends a connection by FIN.               *)
(***************************************************************************)
EXTENDS TcpEcho, TLAPS

(* The send loop has written the head of the chain and not given it back; it *)
(* has taken the reference on the rest of the chain.                         *)
Written == \E c \in Contexts : pc[c] \in {"chop", "release"}
Chopped == \E c \in Contexts : pc[c] = "release"

(* The first pbuf that is not given back. *)
Oldest == IF Written THEN Len(out) ELSE Len(out) + 1

(* The chain runs from h to the last pbuf received, and the window is closed *)
(* by what is on it; after the chop es->p and a second reference are one     *)
(* further.                                                                  *)
Chain(h, chopped) ==
  /\ h \in 1 .. nrecv + 1
  /\ wnd + nrecv + 1 = Wnd + h
  /\ IF chopped THEN es.p = (IF h < nrecv THEN h + 1 ELSE 0)
                ELSE es.p = (IF h <= nrecv THEN h ELSE 0)
  /\ \A b \in Pbufs :
       /\ ref[b] = IF b \in h .. nrecv THEN IF chopped /\ b = h + 1 THEN 2 ELSE 1 ELSE 0
       /\ link[b] <=> b \in h .. nrecv /\ b # nrecv
  /\ \A c \in Contexts : pc[c] \in {"write", "chop", "release"} => ptr[c] = h /\ h <= nrecv

(* A connection that is open, and one that is not. *)
OpenInv ==
  pcb = "open" =>
    /\ es.live /\ callbacks = Callbacks
    /\ es.state = "ES_ACCEPTED" => es.p = 0
    /\ Chain(Oldest, Chopped)

DownInv ==
  pcb # "open" =>
    /\ es = NoState /\ callbacks = {}
    /\ \A c \in Contexts : pc[c] = "idle"
    /\ \A b \in Pbufs : ref[b] = 0 /\ ~link[b]

(* The inductive invariant; one context at most is in tcpecho_raw_send. *)
IInv ==
  /\ TypeOK /\ ~fault /\ (\E c \in Contexts : pc[c] = "idle")
  /\ OpenInv /\ DownInv /\ EchoesInOrder /\ GracefulClose

-----------------------------------------------------------------------------
(* pbuf_free stops at the first pbuf that somebody else holds, or that is    *)
(* the last of its chain.                                                    *)
LEMMA FreeEndIs ==
  ASSUME NEW b \in Pbufs, NEW e \in b .. MaxPbufs,
         \A x \in b .. MaxPbufs : x < e => ref[x] = 1 /\ link[x],
         ref[e] # 1 \/ ~link[e]
  PROVE  FreeEnd(b) = e
<1> DEFINE S == {x \in b .. MaxPbufs : ref[x] # 1 \/ ~link[x]}
<1>1. e \in S /\ \A y \in S : e <= y
  BY EchoAssumption DEF Pbufs
<1>2. \A x \in S : (\A y \in S : x <= y) => x = e
  BY <1>1, EchoAssumption DEF Pbufs
<1> HIDE DEF S
<1>3. Min(S) = e
  BY <1>1, <1>2 DEF Min
<1> QED BY <1>3 DEF FreeEnd, S

(* The echo state stays one when its fields are assigned. *)
LEMMA EsP ==
  ASSUME NEW r \in EchoStates, NEW q \in 0 .. MaxPbufs
  PROVE  /\ [r EXCEPT !.p = q] \in EchoStates
         /\ [r EXCEPT !.p = q].p = q /\ [r EXCEPT !.p = q].live = r.live
         /\ [r EXCEPT !.p = q].state = r.state
BY DEF EchoStates

(* The same of its state. *)
LEMMA EsState ==
  ASSUME NEW r \in EchoStates, NEW st \in {"ES_RECEIVED", "ES_CLOSING"}
  PROVE  /\ [r EXCEPT !.state = st] \in EchoStates
         /\ [r EXCEPT !.state = st].p = r.p /\ [r EXCEPT !.state = st].live = r.live
         /\ [r EXCEPT !.state = st].state = st
BY DEF EchoStates

(* The same of both, as tcpecho_raw_recv assigns them. *)
LEMMA EsReceived ==
  ASSUME NEW r \in EchoStates, NEW q \in 0 .. MaxPbufs
  PROVE  /\ [r EXCEPT !.state = "ES_RECEIVED", !.p = q] \in EchoStates
         /\ [r EXCEPT !.state = "ES_RECEIVED", !.p = q].p = q
         /\ [r EXCEPT !.state = "ES_RECEIVED", !.p = q].live = r.live
         /\ [r EXCEPT !.state = "ES_RECEIVED", !.p = q].state = "ES_RECEIVED"
BY DEF EchoStates

(* What the arithmetic below needs of the types. *)
LEMMA Numbers ==
  ASSUME TypeOK
  PROVE  /\ Wnd \in Nat /\ MaxPbufs \in Nat \ {0} /\ nrecv \in 0 .. MaxPbufs
         /\ wnd \in 0 .. Wnd /\ Len(out) \in Nat /\ es.p \in 0 .. MaxPbufs
BY EchoAssumption DEF TypeOK, EchoStates

(* It holds before the first connection. *)
LEMMA InitInv == Init => IInv
<1> SUFFICES ASSUME Init PROVE IInv
  OBVIOUS
<1> USE EchoAssumption DEF Init, Pbufs
<1>1. TypeOK
  <2>1. es \in EchoStates
    BY DEF NoState, EchoStates
  <2>2. ref \in [Pbufs -> 0 .. 2] /\ link \in [Pbufs -> BOOLEAN]
    OBVIOUS
  <2>3. ptr \in [Contexts -> 0 .. MaxPbufs]
    OBVIOUS
  <2>4. pc \in [Contexts -> {"idle", "test", "write", "chop", "release"}]
    OBVIOUS
  <2>5. wnd \in 0 .. Wnd /\ sndbuf \in 0 .. SndBuf /\ nrecv \in 0 .. MaxPbufs
    OBVIOUS
  <2>6. /\ pcb \in {"none", "open", "closed", "aborted"} /\ callbacks \subseteq Callbacks
        /\ fin \in BOOLEAN /\ closing \in {"none", "fin", "rst"} /\ fault \in BOOLEAN
    OBVIOUS
  <2>7. out \in Seq(Pbufs)
    OBVIOUS
  <2> HIDE DEF Init, Pbufs
  <2> QED BY <2>1, <2>2, <2>3, <2>4, <2>5, <2>6, <2>7 DEF TypeOK
<1>2. ~fault /\ (\E c \in Contexts : pc[c] = "idle") /\ OpenInv /\ DownInv
  BY DEF OpenInv, DownInv, Contexts
<1>3. EchoesInOrder /\ GracefulClose
  BY DEF EchoesInOrder, GracefulClose
<1> QED BY <1>1, <1>2, <1>3 DEF IInv

-----------------------------------------------------------------------------
(* A context that is in tcpecho_raw_send is alone there, and has a           *)
(* connection, an echo state and a pbuf.                                     *)
LEMMA SendFacts ==
  ASSUME IInv, NEW c \in Contexts, pc[c] # "idle"
  PROVE  /\ pcb = "open" /\ es.live /\ callbacks = Callbacks
         /\ \A e \in Contexts : e # c => pc[e] = "idle"
         /\ Chain(IF pc[c] \in {"chop", "release"} THEN Len(out) ELSE Len(out) + 1,
                  pc[c] = "release")
         /\ pc[c] \in {"write", "chop", "release"} => ~Stale(c) /\ ptr[c] \in 1 .. nrecv
<1>1. pcb = "open"
  BY DEF IInv, DownInv
<1>2. es.live /\ callbacks = Callbacks /\ Chain(Oldest, Chopped)
  BY <1>1 DEF IInv, OpenInv
<1>3. \A e \in Contexts : e # c => pc[e] = "idle"
  BY DEF IInv, Contexts
<1>4. (Written <=> pc[c] \in {"chop", "release"}) /\ (Chopped <=> pc[c] = "release")
  BY <1>3 DEF Written, Chopped
<1>5. Chain(IF pc[c] \in {"chop", "release"} THEN Len(out) ELSE Len(out) + 1,
            pc[c] = "release")
  BY <1>2, <1>4 DEF Oldest, Chain
<1>6. ASSUME pc[c] \in {"write", "chop", "release"}
      PROVE  ~Stale(c) /\ ptr[c] \in 1 .. nrecv
  <2>1. PICK h : h = Oldest
    OBVIOUS
  <2>2. ptr[c] = h /\ h <= nrecv /\ h \in 1 .. nrecv + 1
    BY <1>2, <1>6, <2>1 DEF Chain
  <2>3. h \in Pbufs /\ h \in h .. nrecv
    BY <2>2, Numbers DEF IInv, Pbufs
  <2>4. ref[h] # 0
    BY <1>2, <2>1, <2>3 DEF Chain
  <2> QED BY <1>1, <1>2, <2>2, <2>3, <2>4, Numbers DEF Stale, IInv
<1> QED BY <1>1, <1>2, <1>3, <1>5, <1>6

(* A context that goes to a label stays alone. *)
LEMMA GotoFacts ==
  ASSUME NEW c \in Contexts, NEW l \in {"idle", "test", "write", "chop", "release"},
         pc \in [Contexts -> {"idle", "test", "write", "chop", "release"}],
         \A e \in Contexts : e # c => pc[e] = "idle", Goto(c, l)
  PROVE  /\ pc' \in [Contexts -> {"idle", "test", "write", "chop", "release"}]
         /\ pc'[c] = l /\ \A e \in Contexts : e # c => pc'[e] = "idle"
         /\ \E e \in Contexts : pc'[e] = "idle"
         /\ Written' <=> l \in {"chop", "release"}
         /\ Chopped' <=> l = "release"
<1>1. /\ pc' \in [Contexts -> {"idle", "test", "write", "chop", "release"}]
      /\ pc'[c] = l /\ \A e \in Contexts : e # c => pc'[e] = "idle"
  BY DEF Goto
<1>2. \E e \in Contexts : pc'[e] = "idle"
  BY <1>1 DEF Contexts
<1> QED BY <1>1, <1>2 DEF Written, Chopped

(* A step of the send loop keeps the invariant when it leaves the chain from *)
(* h on, which is the one its next position sees.                            *)
LEMMA SendAssembles ==
  ASSUME IInv, NEW c \in Contexts, pc[c] # "idle",
         NEW l \in {"idle", "test", "write", "chop", "release"}, Goto(c, l),
         TypeOK', EchoesInOrder', UNCHANGED <<callbacks, pcb, fault>>,
         es'.live, es'.state = "ES_ACCEPTED" => es'.p = 0,
         NEW h, h = (IF l \in {"chop", "release"} THEN Len(out') ELSE Len(out') + 1),
         Chain(h, l = "release")'
  PROVE  IInv'
<1>1. pcb = "open" /\ callbacks = Callbacks /\ \A e \in Contexts : e # c => pc[e] = "idle"
  BY SendFacts
<1>2. pc \in [Contexts -> {"idle", "test", "write", "chop", "release"}]
  BY DEF IInv, TypeOK
<1>3. /\ \E e \in Contexts : pc'[e] = "idle"
      /\ Written' <=> l \in {"chop", "release"}
      /\ Chopped' <=> l = "release"
  BY <1>1, <1>2, GotoFacts
<1>4. Oldest' = h /\ Chopped' = (l = "release")
  BY <1>3 DEF Oldest, Chopped
<1>5. Chain(Oldest, Chopped)'
  BY <1>4 DEF Chain
<1>6. OpenInv' /\ DownInv' /\ GracefulClose' /\ ~fault'
  BY <1>1, <1>5 DEF OpenInv, DownInv, GracefulClose, IInv
<1> QED BY <1>3, <1>6 DEF IInv

(* The send loop keeps it: every access finds what it needs, and the pbuf    *)
(* that is given back is the head of the chain, alone.                       *)
LEMMA SendKeeps == ASSUME IInv, NEW c \in Contexts, SendStep(c) PROVE IInv'
<1>0. PICK h : h = IF pc[c] \in {"chop", "release"} THEN Len(out) ELSE Len(out) + 1
  OBVIOUS
<1>1. pc[c] # "idle"
  BY DEF SendStep, send_test, send_write, send_nomem, send_chop, send_release, At
<1>2. /\ pcb = "open" /\ es.live
      /\ \A e \in Contexts : e # c => pc[e] = "idle"
      /\ Chain(h, pc[c] = "release")
      /\ pc[c] \in {"write", "chop", "release"} => ~Stale(c)
  BY <1>0, <1>1, SendFacts
<1>3. TypeOK /\ EchoesInOrder /\ (es.state = "ES_ACCEPTED" => es.p = 0)
  BY <1>2 DEF IInv, OpenInv
<1>4. /\ pc \in [Contexts -> {"idle", "test", "write", "chop", "release"}]
      /\ ptr \in [Contexts -> 0 .. MaxPbufs] /\ es \in EchoStates
      /\ ref \in [Pbufs -> 0 .. 2] /\ link \in [Pbufs -> BOOLEAN] /\ out \in Seq(Pbufs)
  BY <1>3 DEF TypeOK
<1>5. /\ Wnd \in Nat /\ MaxPbufs \in Nat \ {0} /\ nrecv \in 0 .. MaxPbufs
      /\ wnd \in 0 .. Wnd /\ Len(out) \in Nat /\ es.p \in 0 .. MaxPbufs
      /\ h \in 1 .. nrecv + 1
  BY <1>2, <1>3, Numbers DEF Chain
<1>6. ASSUME NEW l \in {"idle", "test", "write", "chop", "release"}, Goto(c, l)
      PROVE  /\ pc' \in [Contexts -> {"idle", "test", "write", "chop", "release"}]
             /\ pc'[c] = l /\ \A e \in Contexts : e # c => pc'[e] = "idle"
  BY <1>2, <1>4, <1>6, GotoFacts
<1>7. CASE send_test(c)
  <2>1. /\ pc[c] = "test"
        /\ UNCHANGED <<callbacks, es, ref, link, pcb, wnd, sndbuf, fin, nrecv, out, closing, fault>>
        /\ \/ es.p # 0 /\ Goto(c, "write") /\ ptr' = [ptr EXCEPT ![c] = es.p]
           \/ Goto(c, "idle") /\ UNCHANGED ptr
    BY <1>2, <1>7 DEF send_test, At, app, pbufs, lwip, ghosts
  <2>2. h = Len(out) + 1 /\ (es.p # 0 => es.p = h /\ h <= nrecv)
    BY <1>0, <1>2, <2>1 DEF Chain
  <2>3. EchoesInOrder' /\ ptr' \in [Contexts -> 0 .. MaxPbufs]
    BY <1>3, <1>4, <1>5, <2>1 DEF EchoesInOrder
  <2>4. CASE Goto(c, "idle") /\ UNCHANGED ptr
    <3>1. TypeOK'
      BY <1>3, <1>6, <2>1, <2>4 DEF TypeOK
    <3>2. Chain(h, FALSE)'
      BY <1>2, <1>6, <2>1, <2>4 DEF Chain
    <3> QED BY <1>1, <1>2, <1>3, <2>1, <2>2, <2>3, <2>4, <3>1, <3>2, SendAssembles
  <2>5. CASE es.p # 0 /\ Goto(c, "write") /\ ptr' = [ptr EXCEPT ![c] = es.p]
    <3>1. TypeOK'
      BY <1>3, <1>6, <2>1, <2>3, <2>5 DEF TypeOK
    <3>2. ptr'[c] = h /\ h <= nrecv
      BY <1>4, <2>2, <2>5
    <3>3. Chain(h, FALSE)'
      BY <1>2, <1>6, <2>1, <2>5, <3>2 DEF Chain
    <3> QED BY <1>1, <1>2, <1>3, <2>1, <2>2, <2>3, <2>5, <3>1, <3>3, SendAssembles
  <2> QED BY <2>1, <2>4, <2>5
<1>8. CASE send_write(c)
  <2>1. /\ pc[c] = "write" /\ sndbuf' = (IF sndbuf > 0 THEN sndbuf - 1 ELSE 0)
        /\ out' = Append(out, ptr[c]) /\ Goto(c, "chop")
        /\ UNCHANGED <<callbacks, es, ref, link, ptr, pcb, wnd, fin, nrecv, closing, fault>>
    BY <1>2, <1>8 DEF send_write, At, app, pbufs
  <2>2. h = Len(out) + 1 /\ ptr[c] = h /\ h <= nrecv /\ h \in Pbufs
    BY <1>0, <1>2, <1>5, <2>1 DEF Chain, Pbufs
  <2>3. /\ out' \in Seq(Pbufs) /\ Len(out') = h
        /\ \A i \in 1 .. Len(out) : out'[i] = out[i]
        /\ out'[h] = h
    BY <1>4, <2>1, <2>2
  <2>4. EchoesInOrder'
    <3>1. \A i \in 1 .. Len(out') : i \in 1 .. Len(out) \/ i = h
      BY <1>5, <2>2, <2>3
    <3> QED BY <1>3, <2>3, <3>1 DEF EchoesInOrder
  <2>5. TypeOK'
    <3>1. sndbuf' \in 0 .. SndBuf
      BY <1>3, <2>1, EchoAssumption DEF TypeOK
    <3> QED BY <1>3, <1>6, <2>1, <2>3, <3>1 DEF TypeOK
  <2>6. Chain(h, FALSE)'
    BY <1>2, <1>6, <2>1, <2>2 DEF Chain
  <2> QED BY <1>1, <1>2, <1>3, <2>1, <2>3, <2>4, <2>5, <2>6, SendAssembles
<1>9. CASE send_nomem(c)
  <2>1. /\ pc[c] = "write" /\ es' = [es EXCEPT !.p = ptr[c]] /\ Goto(c, "idle")
        /\ UNCHANGED <<callbacks, ref, link, ptr, pcb, wnd, sndbuf, fin, nrecv, out, closing, fault>>
    BY <1>9 DEF send_nomem, At, pbufs, lwip, ghosts
  <2>2. h = Len(out) + 1 /\ ptr[c] = h /\ h <= nrecv /\ es.p = h /\ h # 0
    BY <1>0, <1>2, <1>5, <2>1 DEF Chain
  <2>3. /\ es' \in EchoStates /\ es'.p = es.p /\ es'.live = es.live /\ es'.state = es.state
    <3>1. ptr[c] \in 0 .. MaxPbufs /\ es.p = ptr[c]
      BY <1>4, <2>2
    <3> QED BY <1>4, <2>1, <3>1, EsP
  <2>4. TypeOK' /\ EchoesInOrder'
    BY <1>3, <1>6, <2>1, <2>3 DEF TypeOK, EchoesInOrder
  <2>5. Chain(h, FALSE)'
    BY <1>2, <1>6, <2>1, <2>3 DEF Chain
  <2> QED BY <1>1, <1>2, <1>3, <2>1, <2>2, <2>3, <2>4, <2>5, SendAssembles
<1>10. CASE send_chop(c)
  <2>1. /\ pc[c] = "chop" /\ es' = [es EXCEPT !.p = IF link[ptr[c]] THEN ptr[c] + 1 ELSE 0]
        /\ ref' = [b \in Pbufs |->
                     IF b = ptr[c] + 1 /\ link[ptr[c]] THEN ref[b] + 1 ELSE ref[b]]
        /\ Goto(c, "release")
        /\ UNCHANGED <<callbacks, link, ptr, pcb, wnd, sndbuf, fin, nrecv, out, closing, fault>>
    BY <1>2, <1>10 DEF send_chop, At, lwip, ghosts
  <2>2. /\ h = Len(out) /\ ptr[c] = h /\ h <= nrecv /\ es.p = h /\ h # 0
        /\ h \in Pbufs /\ (link[h] <=> h < nrecv)
    BY <1>0, <1>2, <1>5, <2>1 DEF Chain, Pbufs
  <2>3. PICK q \in 0 .. MaxPbufs :
          /\ q = (IF link[ptr[c]] THEN ptr[c] + 1 ELSE 0)
          /\ q = (IF h < nrecv THEN h + 1 ELSE 0)
    BY <1>5, <2>2
  <2>4. /\ es' \in EchoStates /\ es'.p = (IF h < nrecv THEN h + 1 ELSE 0)
        /\ es'.live = es.live /\ es'.state = es.state
    <3>1. es' = [es EXCEPT !.p = q]
      BY <2>1, <2>3
    <3>2. es' \in EchoStates /\ es'.p = q /\ es'.live = es.live /\ es'.state = es.state
      BY <1>4, <3>1, EsP
    <3> QED BY <2>3, <3>2
  <2>5. \A b \in Pbufs : ref'[b] = IF b \in h .. nrecv THEN IF b = h + 1 THEN 2 ELSE 1 ELSE 0
    <3> SUFFICES ASSUME NEW b \in Pbufs
                 PROVE  ref'[b] = IF b \in h .. nrecv THEN IF b = h + 1 THEN 2 ELSE 1 ELSE 0
      OBVIOUS
    <3>1. ref[b] = IF b \in h .. nrecv THEN 1 ELSE 0
      BY <1>2, <2>1 DEF Chain
    <3>2. ref'[b] = IF b = h + 1 /\ h < nrecv THEN ref[b] + 1 ELSE ref[b]
      BY <2>1, <2>2
    <3>3. b \in Nat
      BY <1>5 DEF Pbufs
    <3> QED BY <1>5, <2>2, <3>1, <3>2, <3>3
  <2>6. ref' \in [Pbufs -> 0 .. 2]
    BY <2>1, <2>5
  <2>7. TypeOK' /\ EchoesInOrder'
    BY <1>3, <1>6, <2>1, <2>4, <2>6 DEF TypeOK, EchoesInOrder
  <2>8. Chain(h, TRUE)'
    BY <1>2, <1>6, <2>1, <2>2, <2>4, <2>5 DEF Chain
  <2> QED BY <1>1, <1>2, <1>3, <2>1, <2>2, <2>4, <2>7, <2>8, SendAssembles
<1>11. CASE send_release(c)
  <2>1. /\ pc[c] = "release" /\ pbuf_free(ptr[c]) /\ wnd' = wnd + 1 /\ Goto(c, "test")
        /\ UNCHANGED <<callbacks, es, ptr, pcb, sndbuf, fin, nrecv, out, closing, fault>>
    BY <1>2, <1>11 DEF send_release, At, app, ghosts
  <2>2. /\ h = Len(out) /\ ptr[c] = h /\ h <= nrecv /\ h \in Pbufs
        /\ es.p = (IF h < nrecv THEN h + 1 ELSE 0)
        /\ wnd + nrecv + 1 = Wnd + h
    BY <1>0, <1>2, <1>5, <2>1 DEF Chain, Pbufs
  <2>3. \A b \in Pbufs :
          /\ ref[b] = IF b \in h .. nrecv THEN IF b = h + 1 THEN 2 ELSE 1 ELSE 0
          /\ link[b] <=> b \in h .. nrecv /\ b # nrecv
    BY <1>2, <2>1 DEF Chain
  <2>4. FreeEnd(h) = IF h < nrecv THEN h + 1 ELSE h
    <3>1. CASE h < nrecv
      <4>1. h + 1 \in h .. MaxPbufs /\ h + 1 \in Pbufs /\ h + 1 \in h .. nrecv
        BY <1>5, <2>2, <3>1 DEF Pbufs
      <4>2. \A x \in h .. MaxPbufs : x < h + 1 => x = h
        BY <1>5
      <4>3. ref[h] = 1 /\ link[h] /\ ref[h + 1] = 2
        BY <1>5, <2>2, <2>3, <3>1, <4>1
      <4> QED BY <2>2, <3>1, <4>1, <4>2, <4>3, FreeEndIs
    <3>2. CASE h = nrecv
      <4>1. h \in h .. MaxPbufs /\ \A x \in h .. MaxPbufs : ~(x < h)
        BY <1>5, <2>2
      <4> QED BY <2>2, <2>3, <3>2, <4>1, FreeEndIs
    <3> QED BY <1>5, <2>2, <3>1, <3>2
  <2>5. ASSUME NEW b \in Pbufs
        PROVE  /\ ref'[b] = IF b \in h + 1 .. nrecv THEN 1 ELSE 0
               /\ link'[b] <=> b \in h + 1 .. nrecv /\ b # nrecv
    <3>1. /\ ref'[b] = IF b \in h .. FreeEnd(h) /\ ref[b] > 0 THEN ref[b] - 1 ELSE ref[b]
          /\ link'[b] <=> link[b] /\ ~(b \in h .. FreeEnd(h) /\ ref[b] <= 1)
      BY <2>1, <2>2 DEF pbuf_free
    <3>2. b \in Nat
      BY <1>5 DEF Pbufs
    <3> QED BY <1>5, <2>2, <2>3, <2>4, <3>1, <3>2
  <2>6. ref' \in [Pbufs -> 0 .. 2] /\ link' \in [Pbufs -> BOOLEAN]
    <3>1. /\ ref' = [b \in Pbufs |-> ref'[b]]
          /\ link' = [b \in Pbufs |-> link'[b]]
      BY <2>1 DEF pbuf_free
    <3>2. \A b \in Pbufs : link'[b] \in BOOLEAN
      BY <2>1 DEF pbuf_free
    <3>3. \A b \in Pbufs : ref'[b] \in 0 .. 2
      BY <2>5
    <3> QED BY <3>1, <3>2, <3>3
  <2>7. wnd' \in 0 .. Wnd /\ wnd' + nrecv + 1 = Wnd + (h + 1) /\ h + 1 \in 1 .. nrecv + 1
    BY <1>5, <2>1, <2>2
  <2>8. TypeOK' /\ EchoesInOrder'
    BY <1>3, <1>6, <2>1, <2>6, <2>7 DEF TypeOK, EchoesInOrder
  <2>9. Chain(h + 1, FALSE)'
    <3>1. es.p = (IF h + 1 <= nrecv THEN h + 1 ELSE 0)
      BY <1>5, <2>2
    <3>2. \A e \in Contexts : pc'[e] \notin {"write", "chop", "release"}
      BY <1>6, <2>1
    <3> QED BY <2>1, <2>5, <2>7, <3>1, <3>2 DEF Chain
  <2> QED BY <1>1, <1>2, <1>3, <2>1, <2>2, <2>8, <2>9, SendAssembles
<1> QED BY <1>7, <1>8, <1>9, <1>10, <1>11 DEF SendStep

-----------------------------------------------------------------------------
(* What a callback finds when nobody is in tcpecho_raw_send: the chain is    *)
(* what has not been echoed.                                                 *)
LEMMA IdleFacts ==
  ASSUME IInv, pcb = "open", \A c \in Contexts : pc[c] = "idle"
  PROVE  /\ es.live /\ callbacks = Callbacks /\ (es.state = "ES_ACCEPTED" => es.p = 0)
         /\ Chain(Len(out) + 1, FALSE)
         /\ es.p = 0 => Len(out) = nrecv /\ wnd = Wnd
<1>1. ~Written /\ ~Chopped
  BY DEF Written, Chopped
<1>2. es.live /\ callbacks = Callbacks /\ (es.state = "ES_ACCEPTED" => es.p = 0)
  BY DEF IInv, OpenInv
<1>3. Chain(Oldest, Chopped)
  BY DEF IInv, OpenInv
<1>4. Oldest = Len(out) + 1 /\ Chopped = FALSE
  BY <1>1 DEF Oldest, Chopped
<1>5. Chain(Len(out) + 1, FALSE)
  BY <1>3, <1>4
<1>6. ASSUME es.p = 0 PROVE Len(out) = nrecv /\ wnd = Wnd
  <2>1. /\ Len(out) + 1 \in 1 .. nrecv + 1 /\ wnd + nrecv + 1 = Wnd + (Len(out) + 1)
        /\ es.p = (IF Len(out) + 1 <= nrecv THEN Len(out) + 1 ELSE 0)
    BY <1>5 DEF Chain
  <2>2. Wnd \in Nat /\ nrecv \in Nat /\ wnd \in Nat /\ Len(out) \in Nat
    BY Numbers DEF IInv
  <2> QED BY <1>6, <2>1, <2>2
<1> QED BY <1>2, <1>5, <1>6

(* A callback that leaves the connection open, with the chain of what is not *)
(* echoed, and sends or returns, keeps the invariant.                        *)
LEMMA CallbackAssembles ==
  ASSUME IInv, pcb = "open", \A c \in Contexts : pc[c] = "idle",
         NEW c \in Contexts, Goto(c, "test") \/ UNCHANGED pc,
         TypeOK', UNCHANGED <<callbacks, pcb, fault, out, closing>>,
         es'.live, es'.state = "ES_ACCEPTED" => es'.p = 0,
         NEW h, h = Len(out) + 1, Chain(h, FALSE)'
  PROVE  IInv'
<1>1. pc \in [Contexts -> {"idle", "test", "write", "chop", "release"}]
  BY DEF IInv, TypeOK
<1>2. (\E e \in Contexts : pc'[e] = "idle") /\ ~Written' /\ ~Chopped'
  <2>1. CASE Goto(c, "test")
    BY <1>1, <2>1, GotoFacts
  <2>2. CASE UNCHANGED pc
    BY <2>2 DEF Written, Chopped
  <2> QED BY <2>1, <2>2
<1>3. Oldest' = h /\ Chopped' = FALSE
  BY <1>2 DEF Oldest, Chopped
<1>4. Chain(Oldest, Chopped)'
  BY <1>3 DEF Chain
<1>5. callbacks = Callbacks
  BY IdleFacts
<1>6. OpenInv' /\ DownInv' /\ GracefulClose' /\ EchoesInOrder' /\ ~fault'
  BY <1>4, <1>5 DEF OpenInv, DownInv, GracefulClose, EchoesInOrder, IInv
<1> QED BY <1>2, <1>6 DEF IInv

(* tcpecho_raw_free gives every pbuf back, and none that is not there. *)
LEMMA FreesAll ==
  ASSUME IInv, pcb = "open", \A c \in Contexts : pc[c] = "idle", tcpecho_raw_free
  PROVE  /\ ref' \in [Pbufs -> 0 .. 2] /\ link' \in [Pbufs -> BOOLEAN]
         /\ \A b \in Pbufs : ref'[b] = 0 /\ ~link'[b]
         /\ ~FreesTwice
<1>1. PICK h : h = Len(out) + 1
  OBVIOUS
<1>2. es.live /\ Chain(h, FALSE)
  BY <1>1, IdleFacts
<1>3. /\ MaxPbufs \in Nat /\ nrecv \in 0 .. MaxPbufs /\ h \in 1 .. nrecv + 1
      /\ ref \in [Pbufs -> 0 .. 2] /\ link \in [Pbufs -> BOOLEAN]
  BY <1>2, Numbers DEF Chain, IInv, TypeOK
<1>4. \A b \in Pbufs : /\ ref[b] = IF b \in h .. nrecv THEN 1 ELSE 0
                       /\ link[b] <=> b \in h .. nrecv /\ b # nrecv
  BY <1>2 DEF Chain
<1>5. CASE es.p = 0
  <2>1. h = nrecv + 1
    BY <1>2, <1>3, <1>5 DEF Chain
  <2>2. UNCHANGED <<ref, link>>
    BY <1>5 DEF tcpecho_raw_free, pbufs
  <2>3. \A b \in Pbufs : b \notin h .. nrecv
    BY <1>3, <2>1
  <2> QED BY <1>2, <1>3, <1>4, <1>5, <2>2, <2>3 DEF FreesTwice
<1>6. CASE es.p # 0
  <2>1. es.p = h /\ h \in h .. nrecv /\ h \in Pbufs /\ nrecv \in h .. MaxPbufs /\ nrecv \in Pbufs
    BY <1>2, <1>3, <1>6 DEF Chain, Pbufs
  <2>2. ~FreesTwice
    BY <1>2, <1>4, <2>1 DEF FreesTwice
  <2>3. FreeEnd(h) = nrecv
    <3>1. \A x \in h .. MaxPbufs : x < nrecv => x \in Pbufs /\ x \in h .. nrecv /\ x # nrecv
      BY <1>3, <2>1 DEF Pbufs
    <3> QED BY <1>4, <2>1, <3>1, FreeEndIs
  <2>4. /\ ref' = [x \in Pbufs |-> IF x \in h .. nrecv /\ ref[x] > 0 THEN ref[x] - 1 ELSE ref[x]]
        /\ link' = [x \in Pbufs |-> link[x] /\ ~(x \in h .. nrecv /\ ref[x] <= 1)]
    BY <1>6, <2>1, <2>3 DEF tcpecho_raw_free, pbuf_free
  <2>5. ASSUME NEW b \in Pbufs PROVE ref'[b] = 0 /\ ~link'[b] /\ link'[b] \in BOOLEAN
    <3>1. ref'[b] = 0
      BY <1>4, <2>4
    <3>2. link'[b] = (link[b] /\ ~(b \in h .. nrecv /\ ref[b] <= 1))
      BY <2>4
    <3>3. b \in h .. nrecv => ref[b] <= 1
      BY <1>4
    <3>4. link[b] => b \in h .. nrecv
      BY <1>4
    <3>5. link'[b] = FALSE
      BY <3>2, <3>3, <3>4
    <3> QED BY <3>1, <3>5
  <2> QED BY <2>2, <2>4, <2>5
<1> QED BY <1>5, <1>6

(* A connection that is given up, with es and its chain freed, is down. *)
LEMMA DownAssembles ==
  ASSUME IInv, pcb = "open", \A c \in Contexts : pc[c] = "idle", tcpecho_raw_free,
         es' = NoState, callbacks' = {}, fault' = (fault \/ FreesTwice),
         UNCHANGED <<pc, ptr, wnd, nrecv, out>>, sndbuf' \in 0 .. SndBuf, fin' \in BOOLEAN,
         closing' \in {"none", "fin", "rst"},
         \/ pcb' = "closed" /\ Len(out) = nrecv /\ closing' = "fin"
         \/ pcb' = "aborted"
  PROVE  IInv'
<1>1. /\ ref' \in [Pbufs -> 0 .. 2] /\ link' \in [Pbufs -> BOOLEAN]
      /\ \A b \in Pbufs : ref'[b] = 0 /\ ~link'[b]
      /\ ~FreesTwice
  BY FreesAll
<1>2. fault' = FALSE
  BY <1>1 DEF IInv
<1>3. es' \in EchoStates
  BY Numbers DEF NoState, EchoStates, IInv
<1>4. TypeOK /\ EchoesInOrder
  BY DEF IInv
<1>5. TypeOK' /\ EchoesInOrder'
  BY <1>1, <1>2, <1>3, <1>4 DEF TypeOK, EchoesInOrder
<1>6. OpenInv' /\ DownInv' /\ GracefulClose'
  BY <1>1 DEF OpenInv, DownInv, GracefulClose
<1> QED BY <1>2, <1>5, <1>6 DEF IInv, Contexts

(* tcpecho_raw_close, called only with nothing pending, ends with FIN. *)
LEMMA CloseKeeps ==
  ASSUME IInv, pcb = "open", \A c \in Contexts : pc[c] = "idle", tcpecho_raw_close, es.p = 0,
         UNCHANGED <<pc, ptr, wnd, nrecv, out>>, sndbuf' \in 0 .. SndBuf, fin' \in BOOLEAN
  PROVE  IInv'
<1>1. Len(out) = nrecv /\ wnd = Wnd
  BY IdleFacts
<1>2. /\ tcpecho_raw_free /\ es' = NoState /\ callbacks' = {} /\ pcb' = "closed"
      /\ closing' = "fin" /\ fault' = (fault \/ FreesTwice)
  BY <1>1 DEF tcpecho_raw_close
<1> QED BY <1>1, <1>2, DownAssembles

-----------------------------------------------------------------------------
(* A callback is entered when no other is in progress. *)
LEMMA Alone ==
  ASSUME ~TwoContexts, NEW c \in Contexts, Enters(c)
  PROVE  \A e \in Contexts : pc[e] = "idle"
BY DEF Enters, Contexts

(* tcpecho_raw_accept begins with an empty chain and an open window. *)
LEMMA AcceptKeeps == ASSUME ~TwoContexts, IInv, tcpecho_raw_accept PROVE IInv'
<1>1. \A e \in Contexts : pc[e] = "idle"
  BY Alone DEF tcpecho_raw_accept, Contexts
<1>2. /\ pcb # "open" /\ pcb' = "open" /\ wnd' = Wnd /\ sndbuf' = SndBuf /\ fin' = FALSE
      /\ es' = [live |-> TRUE, state |-> "ES_ACCEPTED", p |-> 0] /\ callbacks' = Callbacks
      /\ nrecv' = 0 /\ out' = <<>> /\ closing' = "none"
      /\ UNCHANGED <<ref, link, pc, ptr, fault>>
  BY DEF tcpecho_raw_accept, pbufs
<1>3. TypeOK /\ ~fault /\ \A b \in Pbufs : ref[b] = 0 /\ ~link[b]
  BY <1>2 DEF IInv, DownInv
<1>4. Wnd \in Nat /\ SndBuf \in Nat /\ MaxPbufs \in Nat
  BY EchoAssumption
<1>5. es' \in EchoStates /\ es'.live /\ es'.p = 0
  BY <1>2, <1>4 DEF EchoStates
<1>6. out' \in Seq(Pbufs) /\ Len(out') = 0
  BY <1>2
<1>7. TypeOK'
  <2>1. wnd' \in 0 .. Wnd /\ sndbuf' \in 0 .. SndBuf /\ nrecv' \in 0 .. MaxPbufs
    BY <1>2, <1>4
  <2>2. /\ pcb' \in {"none", "open", "closed", "aborted"} /\ callbacks' \subseteq Callbacks
        /\ fin' \in BOOLEAN /\ closing' \in {"none", "fin", "rst"}
    BY <1>2
  <2> QED BY <1>2, <1>3, <1>5, <1>6, <2>1, <2>2 DEF TypeOK
<1>8. ~Written' /\ ~Chopped'
  BY <1>1, <1>2 DEF Written, Chopped
<1>9. Oldest' = 1 /\ Chopped' = FALSE
  BY <1>6, <1>8 DEF Oldest, Chopped
<1>10. Chain(1, FALSE)'
  BY <1>1, <1>2, <1>3, <1>4, <1>5 DEF Chain
<1>11. Chain(Oldest, Chopped)'
  BY <1>9, <1>10 DEF Chain
<1>12. OpenInv' /\ DownInv' /\ EchoesInOrder' /\ GracefulClose'
  BY <1>2, <1>5, <1>6, <1>11 DEF OpenInv, DownInv, EchoesInOrder, GracefulClose
<1> QED BY <1>1, <1>2, <1>3, <1>7, <1>12 DEF IInv, Contexts

(* New pbufs begin the chain, or are put behind it by pbuf_cat. *)
LEMMA RecvKeeps ==
  ASSUME ~TwoContexts, IInv, NEW n \in 1 .. MaxPbufs, tcpecho_raw_recv(n)
  PROVE  IInv'
<1>0. PICK h : h = Len(out) + 1
  OBVIOUS
<1>1. pcb = "open" /\ \A e \in Contexts : pc[e] = "idle"
  BY Alone DEF tcpecho_raw_recv, Contexts
<1>2. /\ es.live /\ Chain(h, FALSE) /\ TypeOK
      /\ (es.state = "ES_ACCEPTED" \/ es.p = 0) <=> es.p = 0
  BY <1>0, <1>1, IdleFacts DEF IInv
<1>3. /\ Wnd \in Nat /\ MaxPbufs \in Nat \ {0} /\ nrecv \in 0 .. MaxPbufs
      /\ wnd \in 0 .. Wnd /\ es.p \in 0 .. MaxPbufs /\ h \in 1 .. nrecv + 1
      /\ es.p = (IF h <= nrecv THEN h ELSE 0) /\ wnd + nrecv + 1 = Wnd + h
  BY <1>2, Numbers DEF Chain
<1>4. \A b \in Pbufs : /\ ref[b] = IF b \in h .. nrecv THEN 1 ELSE 0
                       /\ link[b] <=> b \in h .. nrecv /\ b # nrecv
  BY <1>2 DEF Chain
<1>5. /\ es' = [es EXCEPT !.state = "ES_RECEIVED", !.p = IF es.p = 0 THEN nrecv + 1 ELSE es.p]
      /\ Goto("isr", "test") \/ UNCHANGED pc
      /\ ref' = [b \in Pbufs |-> IF b \in Arrived(n) THEN 1 ELSE ref[b]]
      /\ link' = [b \in Pbufs |-> \/ link[b]
                                  \/ b \in Arrived(n) /\ b + 1 \in Arrived(n)
                                  \/ ~(es.p = 0) /\ b = nrecv]
      /\ nrecv' = nrecv + n /\ wnd' = wnd - n /\ n <= wnd /\ nrecv + n <= MaxPbufs
      /\ UNCHANGED <<callbacks, ptr, pcb, sndbuf, fin, out, closing, fault>>
  <2>1. (es.state = "ES_ACCEPTED" \/ es.p = 0) = (es.p = 0)
    BY <1>2
  <2> QED BY <2>1 DEF tcpecho_raw_recv
<1>6. PICK q \in 0 .. MaxPbufs : q = h /\ q = (IF es.p = 0 THEN nrecv + 1 ELSE es.p)
  BY <1>3, <1>5
<1>7. es' \in EchoStates /\ es'.p = h /\ es'.live /\ es'.state = "ES_RECEIVED"
  <2>1. es' = [es EXCEPT !.state = "ES_RECEIVED", !.p = q] /\ es \in EchoStates
    BY <1>2, <1>5, <1>6 DEF TypeOK
  <2>2. es' \in EchoStates /\ es'.p = q /\ es'.live = es.live /\ es'.state = "ES_RECEIVED"
    BY <2>1, EsReceived
  <2> QED BY <1>2, <1>6, <2>2
<1>8. nrecv' \in 0 .. MaxPbufs /\ wnd' \in 0 .. Wnd /\ h \in 1 .. nrecv' + 1
      /\ wnd' + nrecv' + 1 = Wnd + h /\ h <= nrecv'
  BY <1>3, <1>5
<1>9. ASSUME NEW b \in Pbufs
      PROVE  /\ ref'[b] = IF b \in h .. nrecv' THEN 1 ELSE 0
             /\ link'[b] <=> b \in h .. nrecv' /\ b # nrecv'
             /\ link'[b] \in BOOLEAN
  <2>1. b \in Nat \ {0}
    BY <1>3 DEF Pbufs
  <2>2. (b \in Arrived(n) <=> nrecv < b /\ b <= nrecv + n)
        /\ (b + 1 \in Arrived(n) <=> nrecv < b + 1 /\ b + 1 <= nrecv + n)
    BY <1>3, <2>1 DEF Arrived
  <2>3. ref'[b] = IF b \in h .. nrecv' THEN 1 ELSE 0
    <3>1. ref'[b] = IF b \in Arrived(n) THEN 1 ELSE ref[b]
      BY <1>5
    <3> QED BY <1>3, <1>4, <1>5, <2>1, <2>2, <3>1
  <2>4. link'[b] = (\/ link[b]
                    \/ b \in Arrived(n) /\ b + 1 \in Arrived(n)
                    \/ ~(es.p = 0) /\ b = nrecv)
    BY <1>5
  <2>5. (\/ b \in h .. nrecv /\ b # nrecv
         \/ b \in Arrived(n) /\ b + 1 \in Arrived(n)
         \/ ~(es.p = 0) /\ b = nrecv)
        <=> b \in h .. nrecv' /\ b # nrecv'
    BY <1>3, <1>5, <2>1, <2>2
  <2>6. link[b] <=> b \in h .. nrecv /\ b # nrecv
    BY <1>4
  <2>7. link'[b] \in BOOLEAN
    BY <2>4
  <2> QED BY <2>3, <2>4, <2>5, <2>6, <2>7
<1>10. pc' \in [Contexts -> {"idle", "test", "write", "chop", "release"}]
       /\ \A e \in Contexts : pc'[e] \notin {"write", "chop", "release"}
  BY <1>1, <1>2, <1>5 DEF TypeOK, Goto, Contexts
<1>11. ref' \in [Pbufs -> 0 .. 2] /\ link' \in [Pbufs -> BOOLEAN]
  <2>1. /\ ref' = [b \in Pbufs |-> ref'[b]]
        /\ link' = [b \in Pbufs |-> link'[b]]
    BY <1>5
  <2>2. \A b \in Pbufs : ref'[b] \in 0 .. 2 /\ link'[b] \in BOOLEAN
    BY <1>9
  <2> QED BY <2>1, <2>2
<1>12. TypeOK'
  BY <1>2, <1>5, <1>7, <1>8, <1>10, <1>11 DEF TypeOK
<1>13. Chain(h, FALSE)'
  BY <1>7, <1>8, <1>9, <1>10 DEF Chain
<1> QED BY <1>0, <1>1, <1>5, <1>7, <1>12, <1>13, CallbackAssembles DEF Contexts

(* A callback that changes no more than the state, the send buffer and the   *)
(* FIN of the connection keeps the chain.                                    *)
LEMMA KeepsOpen ==
  ASSUME IInv, pcb = "open", \A e \in Contexts : pc[e] = "idle",
         NEW c \in Contexts, Goto(c, "test") \/ UNCHANGED pc,
         UNCHANGED <<callbacks, ref, link, ptr, pcb, wnd, nrecv, out, closing, fault>>,
         sndbuf' \in 0 .. SndBuf, fin' \in BOOLEAN,
         \/ UNCHANGED es
         \/ es' = [es EXCEPT !.state = "ES_CLOSING"]
  PROVE  IInv'
<1>0. PICK h : h = Len(out) + 1
  OBVIOUS
<1>1. es.live /\ Chain(h, FALSE) /\ TypeOK /\ (es.state = "ES_ACCEPTED" => es.p = 0)
  BY <1>0, IdleFacts DEF IInv
<1>2. es \in EchoStates
  BY <1>1 DEF TypeOK
<1>3. es' \in EchoStates /\ es'.live /\ es'.p = es.p /\ (es'.state = "ES_ACCEPTED" => es'.p = 0)
  <2>1. CASE UNCHANGED es
    BY <1>1, <1>2, <2>1
  <2>2. CASE es' = [es EXCEPT !.state = "ES_CLOSING"]
    <3>1. "ES_CLOSING" \in {"ES_RECEIVED", "ES_CLOSING"}
      OBVIOUS
    <3> QED BY <1>1, <1>2, <2>2, <3>1, EsState
  <2> QED BY <2>1, <2>2
<1>4. pc' \in [Contexts -> {"idle", "test", "write", "chop", "release"}]
      /\ \A e \in Contexts : pc'[e] \notin {"write", "chop", "release"}
  BY <1>1 DEF TypeOK, Goto, Contexts
<1>5. TypeOK'
  BY <1>1, <1>3, <1>4 DEF TypeOK
<1>6. Chain(h, FALSE)'
  BY <1>1, <1>3, <1>4 DEF Chain
<1> QED BY <1>0, <1>3, <1>5, <1>6, CallbackAssembles

(* A FIN closes when nothing is pending, and otherwise sends first. *)
LEMMA FinKeeps == ASSUME ~TwoContexts, IInv, recv_fin PROVE IInv'
<1>1. pcb = "open" /\ \A e \in Contexts : pc[e] = "idle"
  BY Alone DEF recv_fin, Contexts
<1>2. fin' = TRUE /\ UNCHANGED <<ptr, wnd, sndbuf, nrecv, out>> /\ sndbuf \in 0 .. SndBuf
  BY DEF recv_fin, IInv, TypeOK
<1>3. fin' \in BOOLEAN /\ sndbuf' \in 0 .. SndBuf
  BY <1>2
<1>4. CASE es.p = 0
  <2>1. tcpecho_raw_close /\ UNCHANGED pc
    BY <1>4 DEF recv_fin
  <2> QED BY <1>1, <1>2, <1>3, <1>4, <2>1, CloseKeeps
<1>5. CASE es.p # 0
  <2>1. /\ es' = [es EXCEPT !.state = "ES_CLOSING"] /\ Goto("isr", "test")
        /\ UNCHANGED <<callbacks, ref, link, pcb, closing, fault>>
    BY <1>5 DEF recv_fin, pbufs
  <2>2. "isr" \in Contexts
    BY DEF Contexts
  <2> QED BY <1>1, <1>2, <1>3, <2>1, <2>2, KeepsOpen
<1> QED BY <1>4, <1>5

(* Sending what is pending, or closing, keeps the invariant. *)
LEMMA SendOrCloseKeeps ==
  ASSUME IInv, pcb = "open", \A e \in Contexts : pc[e] = "idle",
         NEW c \in Contexts, SendOrClose(c), UNCHANGED <<ptr, wnd, fin, nrecv, out>>,
         sndbuf' \in 0 .. SndBuf
  PROVE  IInv'
<1>1. fin' \in BOOLEAN
  BY DEF IInv, TypeOK
<1>2. CASE /\ Goto(c, "test") \/ UNCHANGED pc
           /\ UNCHANGED <<callbacks, es, ref, link, pcb, closing, fault>>
  BY <1>1, <1>2, KeepsOpen
<1>3. CASE es.p = 0 /\ UNCHANGED pc /\ tcpecho_raw_close
  BY <1>1, <1>3, CloseKeeps
<1> QED BY <1>2, <1>3 DEF SendOrClose, app, pbufs

(* tcpecho_raw_sent keeps it. *)
LEMMA SentKeeps ==
  ASSUME ~TwoContexts, IInv, NEW n \in 1 .. MaxPbufs, tcpecho_raw_sent(n)
  PROVE  IInv'
<1>1. /\ pcb = "open" /\ SendOrClose("isr") /\ UNCHANGED <<ptr, wnd, fin, nrecv, out>>
      /\ sndbuf' = sndbuf + n /\ sndbuf + n <= SndBuf
  BY DEF tcpecho_raw_sent
<1>2. \A e \in Contexts : pc[e] = "idle"
  BY Alone DEF tcpecho_raw_sent, Contexts
<1>3. sndbuf' \in 0 .. SndBuf
  BY <1>1, EchoAssumption DEF IInv, TypeOK
<1>4. "isr" \in Contexts
  BY DEF Contexts
<1> QED BY <1>1, <1>2, <1>3, <1>4, SendOrCloseKeeps

(* tcpecho_raw_poll keeps it. *)
LEMMA PollKeeps == ASSUME ~TwoContexts, IInv, tcpecho_raw_poll PROVE IInv'
<1>1. /\ pcb = "open" /\ SendOrClose("main") /\ UNCHANGED <<ptr, wnd, sndbuf, fin, nrecv, out>>
  BY DEF tcpecho_raw_poll
<1>2. \A e \in Contexts : pc[e] = "idle"
  BY Alone DEF tcpecho_raw_poll, Contexts
<1>3. sndbuf' \in 0 .. SndBuf
  BY <1>1 DEF IInv, TypeOK
<1>4. "main" \in Contexts
  BY DEF Contexts
<1> QED BY <1>1, <1>2, <1>3, <1>4, SendOrCloseKeeps

(* tcpecho_raw_error frees everything that is left. *)
LEMMA ErrorKeeps ==
  ASSUME ~TwoContexts, IInv, NEW c \in Contexts, tcpecho_raw_error(c)
  PROVE  IInv'
<1>1. /\ pcb = "open" /\ tcpecho_raw_free /\ es' = NoState /\ callbacks' = {}
      /\ pcb' = "aborted" /\ fault' = (fault \/ FreesTwice)
      /\ UNCHANGED <<pc, ptr, wnd, sndbuf, fin, nrecv, out, closing>>
  BY DEF tcpecho_raw_error
<1>2. \A e \in Contexts : pc[e] = "idle"
  BY Alone DEF tcpecho_raw_error
<1>3. /\ sndbuf' \in 0 .. SndBuf /\ fin' \in BOOLEAN
      /\ closing' \in {"none", "fin", "rst"}
  BY <1>1 DEF IInv, TypeOK
<1> QED BY <1>1, <1>2, <1>3, DownAssembles

(* Every step of the program keeps the invariant, one context at a time. *)
LEMMA InvStep == ASSUME ~TwoContexts, IInv, [Next]_vars PROVE IInv'
<1>1. CASE UNCHANGED vars
  BY <1>1 DEF vars, app, pbufs, lwip, ghosts, IInv, TypeOK, OpenInv, DownInv, Chain, Oldest,
              Written, Chopped, EchoesInOrder, GracefulClose
<1>2. CASE Next
  BY <1>2, AcceptKeeps, RecvKeeps, SentKeeps, FinKeeps, PollKeeps, SendKeeps, ErrorKeeps DEF Next
<1> QED BY <1>1, <1>2

-----------------------------------------------------------------------------
(* The inductive invariant holds in every state, entered from one context. *)
THEOREM Invariant == ASSUME ~TwoContexts PROVE Spec => []IInv
<1>1. Init => IInv
  BY InitInv
<1>2. IInv /\ [Next]_vars => IInv'
  BY InvStep
<1> QED BY <1>1, <1>2, PTL DEF Spec

(* tcpecho_raw never uses memory it freed, nor frees it twice: MemorySafe,   *)
(* when lwIP is entered from one context at a time.                          *)
THEOREM NoUseAfterFree == ASSUME ~TwoContexts PROVE Spec => []MemorySafe
<1>1. IInv => MemorySafe
  BY DEF IInv, MemorySafe
<1> QED BY <1>1, Invariant, PTL

(* Its bookkeeping is sound and it leaks no pbuf, however a connection ends: *)
(* EchoInv.                                                                  *)
THEOREM BooksBalance == ASSUME ~TwoContexts PROVE Spec => []EchoInv
<1>1. IInv => EchoInv
  <2> SUFFICES ASSUME IInv PROVE EchoInv
    OBVIOUS
  <2>1. TypeOK
    BY DEF IInv
  <2>2. NoLeak
    <3> SUFFICES ASSUME \A c \in Contexts : pc[c] \in {"idle", "test", "write"}, NEW b \in Pbufs
                 PROVE  ref[b] = IF pcb = "open" /\ es.p # 0 /\ b \in es.p .. nrecv THEN 1 ELSE 0
      BY DEF NoLeak
    <3>1. CASE pcb = "open"
      <4>1. PICK h : h = Len(out) + 1
        OBVIOUS
      <4>2. ~Written /\ ~Chopped
        BY DEF Written, Chopped
      <4>3. Oldest = h /\ Chopped = FALSE
        BY <4>1, <4>2 DEF Oldest, Chopped
      <4>4. Chain(h, FALSE)
        BY <3>1, <4>3 DEF IInv, OpenInv
      <4>5. /\ h \in 1 .. nrecv + 1 /\ es.p = (IF h <= nrecv THEN h ELSE 0)
            /\ ref[b] = IF b \in h .. nrecv THEN 1 ELSE 0
        BY <4>4 DEF Chain
      <4> QED BY <2>1, <3>1, <4>5, Numbers
    <3>2. CASE pcb # "open"
      BY <3>2 DEF IInv, DownInv
    <3> QED BY <3>1, <3>2
  <2> QED BY <2>1, <2>2 DEF EchoInv
<1> QED BY <1>1, Invariant, PTL

(* What is echoed is what was received, in that order, once: EchoesInOrder. *)
THEOREM EchoIsStream == ASSUME ~TwoContexts PROVE Spec => []EchoesInOrder
<1>1. IInv => EchoesInOrder
  BY DEF IInv
<1> QED BY <1>1, Invariant, PTL

(* tcpecho_raw closes only after it has echoed everything, and by FIN:       *)
(* GracefulClose.                                                            *)
THEOREM ClosesByFin == ASSUME ~TwoContexts PROVE Spec => []GracefulClose
<1>1. IInv => GracefulClose
  BY DEF IInv
<1> QED BY <1>1, Invariant, PTL
=============================================================================
