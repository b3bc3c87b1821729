----------------------------- MODULE EnetProofs -----------------------------
(***************************************************************************)
(* For chains of any length and any number of frames: the driver and the   *)
(* DMA stay in step on the receive chain, no frame is stranded, every      *)
(* frame is accounted for and delivered in order, and, as long as lwIP is  *)
(* in one context at a time, frames go out whole, once and in order.       *)
(***************************************************************************)
EXTENDS Enet, TLAPS

(* Positions on a ring of n descriptors, without remainders: how far d is    *)
(* past b, and the descriptor k past b.                                      *)
Past(d, b, n) == IF d >= b THEN d - b ELSE d + n - b
Nth(b, k, n) == IF b + k < n THEN b + k ELSE b + k - n

(* A remainder is a position. *)
LEMMA ModIsNth ==
  ASSUME NEW n \in Nat \ {0}, NEW b \in 0 .. n - 1, NEW k \in 0 .. n
  PROVE  (b + k) % n = Nth(b, k, n) /\ Nth(b, k, n) \in 0 .. n - 1
<1>1. CASE b + k < n
  BY <1>1 DEF Nth
<1>2. CASE b + k >= n
  <2>1. b + k - n \in 0 .. n - 1
    BY <1>2
  <2>2. (b + k) % n = b + k - n
    BY <1>2, <2>1
  <2> QED BY <1>2, <2>1, <2>2 DEF Nth
<1> QED BY <1>1, <1>2

(* Past and Nth are inverse to each other. *)
LEMMA PastOfNth ==
  ASSUME NEW n \in Nat \ {0}, NEW b \in 0 .. n - 1
  PROVE  /\ \A d \in 0 .. n - 1 : /\ Past(d, b, n) \in 0 .. n - 1
                                 /\ Nth(b, Past(d, b, n), n) = d
         /\ \A k \in 0 .. n - 1 : Past(Nth(b, k, n), b, n) = k
         /\ Past(b, b, n) = 0 /\ Nth(b, n, n) = b /\ Nth(b, 0, n) = b
BY DEF Past, Nth

(* Taking the next descriptor shifts every position by one. *)
LEMMA PastAfter ==
  ASSUME NEW n \in Nat \ {0}, NEW b \in 0 .. n - 1
  PROVE  /\ Nth(b, 1, n) \in 0 .. n - 1
         /\ \A d \in 0 .. n - 1 :
              Past(d, Nth(b, 1, n), n) = IF d = b THEN n - 1 ELSE Past(d, b, n) - 1
         /\ \A k \in 1 .. n : Nth(Nth(b, 1, n), k - 1, n) = Nth(b, k, n)
         /\ \A k \in 0 .. n - 1 : Nth(Nth(b, k, n), 1, n) = Nth(b, k + 1, n)
BY DEF Past, Nth

-----------------------------------------------------------------------------
(* The receive chain holds k frames, from dma_current_rxdesc on. *)
RxRing(k) ==
  /\ rx_dma = Nth(rx_cur, k, RxN)
  /\ \A d \in RxDesc : rx_dav[d] <=> Past(d, rx_cur, RxN) >= k

(* They are in the order of the wire and after everything delivered. *)
RxOrder ==
  /\ \A d \in RxDesc : ~rx_dav[d] =>
       /\ held[d].id \in 1 .. arrived
       /\ \A i \in 1 .. Len(delivered) : delivered[i] < held[d].id
       /\ \A e \in RxDesc : ~rx_dav[e] /\ Past(d, rx_cur, RxN) < Past(e, rx_cur, RxN)
                              => held[d].id < held[e].id
  /\ \A i \in 1 .. Len(delivered) : delivered[i] <= arrived

(* The frame the handler works on. *)
RxHand ==
  /\ rx_pc \in {"input", "receive"} => ~rx_dav[rx_cur] /\ held[rx_cur].good
  /\ rx_pc = "receive" =>
       IF hand = 0 THEN held[rx_cur].id \in nomem ELSE hand = held[rx_cur].id
  /\ rx_pc = "deliver" /\ hand # 0 =>
       /\ hand <= arrived
       /\ \A i \in 1 .. Len(delivered) : delivered[i] < hand
       /\ \A d \in RxDesc : ~rx_dav[d] => hand < held[d].id

(* NoneStranded, from the last look of the loop on. *)
RxNotified == rx_pc \in {"return", "idle"} => rs \/ \A d \in RxDesc : rx_dav[d]

(* Where a frame that was stored is now. *)
RxPlace(f) ==
  \/ f \in ToSet(delivered) \/ f \in nomem
  \/ \E d \in RxDesc : ~rx_dav[d] /\ held[d].good /\ held[d].id = f
  \/ rx_pc \in {"receive", "deliver"} /\ hand # 0 /\ f = hand

RxIncreasing == \A i, j \in 1 .. Len(delivered) : i < j => delivered[i] < delivered[j]

(* The inductive invariant of reception. *)
RxIInv ==
  /\ RxTypeOK /\ (\E k \in 0 .. RxN : RxRing(k)) /\ RxOrder /\ RxHand /\ RxNotified
  /\ RxIncreasing /\ \A f \in 0 .. MaxRx : f \in stored <=> RxPlace(f)

-----------------------------------------------------------------------------
(* The transmit chain holds k frames, from the one the DMA sends next on:    *)
(* the k frames that follow the ones on the wire.                            *)
TxRing(k) ==
  /\ \A d \in TxDesc :
       /\ tx_dav[d] <=> Past(d, tx_dma, TxN) < k
       /\ tx_dav[d] => /\ buf[d] = Len(sent) + 1 + Past(d, tx_dma, TxN)
                       /\ len[d] = Len(sent) + 1 + Past(d, tx_dma, TxN)
  /\ \A f \in ok : f <= Len(sent) + k
  /\ IF \E c \in Contexts : tx_pc[c] = "resume"
     THEN Nth(tx_cur, 1, TxN) = Nth(tx_dma, k, TxN)
     ELSE tx_cur = Nth(tx_dma, k, TxN)
  /\ nframes = Len(sent) + k
       + (IF \E c \in Contexts : tx_pc[c] \in {"wait", "copy", "transmit"} THEN 1 ELSE 0)

(* One context at most is in low_level_output; what it has prepared. *)
TxLocal ==
  /\ \E c \in Contexts : tx_pc[c] = "idle"
  /\ \A c \in Contexts :
       /\ tx_pc[c] # "idle" => job[c] = nframes /\ nframes > 0
       /\ tx_pc[c] \in {"copy", "transmit"} => dst[c] = tx_cur /\ ~tx_dav[tx_cur]
       /\ tx_pc[c] = "transmit" => buf[tx_cur] = job[c]

(* The inductive invariant of transmission. *)
TxIInv ==
  /\ TxTypeOK /\ sent \in Seq([bytes : 0 .. MaxTx, length : 0 .. MaxTx])
  /\ WireInOrder /\ TxLocal /\ \E k \in 0 .. TxN : TxRing(k)

-----------------------------------------------------------------------------
(* What a sequence holds after one more element. *)
LEMMA AppendSet ==
  ASSUME NEW S, NEW s \in Seq(S), NEW e \in S
  PROVE  /\ Append(s, e) \in Seq(S) /\ Len(Append(s, e)) = Len(s) + 1
         /\ \A i \in 1 .. Len(s) : Append(s, e)[i] = s[i]
         /\ Append(s, e)[Len(s) + 1] = e
         /\ \A x : x \in ToSet(Append(s, e)) <=> x \in ToSet(s) \/ x = e
<1>1. /\ Append(s, e) \in Seq(S) /\ Len(Append(s, e)) = Len(s) + 1
      /\ \A i \in 1 .. Len(s) : Append(s, e)[i] = s[i]
      /\ Append(s, e)[Len(s) + 1] = e
  OBVIOUS
<1>2. ASSUME NEW x PROVE x \in ToSet(Append(s, e)) <=> x \in ToSet(s) \/ x = e
  <2>1. DOMAIN s = 1 .. Len(s) /\ DOMAIN Append(s, e) = 1 .. Len(s) + 1 /\ Len(s) \in Nat
    OBVIOUS
  <2> QED BY <1>1, <2>1 DEF ToSet
<1> QED BY <1>1, <1>2

(* The chain starts empty and in step. *)
LEMMA RxInitInv == RxInit => RxIInv
<1> SUFFICES ASSUME RxInit PROVE RxIInv
  OBVIOUS
<1> USE RxAssumption DEF RxInit, RxDesc
<1>1. RxTypeOK
  BY DEF RxTypeOK, NoFrame, RxFrames
<1>2. 0 \in 0 .. RxN /\ RxRing(0)
  BY PastOfNth DEF RxRing
<1>3. RxOrder /\ RxHand /\ RxNotified /\ RxIncreasing
  BY DEF RxOrder, RxHand, RxNotified, RxIncreasing
<1>4. \A f : ~RxPlace(f)
  BY DEF RxPlace, ToSet
<1> QED BY <1>1, <1>2, <1>3, <1>4 DEF RxIInv

(* Positions counted from dma_current_rxdesc, and the frames delivered. *)
LEMMA RxFacts ==
  ASSUME RxTypeOK
  PROVE  /\ rx_cur \in RxDesc /\ rx_dma \in RxDesc /\ RxN \in Nat \ {0}
         /\ \A d \in RxDesc : /\ Past(d, rx_cur, RxN) \in 0 .. RxN - 1
                             /\ Nth(rx_cur, Past(d, rx_cur, RxN), RxN) = d
         /\ \A j \in 0 .. RxN - 1 : Past(Nth(rx_cur, j, RxN), rx_cur, RxN) = j
         /\ Past(rx_cur, rx_cur, RxN) = 0
         /\ Nth(rx_cur, RxN, RxN) = rx_cur /\ Nth(rx_cur, 0, RxN) = rx_cur
         /\ RxAfter(rx_dma) = Nth(rx_dma, 1, RxN) /\ RxAfter(rx_dma) \in RxDesc
         /\ RxAfter(rx_cur) = Nth(rx_cur, 1, RxN) /\ RxAfter(rx_cur) \in RxDesc
         /\ arrived \in Nat /\ Len(delivered) \in Nat
         /\ \A i \in 1 .. Len(delivered) : delivered[i] \in Nat
<1>1. RxN \in Nat \ {0} /\ rx_cur \in 0 .. RxN - 1 /\ rx_dma \in 0 .. RxN - 1
  BY RxAssumption DEF RxTypeOK, RxDesc
<1>2. 1 \in 0 .. RxN
  BY <1>1
<1>3. /\ RxAfter(rx_dma) = Nth(rx_dma, 1, RxN) /\ RxAfter(rx_dma) \in RxDesc
      /\ RxAfter(rx_cur) = Nth(rx_cur, 1, RxN) /\ RxAfter(rx_cur) \in RxDesc
  BY <1>1, <1>2, ModIsNth DEF RxAfter, RxDesc
<1>4. /\ arrived \in Nat /\ Len(delivered) \in Nat
      /\ \A i \in 1 .. Len(delivered) : delivered[i] \in Nat
  <2>1. arrived \in 0 .. MaxRx /\ delivered \in Seq(RxFrames)
    BY DEF RxTypeOK
  <2>2. \A i \in 1 .. Len(delivered) : delivered[i] \in RxFrames
    BY <2>1
  <2> QED BY <2>1, <2>2, RxAssumption DEF RxFrames
<1>5. /\ \A d \in RxDesc : /\ Past(d, rx_cur, RxN) \in 0 .. RxN - 1
                         /\ Nth(rx_cur, Past(d, rx_cur, RxN), RxN) = d
      /\ \A j \in 0 .. RxN - 1 : Past(Nth(rx_cur, j, RxN), rx_cur, RxN) = j
  <2>1. ASSUME NEW d \in RxDesc
        PROVE  /\ Past(d, rx_cur, RxN) \in 0 .. RxN - 1
               /\ Nth(rx_cur, Past(d, rx_cur, RxN), RxN) = d
    BY <1>1, PastOfNth DEF RxDesc
  <2>2. ASSUME NEW j \in 0 .. RxN - 1 PROVE Past(Nth(rx_cur, j, RxN), rx_cur, RxN) = j
    BY <1>1, PastOfNth
  <2> QED BY <2>1, <2>2
<1>6. /\ Past(rx_cur, rx_cur, RxN) = 0
      /\ Nth(rx_cur, RxN, RxN) = rx_cur /\ Nth(rx_cur, 0, RxN) = rx_cur
  BY <1>1, PastOfNth
<1> QED BY <1>1, <1>3, <1>4, <1>5, <1>6 DEF RxDesc

(* The DMA stores a frame behind the ones in the chain, or drops it. *)
LEMMA RxStoreStep == ASSUME RxIInv, NEW good \in BOOLEAN, dma_store(good) PROVE RxIInv'
<1>1. PICK k \in 0 .. RxN : RxRing(k)
  BY DEF RxIInv
<1>2. arrived' = arrived + 1 /\ arrived \in 0 .. MaxRx /\ arrived' \in 0 .. MaxRx
  BY RxAssumption DEF dma_store, RxIInv, RxTypeOK
<1>3. UNCHANGED <<rx_cur, rx_pc, hand, delivered, nomem>>
  BY DEF dma_store
<1>6. RxTypeOK
  BY DEF RxIInv
<1>4. CASE ~rx_dav[rx_dma]
  <2>1. UNCHANGED <<rx_dav, held, rx_dma, rs, stored>>
    BY <1>4 DEF dma_store
  <2>2. RxTypeOK'
    BY <1>2, <1>3, <2>1 DEF RxIInv, RxTypeOK
  <2>3. RxRing(k)' /\ RxNotified' /\ RxIncreasing'
    BY <1>1, <1>3, <2>1 DEF RxIInv, RxRing, RxNotified, RxIncreasing
  <2>4. RxOrder'
    <3>1. ASSUME NEW d \in RxDesc, ~rx_dav[d] PROVE held[d].id \in 1 .. arrived'
      BY <1>2, <3>1 DEF RxIInv, RxOrder
    <3>2. \A i \in 1 .. Len(delivered) : delivered[i] <= arrived'
      BY <1>2, <1>6, RxFacts DEF RxIInv, RxOrder
    <3> QED BY <1>3, <2>1, <3>1, <3>2 DEF RxIInv, RxOrder
  <2>5. RxHand'
    BY <1>2, <1>3, <2>1 DEF RxIInv, RxTypeOK, RxHand
  <2>6. \A f \in 0 .. MaxRx : (f \in stored <=> RxPlace(f))'
    BY <1>3, <2>1 DEF RxIInv, RxPlace
  <2> QED BY <1>1, <2>2, <2>3, <2>4, <2>5, <2>6 DEF RxIInv
<1>5. CASE rx_dav[rx_dma]
  <2> DEFINE frame == [id |-> arrived + 1, good |-> good]
  <2>1. /\ rx_dav' = [rx_dav EXCEPT ![rx_dma] = FALSE]
        /\ held' = [held EXCEPT ![rx_dma] = frame]
        /\ rx_dma' = RxAfter(rx_dma) /\ rs' = TRUE
        /\ stored' = IF good THEN stored \cup {arrived + 1} ELSE stored
    BY <1>5 DEF dma_store
  <2>2. /\ rx_dav \in [RxDesc -> BOOLEAN] /\ rx_dma \in RxDesc /\ rx_cur \in RxDesc
        /\ held \in [RxDesc -> [id : 0 .. MaxRx, good : BOOLEAN]]
    BY DEF RxIInv, RxTypeOK
  <2>3. frame \in [id : 0 .. MaxRx, good : BOOLEAN] /\ frame.id = arrived + 1 /\ frame.good = good
    BY <1>2
  <2>4. /\ ~rx_dav'[rx_dma] /\ held'[rx_dma] = frame
        /\ \A d \in RxDesc \ {rx_dma} : rx_dav'[d] = rx_dav[d] /\ held'[d] = held[d]
    BY <2>1, <2>2
  <2> HIDE DEF frame
  <2>5. k < RxN /\ Past(rx_dma, rx_cur, RxN) = k
    BY <1>1, <1>5, <1>6, RxFacts DEF RxRing
  <2>6. RxTypeOK'
    <3>1. rx_dma' \in RxDesc
      BY <2>1, <2>2, ModIsNth, RxAssumption DEF RxAfter, RxDesc
    <3>2. stored' \subseteq RxFrames
      BY <1>2, <2>1 DEF RxIInv, RxTypeOK, RxFrames
    <3>3. rx_dav' \in [RxDesc -> BOOLEAN] /\ held' \in [RxDesc -> [id : 0 .. MaxRx, good : BOOLEAN]]
      BY <2>1, <2>2, <2>3
    <3> QED BY <1>2, <1>3, <2>1, <2>2, <3>1, <3>2, <3>3 DEF RxIInv, RxTypeOK
  <2>7. k + 1 \in 0 .. RxN /\ RxRing(k + 1)'
    <3>1. rx_dma' = Nth(rx_cur, k + 1, RxN)
      BY <1>1, <2>1, <2>2, <2>5, ModIsNth, PastAfter, RxAssumption DEF RxRing, RxAfter, RxDesc
    <3>2. ASSUME NEW d \in RxDesc PROVE rx_dav'[d] <=> Past(d, rx_cur, RxN) >= k + 1
      <4>1. Past(d, rx_cur, RxN) \in Nat /\ (Past(d, rx_cur, RxN) = k => d = rx_dma)
        BY <1>1, <1>6, RxFacts DEF RxRing
      <4> QED BY <1>1, <2>4, <2>5, <4>1 DEF RxRing
    <3>3. k + 1 \in 0 .. RxN
      BY <1>6, <2>5, RxFacts
    <3> QED BY <1>3, <3>1, <3>2, <3>3 DEF RxRing
  <2>8. RxOrder'
    <3>1. \A d \in RxDesc : ~rx_dav[d] => Past(d, rx_cur, RxN) < k
      BY <1>1, <1>6, RxFacts DEF RxRing
    <3>2. ASSUME NEW d \in RxDesc, NEW e \in RxDesc, ~rx_dav'[d], ~rx_dav'[e],
                 Past(d, rx_cur, RxN) < Past(e, rx_cur, RxN)
          PROVE  held'[d].id < held'[e].id
      <4>1. d # rx_dma
        <5> SUFFICES ASSUME d = rx_dma PROVE FALSE
          OBVIOUS
        <5>1. e # rx_dma /\ ~rx_dav[e]
          BY <3>2, <2>4, <2>5
        <5> QED BY <1>1, <1>6, <3>1, <3>2, <2>5, <5>1, RxFacts
      <4>2. held'[d].id = held[d].id /\ ~rx_dav[d] /\ held[d].id \in 1 .. arrived
        BY <3>2, <2>4, <4>1 DEF RxIInv, RxOrder
      <4>3. CASE e = rx_dma
        BY <1>2, <2>3, <2>4, <4>2, <4>3
      <4>4. CASE e # rx_dma
        BY <3>2, <2>4, <4>2, <4>4 DEF RxIInv, RxOrder
      <4> QED BY <4>3, <4>4
    <3>3. ASSUME NEW d \in RxDesc, ~rx_dav'[d]
          PROVE  /\ held'[d].id \in 1 .. arrived'
                 /\ \A i \in 1 .. Len(delivered) : delivered[i] < held'[d].id
      <4>1. CASE d = rx_dma
        <5>1. \A i \in 1 .. Len(delivered) : delivered[i] <= arrived /\ delivered[i] \in Nat
          BY <1>6, RxFacts DEF RxIInv, RxOrder
        <5> QED BY <1>2, <2>3, <2>4, <4>1, <5>1
      <4>2. CASE d # rx_dma
        BY <1>2, <2>4, <3>3, <4>2 DEF RxIInv, RxOrder
      <4> QED BY <4>1, <4>2
    <3>4. \A i \in 1 .. Len(delivered) : delivered[i] <= arrived'
      BY <1>2, <1>6, RxFacts DEF RxIInv, RxOrder
    <3> QED BY <1>3, <3>2, <3>3, <3>4 DEF RxOrder
  <2>9. RxHand'
    <3>1. rx_pc \in {"input", "receive"} => rx_cur # rx_dma
      BY <1>5 DEF RxIInv, RxHand
    <3>2. rx_pc = "deliver" /\ hand # 0 => hand <= arrived /\ hand \in Nat
      BY DEF RxIInv, RxHand, RxTypeOK
    <3>3. rx_pc \in {"input", "receive"} =>
            rx_dav'[rx_cur] = rx_dav[rx_cur] /\ held'[rx_cur] = held[rx_cur]
      BY <1>6, <2>4, <3>1, RxFacts
    <3>4. ASSUME rx_pc = "deliver", hand # 0, NEW d \in RxDesc, ~rx_dav'[d]
          PROVE  hand < held'[d].id
      <4>1. CASE d = rx_dma
        BY <1>2, <2>3, <2>4, <3>2, <3>4, <4>1
      <4>2. CASE d # rx_dma
        BY <2>4, <3>4, <4>2 DEF RxIInv, RxHand
      <4> QED BY <4>1, <4>2
    <3>5. rx_pc = "deliver" /\ hand # 0 => hand <= arrived'
      BY <1>2, <3>2
    <3>6. RxHand
      BY DEF RxIInv
    <3> QED BY <1>3, <3>3, <3>4, <3>5, <3>6 DEF RxHand
  <2>10. RxNotified' /\ RxIncreasing'
    BY <1>3, <2>1 DEF RxIInv, RxNotified, RxIncreasing
  <2>11. ASSUME NEW f \in 0 .. MaxRx PROVE (f \in stored <=> RxPlace(f))'
    <3>1. RxPlace(f)' <=> RxPlace(f) \/ (good /\ f = arrived + 1)
      BY <1>3, <1>5, <2>2, <2>3, <2>4 DEF RxPlace
    <3> QED BY <2>1, <3>1 DEF RxIInv
  <2> QED BY <2>6, <2>7, <2>8, <2>9, <2>10, <2>11 DEF RxIInv
<1> QED BY <1>4, <1>5

(* The oldest frame's descriptor goes back: the chain shrinks at its head. *)
LEMMA GiveBackStep ==
  ASSUME RxIInv, GiveBack, ~rx_dav[rx_cur], UNCHANGED <<held, rx_dma, arrived, delivered>>
  PROVE  /\ \E k \in 0 .. RxN : RxRing(k)'
         /\ RxOrder'
         /\ rx_dav' \in [RxDesc -> BOOLEAN] /\ rx_cur' \in RxDesc
         /\ \A d \in RxDesc : rx_dav'[d] <=> rx_dav[d] \/ d = rx_cur
         /\ \A d \in RxDesc : ~rx_dav'[d] => held[rx_cur].id < held[d].id
<1>1. PICK k \in 0 .. RxN : RxRing(k)
  BY DEF RxIInv
<1>2. RxTypeOK /\ rx_dav \in [RxDesc -> BOOLEAN]
  BY DEF RxIInv, RxTypeOK
<1>3. rx_dav' \in [RxDesc -> BOOLEAN] /\ \A d \in RxDesc : rx_dav'[d] <=> rx_dav[d] \/ d = rx_cur
  BY <1>2 DEF GiveBack
<1>4. rx_cur' = Nth(rx_cur, 1, RxN) /\ rx_cur' \in RxDesc
  BY <1>2, RxFacts DEF GiveBack
<1>5. k > 0 /\ k - 1 \in 0 .. RxN /\ k \in 1 .. RxN
  BY <1>1, <1>2, RxFacts DEF RxRing
<1>6. \A d \in RxDesc :
        Past(d, rx_cur', RxN) = IF d = rx_cur THEN RxN - 1 ELSE Past(d, rx_cur, RxN) - 1
  BY <1>2, <1>4, RxFacts, PastAfter DEF RxDesc
<1>7. RxRing(k - 1)'
  <2>1. rx_dma' = Nth(rx_cur', k - 1, RxN)
    <3>1. rx_cur \in 0 .. RxN - 1 /\ RxN \in Nat \ {0}
      BY <1>2, RxFacts DEF RxDesc
    <3>2. Nth(Nth(rx_cur, 1, RxN), k - 1, RxN) = Nth(rx_cur, k, RxN)
      BY <1>5, <3>1, PastAfter
    <3> QED BY <1>1, <1>4, <3>2 DEF RxRing
  <2>2. ASSUME NEW d \in RxDesc PROVE rx_dav'[d] <=> Past(d, rx_cur', RxN) >= k - 1
    BY <1>1, <1>2, <1>3, <1>5, <1>6, RxFacts DEF RxRing
  <2> QED BY <2>1, <2>2 DEF RxRing
<1>8. ASSUME NEW d \in RxDesc, ~rx_dav'[d]
      PROVE  d # rx_cur /\ ~rx_dav[d] /\ held[rx_cur].id < held[d].id
  <2>1. d # rx_cur /\ ~rx_dav[d]
    BY <1>3, <1>8
  <2>2. Past(rx_cur, rx_cur, RxN) < Past(d, rx_cur, RxN)
    BY <1>2, <2>1, RxFacts
  <2> QED BY <1>2, <2>1, <2>2, RxFacts DEF RxIInv, RxOrder
<1>9. RxOrder'
  <2>1. ASSUME NEW d \in RxDesc, NEW e \in RxDesc, ~rx_dav'[d], ~rx_dav'[e],
               Past(d, rx_cur', RxN) < Past(e, rx_cur', RxN)
        PROVE  held[d].id < held[e].id
    <3>1. d # rx_cur /\ ~rx_dav[d] /\ e # rx_cur /\ ~rx_dav[e]
      BY <1>8, <2>1
    <3>2. Past(d, rx_cur, RxN) < Past(e, rx_cur, RxN)
      BY <1>2, <1>6, <2>1, <3>1, RxFacts
    <3> QED BY <3>1, <3>2 DEF RxIInv, RxOrder
  <2>2. ASSUME NEW d \in RxDesc, ~rx_dav'[d]
        PROVE  /\ held[d].id \in 1 .. arrived
               /\ \A i \in 1 .. Len(delivered) : delivered[i] < held[d].id
    BY <1>8, <2>2 DEF RxIInv, RxOrder
  <2>3. \A i \in 1 .. Len(delivered) : delivered[i] <= arrived
    BY DEF RxIInv, RxOrder
  <2> QED BY <2>1, <2>2, <2>3 DEF RxOrder
<1> QED BY <1>3, <1>4, <1>5, <1>7, <1>8, <1>9

(* The handler keeps it at every position. *)
LEMMA RxHandlerStep == ASSUME RxIInv, ENET_IRQHandler PROVE RxIInv'
<1>1. RxTypeOK /\ rx_cur \in RxDesc
  BY DEF RxIInv, RxTypeOK
<1>2. CASE isr_clear \/ isr_return
  <2>1. /\ UNCHANGED <<rx_dav, held, rx_dma, rx_cur, hand, arrived, stored, delivered, nomem>>
        /\ rs' \in BOOLEAN
        /\ \/ rx_pc = "idle" /\ rx_pc' = "size"
           \/ rx_pc = "return" /\ rx_pc' = "idle" /\ rs' = rs
    BY <1>1, <1>2 DEF isr_clear, isr_return, rx_ring, rx_history, RxTypeOK
  <2>2. RxTypeOK' /\ RxOrder' /\ RxIncreasing' /\ RxHand' /\ RxNotified'
    BY <2>1 DEF RxIInv, RxTypeOK, RxOrder, RxIncreasing, RxHand, RxNotified
  <2>3. \E k \in 0 .. RxN : RxRing(k)'
    BY <2>1 DEF RxIInv, RxRing
  <2>4. \A f \in 0 .. MaxRx : (f \in stored <=> RxPlace(f))'
    BY <2>1 DEF RxIInv, RxPlace
  <2> QED BY <2>2, <2>3, <2>4 DEF RxIInv
<1>3. CASE enet_rxframe_size_get /\ UNCHANGED <<rx_dav, rx_cur>>
  <2>1. /\ UNCHANGED <<rx_dav, held, rx_dma, rx_cur, rs, hand, arrived, stored, delivered, nomem>>
        /\ rx_pc = "size"
        /\ \/ rx_pc' = "return" /\ rx_dav[rx_cur]
           \/ rx_pc' = "input" /\ ~rx_dav[rx_cur] /\ held[rx_cur].good
    <3>1. ~GiveBack \/ rx_dav[rx_cur]
      BY <1>1, <1>3 DEF GiveBack, RxTypeOK
    <3> QED BY <1>3, <3>1 DEF enet_rxframe_size_get, rx_history
  <2>2. RxTypeOK' /\ RxOrder' /\ RxIncreasing' /\ RxHand'
    BY <2>1 DEF RxIInv, RxTypeOK, RxOrder, RxIncreasing, RxHand
  <2>3. \E k \in 0 .. RxN : RxRing(k)'
    BY <2>1 DEF RxIInv, RxRing
  <2>4. RxNotified'
    <3>1. PICK k \in 0 .. RxN : RxRing(k)
      BY DEF RxIInv
    <3>2. rx_dav[rx_cur] => \A d \in RxDesc : rx_dav[d]
      BY <1>1, <3>1, RxFacts DEF RxRing
    <3> QED BY <2>1, <3>2 DEF RxNotified
  <2>5. \A f \in 0 .. MaxRx : (f \in stored <=> RxPlace(f))'
    BY <2>1 DEF RxIInv, RxPlace
  <2> QED BY <2>2, <2>3, <2>4, <2>5 DEF RxIInv
<1>4. CASE enet_rxframe_size_get /\ GiveBack /\ ~rx_dav[rx_cur] /\ ~held[rx_cur].good
  <2>1. /\ UNCHANGED <<held, rx_dma, rs, hand, arrived, stored, delivered, nomem>>
        /\ rx_pc = "size" /\ rx_pc' \in {"size", "input"} /\ (rx_pc' = "input" => held[rx_cur].good)
    BY <1>4 DEF enet_rxframe_size_get, rx_history
  <2>2. /\ \E k \in 0 .. RxN : RxRing(k)'
        /\ RxOrder'
        /\ rx_dav' \in [RxDesc -> BOOLEAN] /\ rx_cur' \in RxDesc
        /\ \A d \in RxDesc : rx_dav'[d] <=> rx_dav[d] \/ d = rx_cur
    BY <1>4, <2>1, GiveBackStep
  <2>3. RxTypeOK' /\ RxIncreasing' /\ RxHand' /\ RxNotified'
    BY <1>4, <2>1, <2>2 DEF RxIInv, RxTypeOK, RxIncreasing, RxHand, RxNotified
  <2>4. \A f \in 0 .. MaxRx : (f \in stored <=> RxPlace(f))'
    BY <1>4, <2>1, <2>2 DEF RxIInv, RxPlace
  <2> QED BY <2>2, <2>3, <2>4 DEF RxIInv
<1>5. CASE low_level_input
  <2>1. /\ UNCHANGED <<rx_dav, held, rx_dma, rx_cur, rs, arrived, stored, delivered>>
        /\ rx_pc = "input" /\ rx_pc' = "receive"
        /\ \/ hand' = held[rx_cur].id /\ nomem' = nomem
           \/ hand' = 0 /\ nomem' = nomem \cup {held[rx_cur].id}
    BY <1>5 DEF low_level_input, rx_ring
  <2>2. /\ ~rx_dav[rx_cur] /\ held[rx_cur].good
        /\ held[rx_cur].id \in 1 .. arrived /\ held[rx_cur].id \in RxFrames
    BY <1>1, <2>1, RxAssumption DEF RxIInv, RxHand, RxOrder, RxTypeOK, RxFrames
  <2>3. held[rx_cur].id # 0 /\ held[rx_cur].id \in 0 .. MaxRx
    BY <2>2, RxAssumption DEF RxFrames
  <2>4. RxTypeOK'
    <3>1. hand' \in 0 .. MaxRx
      BY <2>1, <2>3, RxAssumption
    <3>2. nomem' \subseteq RxFrames
      BY <1>1, <2>1, <2>2 DEF RxTypeOK
    <3> QED BY <1>1, <2>1, <3>1, <3>2 DEF RxTypeOK
  <2>5. RxOrder' /\ RxIncreasing' /\ RxHand' /\ RxNotified'
    BY <2>1, <2>2, <2>3 DEF RxIInv, RxOrder, RxIncreasing, RxHand, RxNotified
  <2>6. \E k \in 0 .. RxN : RxRing(k)'
    BY <2>1 DEF RxIInv, RxRing
  <2>7. \A f \in 0 .. MaxRx : (f \in stored <=> RxPlace(f))'
    BY <1>1, <2>1, <2>2 DEF RxIInv, RxPlace
  <2> QED BY <2>4, <2>5, <2>6, <2>7 DEF RxIInv
<1>6. CASE enet_frame_receive
  <2>1. rx_pc = "receive" /\ ~rx_dav[rx_cur] /\ held[rx_cur].good
    BY <1>6 DEF enet_frame_receive, RxIInv, RxHand
  <2>2. /\ UNCHANGED <<held, rx_dma, rs, hand, arrived, stored, delivered, nomem>>
        /\ rx_pc' = "deliver" /\ GiveBack
    BY <1>6, <2>1 DEF enet_frame_receive, rx_history
  <2>3. /\ \E k \in 0 .. RxN : RxRing(k)'
        /\ RxOrder'
        /\ rx_dav' \in [RxDesc -> BOOLEAN] /\ rx_cur' \in RxDesc
        /\ \A d \in RxDesc : rx_dav'[d] <=> rx_dav[d] \/ d = rx_cur
        /\ \A d \in RxDesc : ~rx_dav'[d] => held[rx_cur].id < held[d].id
    BY <2>1, <2>2, GiveBackStep
  <2>4. IF hand = 0 THEN held[rx_cur].id \in nomem ELSE hand = held[rx_cur].id
    BY <2>1 DEF RxIInv, RxHand
  <2>5. RxTypeOK' /\ RxIncreasing' /\ RxNotified'
    BY <2>2, <2>3 DEF RxIInv, RxTypeOK, RxIncreasing, RxNotified
  <2>6. RxHand'
    <3>1. held[rx_cur].id <= arrived
      BY <1>1, <2>1 DEF RxIInv, RxOrder
    <3>2. \A i \in 1 .. Len(delivered) : delivered[i] < held[rx_cur].id
      BY <1>1, <2>1 DEF RxIInv, RxOrder
    <3> QED BY <2>2, <2>3, <2>4, <3>1, <3>2 DEF RxHand
  <2>7. ASSUME NEW f \in 0 .. MaxRx PROVE (f \in stored <=> RxPlace(f))'
    <3>1. RxPlace(f)' <=> RxPlace(f)
      BY <1>1, <2>1, <2>2, <2>3, <2>4 DEF RxPlace
    <3> QED BY <2>2, <3>1 DEF RxIInv
  <2> QED BY <2>3, <2>5, <2>6, <2>7 DEF RxIInv
<1>7. CASE ethernetif_input
  <2>1. /\ UNCHANGED <<rx_dav, held, rx_dma, rx_cur, rs, hand, arrived, stored, nomem>>
        /\ rx_pc = "deliver" /\ rx_pc' = "size"
        /\ delivered' = IF hand # 0 THEN Append(delivered, hand) ELSE delivered
    BY <1>7 DEF ethernetif_input, rx_ring
  <2>2. delivered \in Seq(RxFrames) /\ (hand # 0 => hand \in RxFrames)
    BY <1>1, RxAssumption DEF RxTypeOK, RxFrames
  <2>3. CASE hand = 0
    <3>1. delivered' = delivered
      BY <2>1, <2>3
    <3>2. RxTypeOK' /\ RxOrder' /\ RxIncreasing' /\ RxHand' /\ RxNotified'
      BY <2>1, <3>1 DEF RxIInv, RxTypeOK, RxOrder, RxIncreasing, RxHand, RxNotified
    <3>3. \E k \in 0 .. RxN : RxRing(k)'
      BY <2>1 DEF RxIInv, RxRing
    <3>4. \A f \in 0 .. MaxRx : (f \in stored <=> RxPlace(f))'
      BY <2>1, <2>3, <3>1 DEF RxIInv, RxPlace
    <3> QED BY <3>2, <3>3, <3>4 DEF RxIInv
  <2>4. CASE hand # 0
    <3>1. /\ delivered' \in Seq(RxFrames) /\ Len(delivered') = Len(delivered) + 1
          /\ \A i \in 1 .. Len(delivered) : delivered'[i] = delivered[i]
          /\ delivered'[Len(delivered) + 1] = hand
          /\ \A x : x \in ToSet(delivered') <=> x \in ToSet(delivered) \/ x = hand
      BY <2>1, <2>2, <2>4, AppendSet
    <3>2. /\ hand <= arrived
          /\ \A i \in 1 .. Len(delivered) : delivered[i] < hand
          /\ \A d \in RxDesc : ~rx_dav[d] => hand < held[d].id
      BY <2>1, <2>4 DEF RxIInv, RxHand
    <3>3. \A i \in 1 .. Len(delivered') : i \in 1 .. Len(delivered) \/ i = Len(delivered) + 1
      BY <1>1, <3>1, RxFacts
    <3>4. RxTypeOK'
      BY <2>1, <3>1 DEF RxIInv, RxTypeOK
    <3>5. RxHand' /\ RxNotified'
      BY <2>1 DEF RxIInv, RxHand, RxNotified
    <3>6. \E k \in 0 .. RxN : RxRing(k)'
      BY <2>1 DEF RxIInv, RxRing
    <3>7. RxOrder'
      BY <2>1, <3>1, <3>2, <3>3 DEF RxIInv, RxOrder
    <3>8. RxIncreasing'
      <4> SUFFICES ASSUME NEW i \in 1 .. Len(delivered'), NEW j \in 1 .. Len(delivered'), i < j
                   PROVE  delivered'[i] < delivered'[j]
        BY DEF RxIncreasing
      <4>1. i \in 1 .. Len(delivered)
        BY <1>1, <3>1, RxFacts
      <4>2. CASE j \in 1 .. Len(delivered)
        BY <3>1, <4>1, <4>2 DEF RxIInv, RxIncreasing
      <4>3. CASE j = Len(delivered) + 1
        BY <3>1, <3>2, <4>1, <4>3
      <4> QED BY <3>3, <4>2, <4>3
    <3>9. \A f \in 0 .. MaxRx : (f \in stored <=> RxPlace(f))'
      BY <2>1, <2>4, <3>1 DEF RxIInv, RxPlace
    <3> QED BY <3>4, <3>5, <3>6, <3>7, <3>8, <3>9 DEF RxIInv
  <2> QED BY <2>3, <2>4
<1>8. CASE enet_rxframe_size_get
  BY <1>3, <1>4, <1>8 DEF enet_rxframe_size_get
<1> QED BY <1>2, <1>5, <1>6, <1>7, <1>8 DEF ENET_IRQHandler

(* Every step of reception keeps it. *)
LEMMA RxStep == RxIInv /\ (RxNext \/ UNCHANGED rx_vars) => RxIInv'
<1> SUFFICES ASSUME RxIInv, RxNext \/ UNCHANGED rx_vars PROVE RxIInv'
  OBVIOUS
<1>1. CASE RxNext
  BY <1>1, RxHandlerStep, RxStoreStep DEF RxNext
<1>2. CASE UNCHANGED rx_vars
  BY <1>2 DEF rx_vars, rx_ring, rx_history, RxIInv, RxTypeOK, RxRing, RxOrder, RxHand,
              RxNotified, RxIncreasing, RxPlace
<1> QED BY <1>1, <1>2

(* The inductive invariant of reception says that its books are kept. *)
LEMMA RxImplies == RxIInv => RxInv /\ NoneStranded
<1> SUFFICES ASSUME RxIInv PROVE RxInv /\ NoneStranded
  OBVIOUS
<1>1. RxTypeOK
  BY DEF RxIInv
<1>2. InStep
  <2>1. PICK k \in 0 .. RxN : RxRing(k)
    BY DEF RxIInv
  <2>2. \A i \in 0 .. RxN : (rx_cur + i) % RxN = Nth(rx_cur, i, RxN)
                           /\ Nth(rx_cur, i, RxN) \in RxDesc
    BY <1>1, RxFacts, ModIsNth DEF RxDesc
  <2>3. ASSUME NEW i \in 0 .. RxN - 1 PROVE rx_dav[(rx_cur + i) % RxN] <=> i >= k
    <3>1. i \in 0 .. RxN /\ Past(Nth(rx_cur, i, RxN), rx_cur, RxN) = i
      BY <1>1, RxFacts
    <3> QED BY <2>1, <2>2, <3>1 DEF RxRing
  <2>4. (rx_cur + k) % RxN = rx_dma
    BY <2>1, <2>2 DEF RxRing
  <2> QED BY <2>3, <2>4 DEF InStep
<1>3. Accounted
  <2> DEFINE places == UNION { ToSet(delivered), nomem,
               {held[d].id : d \in {e \in RxDesc : ~rx_dav[e] /\ held[e].good}},
               IF rx_pc \in {"receive", "deliver"} /\ hand # 0 THEN {hand} ELSE {} }
  <2>1. \A f : f \in places <=> RxPlace(f)
    BY DEF RxPlace
  <2>2. \A f \in ToSet(delivered) : f \in 0 .. MaxRx
    <3>1. delivered \in Seq(RxFrames)
      BY <1>1 DEF RxTypeOK
    <3>2. \A i \in DOMAIN delivered : delivered[i] \in RxFrames
      BY <3>1
    <3> QED BY <3>2, RxAssumption DEF ToSet, RxFrames
  <2>3. \A d \in RxDesc : held[d].id \in 0 .. MaxRx
    BY <1>1 DEF RxTypeOK
  <2>4. \A f : RxPlace(f) => f \in 0 .. MaxRx
    <3>1. hand \in 0 .. MaxRx /\ \A f \in nomem : f \in 0 .. MaxRx
      BY <1>1, RxAssumption DEF RxTypeOK, RxFrames
    <3> QED BY <2>2, <2>3, <3>1 DEF RxPlace
  <2>5. \A f \in stored : f \in 0 .. MaxRx
    BY <1>1, RxAssumption DEF RxTypeOK, RxFrames
  <2> HIDE DEF places
  <2>6. stored = places
    BY <2>1, <2>4, <2>5 DEF RxIInv
  <2> QED BY <2>6 DEF places, Accounted, RxIInv, RxIncreasing
<1>4. NoneStranded
  BY DEF RxIInv, RxNotified, NoneStranded
<1> QED BY <1>1, <1>2, <1>3, <1>4 DEF RxInv

-----------------------------------------------------------------------------
(* What goes out of the chain. *)
TxPackets == [bytes : 0 .. MaxTx, length : 0 .. MaxTx]

(* The transmit chain starts empty. *)
LEMMA TxInitInv == TxInit => TxIInv
<1> SUFFICES ASSUME TxInit PROVE TxIInv
  OBVIOUS
<1> USE TxAssumption DEF TxInit, TxDesc
<1>1. TxTypeOK
  <2>1. tx_cur \in TxDesc /\ tx_dma \in TxDesc /\ 0 \in TxDesc /\ nframes \in 0 .. MaxTx
    OBVIOUS
  <2>2. buf \in [TxDesc -> 0 .. MaxTx] /\ len \in [TxDesc -> 0 .. MaxTx]
    OBVIOUS
  <2>3. /\ job \in [Contexts -> 0 .. MaxTx] /\ dst \in [Contexts -> TxDesc]
        /\ tx_pc \in [Contexts -> {"idle", "wait", "copy", "transmit", "resume"}]
    BY <2>1
  <2>4. tx_dav \in [TxDesc -> BOOLEAN] /\ tbu \in BOOLEAN /\ ok \subseteq TxFrames
    OBVIOUS
  <2>5. \A i \in 1 .. Len(sent) : sent[i] \in [bytes : 0 .. MaxTx, length : 0 .. MaxTx]
    OBVIOUS
  <2> HIDE DEF TxInit, TxDesc
  <2> QED BY <2>1, <2>2, <2>3, <2>4, <2>5 DEF TxTypeOK
<1>2. sent \in Seq([bytes : 0 .. MaxTx, length : 0 .. MaxTx]) /\ WireInOrder
  BY DEF WireInOrder
<1>3. TxLocal
  BY DEF TxLocal, Contexts
<1>4. 0 \in 0 .. TxN /\ TxRing(0)
  BY PastOfNth DEF TxRing
<1> QED BY <1>1, <1>2, <1>3, <1>4 DEF TxIInv

(* Positions counted from the descriptor that is sent next. *)
LEMMA TxFacts ==
  ASSUME TxIInv
  PROVE  /\ tx_cur \in TxDesc /\ tx_dma \in TxDesc /\ TxN \in Nat \ {0}
         /\ \A d \in TxDesc : /\ Past(d, tx_dma, TxN) \in 0 .. TxN - 1
                             /\ Nth(tx_dma, Past(d, tx_dma, TxN), TxN) = d
         /\ \A j \in 0 .. TxN - 1 : Past(Nth(tx_dma, j, TxN), tx_dma, TxN) = j
         /\ Past(tx_dma, tx_dma, TxN) = 0
         /\ Nth(tx_dma, TxN, TxN) = tx_dma /\ Nth(tx_dma, 0, TxN) = tx_dma
         /\ TxAfter(tx_dma) = Nth(tx_dma, 1, TxN) /\ TxAfter(tx_dma) \in TxDesc
         /\ TxAfter(tx_cur) = Nth(tx_cur, 1, TxN) /\ TxAfter(tx_cur) \in TxDesc
         /\ Len(sent) \in Nat /\ nframes \in Nat
<1>1. TxN \in Nat \ {0} /\ tx_cur \in 0 .. TxN - 1 /\ tx_dma \in 0 .. TxN - 1
  BY TxAssumption DEF TxIInv, TxTypeOK, TxDesc
<1>2. 1 \in 0 .. TxN
  BY <1>1
<1>3. /\ TxAfter(tx_dma) = Nth(tx_dma, 1, TxN) /\ TxAfter(tx_dma) \in TxDesc
      /\ TxAfter(tx_cur) = Nth(tx_cur, 1, TxN) /\ TxAfter(tx_cur) \in TxDesc
  BY <1>1, <1>2, ModIsNth DEF TxAfter, TxDesc
<1>4. Len(sent) \in Nat /\ nframes \in Nat
  BY DEF TxIInv, TxTypeOK
<1>5. /\ \A d \in TxDesc : /\ Past(d, tx_dma, TxN) \in 0 .. TxN - 1
                         /\ Nth(tx_dma, Past(d, tx_dma, TxN), TxN) = d
      /\ \A j \in 0 .. TxN - 1 : Past(Nth(tx_dma, j, TxN), tx_dma, TxN) = j
  <2>1. ASSUME NEW d \in TxDesc
        PROVE  /\ Past(d, tx_dma, TxN) \in 0 .. TxN - 1
               /\ Nth(tx_dma, Past(d, tx_dma, TxN), TxN) = d
    BY <1>1, PastOfNth DEF TxDesc
  <2>2. ASSUME NEW j \in 0 .. TxN - 1 PROVE Past(Nth(tx_dma, j, TxN), tx_dma, TxN) = j
    BY <1>1, PastOfNth
  <2> QED BY <2>1, <2>2
<1>6. /\ Past(tx_dma, tx_dma, TxN) = 0
      /\ Nth(tx_dma, TxN, TxN) = tx_dma /\ Nth(tx_dma, 0, TxN) = tx_dma
  BY <1>1, PastOfNth
<1> QED BY <1>1, <1>3, <1>4, <1>5, <1>6 DEF TxDesc

(* The DMA sends the oldest frame of the chain, which is the next one of the *)
(* wire, or suspends.                                                        *)
LEMMA DmaSendStep == ASSUME TxIInv, dma_send PROVE TxIInv'
<1>1. PICK k \in 0 .. TxN : TxRing(k)
  BY DEF TxIInv
<1>2. UNCHANGED <<buf, len, tx_cur, tx_pc, job, dst, nframes, ok>>
  BY DEF dma_send, locals
<1>3. CASE ~tx_dav[tx_dma]
  <2>1. UNCHANGED <<tx_dav, tx_dma, sent>> /\ tbu' = TRUE
    BY <1>3 DEF dma_send
  <2> QED BY <1>1, <1>2, <2>1 DEF TxIInv, TxTypeOK, WireInOrder, TxLocal, TxRing
<1>4. CASE tx_dav[tx_dma]
  <2> DEFINE packet == [bytes |-> buf[tx_dma], length |-> len[tx_dma]]
  <2>1. /\ sent' = Append(sent, packet)
        /\ tx_dav' = [tx_dav EXCEPT ![tx_dma] = FALSE]
        /\ tx_dma' = TxAfter(tx_dma) /\ tbu' = tbu
    BY <1>4 DEF dma_send
  <2>2. /\ tx_dav \in [TxDesc -> BOOLEAN] /\ tx_dma \in TxDesc
        /\ sent \in Seq(TxPackets)
    BY DEF TxIInv, TxTypeOK, TxPackets
  <2>3. k \in 1 .. TxN /\ k - 1 \in 0 .. TxN
    BY <1>1, <1>4, TxFacts DEF TxRing
  <2>4. packet = [bytes |-> Len(sent) + 1, length |-> Len(sent) + 1]
    BY <1>1, <1>4, TxFacts DEF TxRing
  <2>5. packet \in TxPackets
    BY <2>2 DEF TxIInv, TxTypeOK, TxPackets
  <2> HIDE DEF packet
  <2>6. /\ sent' \in Seq(TxPackets) /\ Len(sent') = Len(sent) + 1
        /\ \A i \in 1 .. Len(sent) : sent'[i] = sent[i]
        /\ sent'[Len(sent) + 1] = packet
    BY <2>1, <2>2, <2>5, AppendSet
  <2>7. WireInOrder'
    <3> SUFFICES ASSUME NEW i \in 1 .. Len(sent')
                 PROVE  sent'[i] = [bytes |-> i, length |-> i]
      BY DEF WireInOrder
    <3>1. i \in 1 .. Len(sent) \/ i = Len(sent) + 1
      BY <2>6, TxFacts
    <3> QED BY <2>4, <2>6, <3>1 DEF TxIInv, WireInOrder
  <2>8. \A d \in TxDesc : tx_dav'[d] <=> tx_dav[d] /\ d # tx_dma
    BY <2>1, <2>2
  <2>9. TxTypeOK' /\ sent' \in Seq([bytes : 0 .. MaxTx, length : 0 .. MaxTx])
    <3>1. tx_dav' \in [TxDesc -> BOOLEAN] /\ tx_dma' \in TxDesc
      BY <2>1, <2>2, TxFacts
    <3>2. \A i \in 1 .. Len(sent') : sent'[i] \in TxPackets
      BY <2>6
    <3> QED BY <1>2, <2>1, <2>6, <3>1, <3>2 DEF TxIInv, TxTypeOK, TxPackets
  <2>10. TxLocal'
    BY <1>2, <2>8, TxFacts DEF TxIInv, TxLocal
  <2>11. TxRing(k - 1)'
    <3>1. tx_dma \in 0 .. TxN - 1 /\ TxN \in Nat \ {0} /\ tx_dma' = Nth(tx_dma, 1, TxN)
      BY <2>1, TxFacts DEF TxDesc
    <3>2. \A d \in TxDesc :
            Past(d, tx_dma', TxN) = IF d = tx_dma THEN TxN - 1 ELSE Past(d, tx_dma, TxN) - 1
      BY <3>1, PastAfter DEF TxDesc
    <3>3. ASSUME NEW d \in TxDesc
          PROVE  /\ tx_dav'[d] <=> Past(d, tx_dma', TxN) < k - 1
                 /\ tx_dav'[d] => /\ buf[d] = Len(sent') + 1 + Past(d, tx_dma', TxN)
                                  /\ len[d] = Len(sent') + 1 + Past(d, tx_dma', TxN)
      <4>1. /\ tx_dav[d] <=> Past(d, tx_dma, TxN) < k
            /\ tx_dav[d] => /\ buf[d] = Len(sent) + 1 + Past(d, tx_dma, TxN)
                            /\ len[d] = Len(sent) + 1 + Past(d, tx_dma, TxN)
        BY <1>1 DEF TxRing
      <4>2. Past(d, tx_dma, TxN) \in 0 .. TxN - 1 /\ Len(sent) \in Nat /\ TxN \in Nat
        BY TxFacts
      <4>3. tx_dav'[d] <=> tx_dav[d] /\ d # tx_dma
        BY <2>8
      <4>4. CASE d = tx_dma
        <5>1. Past(d, tx_dma', TxN) = TxN - 1
          BY <3>2, <4>4
        <5> QED BY <2>3, <4>2, <4>3, <4>4, <5>1
      <4>5. CASE d # tx_dma
        <5>1. Past(d, tx_dma', TxN) = Past(d, tx_dma, TxN) - 1
          BY <3>2, <4>5
        <5> QED BY <2>3, <2>6, <4>1, <4>2, <4>3, <4>5, <5>1
      <4> QED BY <4>4, <4>5
    <3>4. Nth(tx_dma', k - 1, TxN) = Nth(tx_dma, k, TxN)
      BY <2>3, <3>1, PastAfter
    <3>5. Len(sent') + (k - 1) = Len(sent) + k
      BY <2>3, <2>6, TxFacts
    <3> QED BY <1>1, <1>2, <3>3, <3>4, <3>5 DEF TxRing
  <2> QED BY <2>3, <2>7, <2>9, <2>10, <2>11 DEF TxIInv
<1> QED BY <1>3, <1>4

(* With one context at a time, the one that acts is alone in lwIP. *)
LEMMA OneContext ==
  ASSUME ~TwoContexts, TxIInv, NEW c \in Contexts, low_level_output(c) \/ Output(c)
  PROVE  \A e \in Contexts : e # c => tx_pc[e] = "idle"
<1>1. CASE low_level_output(c)
  BY <1>1 DEF low_level_output, At, Contexts
<1>2. CASE Output(c)
  <2>1. tx_pc[c] # "idle"
    BY <1>2 DEF Output, output_wait, output_copy, enet_frame_transmit, transmit_resume, At
  <2> QED BY <2>1 DEF TxIInv, TxLocal, Contexts
<1> QED BY <1>1, <1>2

(* A context in low_level_output keeps it. *)
LEMMA OutputStep ==
  ASSUME ~TwoContexts, TxIInv, NEW c \in Contexts, low_level_output(c) \/ Output(c)
  PROVE  TxIInv'
<1>1. PICK k \in 0 .. TxN : TxRing(k)
  BY DEF TxIInv
<1>2. \A e \in Contexts : e # c => tx_pc[e] = "idle"
  BY OneContext
<1>3. /\ tx_pc \in [Contexts -> {"idle", "wait", "copy", "transmit", "resume"}]
      /\ job \in [Contexts -> 0 .. MaxTx] /\ dst \in [Contexts -> TxDesc]
      /\ tx_dav \in [TxDesc -> BOOLEAN]
      /\ buf \in [TxDesc -> 0 .. MaxTx] /\ len \in [TxDesc -> 0 .. MaxTx]
      /\ TxTypeOK /\ Len(sent) \in Nat /\ nframes \in 0 .. MaxTx
  BY TxFacts DEF TxIInv, TxTypeOK
<1>4. ASSUME NEW l \in {"idle", "wait", "copy", "transmit", "resume"}, Goto(c, l)
      PROVE  /\ tx_pc' \in [Contexts -> {"idle", "wait", "copy", "transmit", "resume"}]
             /\ tx_pc'[c] = l
             /\ \A e \in Contexts : e # c => tx_pc'[e] = "idle"
             /\ \A L : "idle" \notin L => ((\E e \in Contexts : tx_pc'[e] \in L) <=> l \in L)
             /\ (\E e \in Contexts : tx_pc'[e] = "resume") <=> l = "resume"
             /\ \E e \in Contexts : tx_pc'[e] = "idle"
  BY <1>2, <1>3, <1>4 DEF Goto, Contexts
<1>5. /\ \A L : "idle" \notin L => ((\E e \in Contexts : tx_pc[e] \in L) <=> tx_pc[c] \in L)
      /\ (\E e \in Contexts : tx_pc[e] = "resume") <=> tx_pc[c] = "resume"
  BY <1>2
<1>6. /\ IF tx_pc[c] = "resume" THEN Nth(tx_cur, 1, TxN) = Nth(tx_dma, k, TxN)
                                ELSE tx_cur = Nth(tx_dma, k, TxN)
      /\ nframes = Len(sent) + k + (IF tx_pc[c] \in {"wait", "copy", "transmit"} THEN 1 ELSE 0)
  BY <1>1, <1>5 DEF TxRing
<1>7. CASE low_level_output(c)
  <2>1. /\ tx_pc[c] = "idle" /\ nframes < MaxTx /\ nframes' = nframes + 1
        /\ job' = [job EXCEPT ![c] = nframes + 1] /\ Goto(c, "wait")
        /\ UNCHANGED <<tx_dav, buf, len, tx_cur, tx_dma, tbu, dst, ok, sent>>
    BY <1>7 DEF low_level_output, At, tx_chain
  <2>2. nframes + 1 \in 0 .. MaxTx /\ job' \in [Contexts -> 0 .. MaxTx] /\ job'[c] = nframes + 1
    BY <1>3, <2>1, TxAssumption
  <2>3. TxTypeOK'
    BY <1>3, <1>4, <2>1, <2>2 DEF TxTypeOK
  <2>4. TxLocal'
    <3>1. /\ tx_pc'[c] = "wait" /\ \E e \in Contexts : tx_pc'[e] = "idle"
          /\ \A e \in Contexts : e # c => tx_pc'[e] = "idle"
      BY <1>4, <2>1
    <3>2. nframes' > 0 /\ job'[c] = nframes'
      BY <1>3, <2>1, <2>2
    <3> QED BY <3>1, <3>2 DEF TxLocal
  <2>5. nframes' = Len(sent) + k + 1 /\ tx_cur = Nth(tx_dma, k, TxN)
    BY <1>3, <1>6, <2>1
  <2>6. TxRing(k)'
    BY <1>1, <1>4, <2>1, <2>5 DEF TxRing
  <2> QED BY <2>1, <2>3, <2>4, <2>6 DEF TxIInv, WireInOrder
<1>8. CASE output_wait(c)
  <2>1. /\ tx_pc[c] = "wait" /\ ~tx_dav[tx_cur]
        /\ dst' = [dst EXCEPT ![c] = tx_cur] /\ Goto(c, "copy")
        /\ UNCHANGED <<tx_dav, buf, len, tx_cur, tx_dma, tbu, job, nframes, ok, sent>>
    BY <1>8 DEF output_wait, At, tx_chain, tx_history
  <2>2. dst' \in [Contexts -> TxDesc] /\ dst'[c] = tx_cur
    BY <1>3, <2>1, TxFacts
  <2>3. TxTypeOK'
    BY <1>3, <1>4, <2>1, <2>2 DEF TxTypeOK
  <2>4. job[c] = nframes /\ nframes > 0
    BY <2>1 DEF TxIInv, TxLocal
  <2>5. TxLocal'
    BY <1>4, <2>1, <2>2, <2>4 DEF TxLocal
  <2>6. TxRing(k)'
    BY <1>1, <1>4, <1>6, <2>1 DEF TxRing
  <2> QED BY <2>1, <2>3, <2>5, <2>6 DEF TxIInv, WireInOrder
<1>9. CASE output_copy(c)
  <2>1. /\ tx_pc[c] = "copy"
        /\ buf' = [buf EXCEPT ![dst[c]] = job[c]] /\ Goto(c, "transmit")
        /\ UNCHANGED <<tx_dav, len, tx_cur, tx_dma, tbu, job, dst, nframes, ok, sent>>
    BY <1>9 DEF output_copy, At, tx_history
  <2>2. dst[c] = tx_cur /\ ~tx_dav[tx_cur] /\ job[c] = nframes /\ nframes > 0
    BY <2>1 DEF TxIInv, TxLocal
  <2>3. /\ buf' \in [TxDesc -> 0 .. MaxTx] /\ buf'[tx_cur] = job[c]
        /\ \A d \in TxDesc : tx_dav[d] => buf'[d] = buf[d]
    BY <1>3, <2>1, <2>2, TxFacts
  <2>4. TxTypeOK'
    BY <1>3, <1>4, <2>1, <2>3 DEF TxTypeOK
  <2>5. TxLocal'
    BY <1>4, <2>1, <2>2, <2>3 DEF TxLocal
  <2>6. TxRing(k)'
    BY <1>1, <1>4, <1>6, <2>1, <2>3 DEF TxRing
  <2> QED BY <2>1, <2>4, <2>5, <2>6 DEF TxIInv, WireInOrder
<1>10. CASE enet_frame_transmit(c)
  <2>1. tx_pc[c] = "transmit" /\ ~tx_dav[tx_cur] /\ buf[tx_cur] = job[c] /\ job[c] = nframes
    BY <1>10 DEF enet_frame_transmit, At, TxIInv, TxLocal
  <2>2. /\ len' = [len EXCEPT ![tx_cur] = job[c]]
        /\ tx_dav' = [tx_dav EXCEPT ![tx_cur] = TRUE] /\ Goto(c, "resume")
        /\ UNCHANGED <<buf, tx_cur, tx_dma, tbu, job, dst, nframes, ok, sent>>
    BY <1>10, <2>1 DEF enet_frame_transmit
  <2>3. tx_cur = Nth(tx_dma, k, TxN) /\ nframes = Len(sent) + k + 1 /\ nframes > 0
    BY <1>3, <1>6, <2>1
  <2>4. k < TxN /\ Past(tx_cur, tx_dma, TxN) = k /\ k + 1 \in 0 .. TxN
    <3>1. k \in 0 .. TxN - 1
      <4> SUFFICES ASSUME k = TxN PROVE FALSE
        BY TxAssumption
      <4>1. tx_cur = tx_dma /\ Past(tx_cur, tx_dma, TxN) = 0
        BY <2>3, TxFacts
      <4> QED BY <1>1, <2>1, <4>1, TxFacts DEF TxRing
    <3>2. Past(tx_cur, tx_dma, TxN) = k
      BY <2>3, <3>1, TxFacts
    <3> QED BY <3>1, <3>2, TxAssumption
  <2>5. /\ tx_dav' \in [TxDesc -> BOOLEAN] /\ len' \in [TxDesc -> 0 .. MaxTx]
        /\ len'[tx_cur] = nframes /\ tx_dav'[tx_cur]
        /\ \A d \in TxDesc : d # tx_cur => tx_dav'[d] = tx_dav[d] /\ len'[d] = len[d]
    BY <1>3, <2>1, <2>2, TxFacts
  <2>6. TxTypeOK'
    BY <1>3, <1>4, <2>2, <2>5 DEF TxTypeOK
  <2>7. TxLocal'
    BY <1>4, <2>1, <2>2, <2>3 DEF TxLocal
  <2>8. ASSUME NEW d \in TxDesc
        PROVE  /\ tx_dav'[d] <=> Past(d, tx_dma, TxN) < k + 1
               /\ tx_dav'[d] => /\ buf[d] = Len(sent) + 1 + Past(d, tx_dma, TxN)
                                /\ len'[d] = Len(sent) + 1 + Past(d, tx_dma, TxN)
    <3>1. CASE d = tx_cur
      BY <1>3, <2>1, <2>3, <2>4, <2>5, <3>1
    <3>2. CASE d # tx_cur
      <4>1. Past(d, tx_dma, TxN) # k /\ Past(d, tx_dma, TxN) \in Nat
        BY <2>3, <3>2, TxFacts
      <4> QED BY <1>1, <2>5, <3>2, <4>1 DEF TxRing
    <3> QED BY <3>1, <3>2
  <2>9. Nth(tx_cur, 1, TxN) = Nth(tx_dma, k + 1, TxN)
    <3>1. tx_dma \in 0 .. TxN - 1 /\ TxN \in Nat \ {0} /\ k \in 0 .. TxN - 1
      BY <2>4, TxFacts DEF TxDesc
    <3> QED BY <2>3, <3>1, PastAfter
  <2>10. /\ \A f \in ok : f <= Len(sent) + (k + 1)
         /\ nframes = Len(sent) + (k + 1) + 0
    <3>1. \A f \in ok : f \in Nat /\ f <= Len(sent) + k
      BY <1>1, <1>3, TxAssumption DEF TxRing, TxTypeOK, TxFrames
    <3> QED BY <1>3, <2>3, <3>1
  <2>11. TxRing(k + 1)'
    BY <1>4, <2>2, <2>8, <2>9, <2>10 DEF TxRing
  <2> QED BY <2>2, <2>4, <2>6, <2>7, <2>11 DEF TxIInv, WireInOrder
<1>11. CASE transmit_resume(c)
  <2>1. /\ tx_pc[c] = "resume" /\ tbu' = FALSE /\ tx_cur' = TxAfter(tx_cur)
        /\ ok' = ok \cup {job[c]} /\ Goto(c, "idle")
        /\ UNCHANGED <<tx_dav, buf, len, tx_dma, job, dst, nframes, sent>>
    BY <1>11 DEF transmit_resume, At, tx_chain
  <2>2. job[c] = nframes /\ nframes > 0 /\ nframes = Len(sent) + k
    BY <1>3, <1>6, <2>1 DEF TxIInv, TxLocal
  <2>3. ok' \subseteq TxFrames
    <3>1. nframes \in TxFrames
      BY <1>3, <2>2, TxAssumption DEF TxFrames
    <3> QED BY <1>3, <2>1, <2>2, <3>1 DEF TxTypeOK
  <2>4. tx_cur' \in TxDesc /\ tx_cur' = Nth(tx_dma, k, TxN)
    BY <1>6, <2>1, TxFacts
  <2>5. TxTypeOK'
    BY <1>3, <1>4, <2>1, <2>3, <2>4 DEF TxTypeOK
  <2>6. TxLocal'
    BY <1>4, <2>1 DEF TxLocal
  <2>7. TxRing(k)'
    <3>1. \A f \in ok' : f <= Len(sent) + k
      BY <1>1, <1>3, <2>1, <2>2 DEF TxRing
    <3>2. nframes = Len(sent) + k + 0
      BY <1>3, <2>2
    <3> QED BY <1>1, <1>4, <2>1, <2>4, <3>1, <3>2 DEF TxRing
  <2> QED BY <2>1, <2>5, <2>6, <2>7 DEF TxIInv, WireInOrder
<1> QED BY <1>7, <1>8, <1>9, <1>10, <1>11 DEF Output

(* Every step of transmission keeps it. *)
LEMMA TxStep ==
  ASSUME ~TwoContexts, TxIInv, TxNext \/ UNCHANGED tx_vars
  PROVE  TxIInv'
<1>1. CASE TxNext
  BY <1>1, DmaSendStep, OutputStep DEF TxNext
<1>2. CASE UNCHANGED tx_vars
  <2> USE <1>2 DEF tx_vars, tx_chain, locals, tx_history
  <2>1. TxTypeOK' /\ sent' \in Seq([bytes : 0 .. MaxTx, length : 0 .. MaxTx])
    BY DEF TxIInv, TxTypeOK
  <2>2. WireInOrder' /\ TxLocal'
    BY DEF TxIInv, WireInOrder, TxLocal
  <2>3. \E k \in 0 .. TxN : TxRing(k)'
    BY DEF TxIInv, TxRing
  <2> QED BY <2>1, <2>2, <2>3 DEF TxIInv
<1> QED BY <1>1, <1>2

(* The inductive invariant of transmission says that its books are kept. *)
LEMMA TxImplies == TxIInv => TxInv
<1> SUFFICES ASSUME TxIInv PROVE TxInv
  OBVIOUS
<1>1. PICK k \in 0 .. TxN : TxRing(k)
  BY DEF TxIInv
<1>2. ASSUME NEW f \in ok
      PROVE  \/ \E i \in 1 .. Len(sent) : sent[i] = [bytes |-> f, length |-> f]
             \/ \E d \in TxDesc : tx_dav[d] /\ buf[d] = f /\ len[d] = f
  <2>1. f \in Nat \ {0} /\ f <= Len(sent) + k
    BY <1>1, TxAssumption DEF TxIInv, TxTypeOK, TxFrames, TxRing
  <2>2. CASE f <= Len(sent)
    <3>1. f \in 1 .. Len(sent)
      BY <2>1, <2>2, TxFacts
    <3> QED BY <3>1 DEF TxIInv, WireInOrder
  <2>3. CASE f > Len(sent)
    <3> DEFINE j == f - 1 - Len(sent)
               d == Nth(tx_dma, j, TxN)
    <3>1. j \in 0 .. TxN - 1 /\ j < k
      BY <2>1, <2>3, TxFacts
    <3>2. d \in TxDesc
      <4>1. tx_dma \in 0 .. TxN - 1 /\ TxN \in Nat \ {0} /\ j \in 0 .. TxN
        BY <3>1, TxFacts DEF TxDesc
      <4> HIDE DEF j
      <4> QED BY <4>1, ModIsNth DEF TxDesc
    <3>3. Past(d, tx_dma, TxN) = j
      BY <3>1, TxFacts
    <3>4. f = Len(sent) + 1 + j
      BY <2>1, TxFacts
    <3> HIDE DEF j, d
    <3>5. tx_dav[d] /\ buf[d] = f /\ len[d] = f
      BY <1>1, <3>1, <3>2, <3>3, <3>4 DEF TxRing
    <3> QED BY <3>2, <3>5
  <2> QED BY <2>1, <2>2, <2>3, TxFacts
<1> QED BY <1>2 DEF TxIInv, TxInv, OkMeansSent

-----------------------------------------------------------------------------
(* A step of the driver is a step of reception, of transmission, or of both  *)
(* (an answer sent from netif->input).                                       *)
LEMMA DriverStep ==
  ASSUME [Next]_vars
  PROVE  /\ RxNext \/ UNCHANGED rx_vars
         /\ TxNext \/ UNCHANGED tx_vars
BY DEF Next, vars, Isr, isr_enter, isr_drain, isr_answer, isr_output, main_send,
       main_output, Dma, RxNext, ENET_IRQHandler, TxNext, Contexts

(* Reception keeps its books in the driver, whatever it sends: the driver    *)
(* and the DMA are in step on the chain, and every good frame is delivered   *)
(* in order, refused a pbuf, or still on its way.                            *)
THEOREM ReceptionSafe == Spec => []RxInv
<1>1. Init => RxIInv
  BY RxInitInv DEF Init
<1>2. RxIInv /\ [Next]_vars => RxIInv'
  BY RxStep, DriverStep
<1>3. RxIInv => RxInv
  BY RxImplies
<1> QED BY <1>1, <1>2, <1>3, PTL DEF Spec

(* ENET_IRQHandler clears its flags before it drains the chain, so no frame  *)
(* waits in the chain without an interrupt.                                  *)
THEOREM NoFrameStranded == Spec => []NoneStranded
<1>1. Init => RxIInv
  BY RxInitInv DEF Init
<1>2. RxIInv /\ [Next]_vars => RxIInv'
  BY RxStep, DriverStep
<1>3. RxIInv => NoneStranded
  BY RxImplies
<1> QED BY <1>1, <1>2, <1>3, PTL DEF Spec

(* With lwIP in one context at a time, the wire carries the frames of lwIP   *)
(* whole, once and in order, and ERR_OK of low_level_output is the truth.    *)
THEOREM TransmissionSafe == ASSUME ~TwoContexts PROVE Spec => []TxInv
<1>1. Init => TxIInv
  BY TxInitInv DEF Init
<1>2. TxIInv /\ [Next]_vars => TxIInv'
  BY TxStep, DriverStep
<1>3. TxIInv => TxInv
  BY TxImplies
<1> QED BY <1>1, <1>2, <1>3, PTL DEF Spec
=============================================================================
