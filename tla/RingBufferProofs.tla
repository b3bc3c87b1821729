-------------------------- MODULE RingBufferProofs --------------------------
(***************************************************************************)
(* For any size of the buffer that its 16-bit indices can hold, any chunks *)
(* and any number of bytes: the ring buffer shows its reader the newest    *)
(* bytes in order, loses none that fits, announces none it cannot give,    *)
(* and so implements a bounded FIFO.                                       *)
(***************************************************************************)
EXTENDS RingBuffer, SequenceTheorems, TLAPS

(* From one index forward to another, and the slot k places on. *)
Dist(w, r) == IF r <= w THEN w - r ELSE w - r + Size
Nth(r, k) == IF r + k < Size THEN r + k ELSE r + k - Size

(* The calls stay inside their bounds. *)
CountInv ==
  /\ nwritten + wtodo <= MaxWrites
  /\ pc \in {"copy", "load", "store", "zero"} => rtodo > 0

(* Inside a call of the reader the handler has room for what it writes. *)
RoomInv == pc # "idle" => wtodo + ring_buffer_available_read <= Size - 1

(* What the reader has loaded, and what it has seen, is still true. *)
LoadedInv ==
  /\ pc \in {"copy", "load", "store"} => read_index # write_index
  /\ pc = "store" => reg = read_index
  /\ pc = "mirror_store" => reg \in {0, IndexMod - 1}
  /\ pc = "available" => reg \in Slots /\ Available(reg, read_index) <= Readable

(* Between its stores a reset has not yet given the old slots to a write. *)
ResetInv == pc = "reset_read" => read_index = 0 \/ write_index < read_index

(* What an ideal queue holds bounds what this one does. *)
UnreadInv == Readable <= unread /\ unread <= Size - 1

(* The inductive invariant. *)
IInv ==
  /\ TypeOK /\ CountInv /\ RoomInv /\ LoadedInv /\ ResetInv /\ UnreadInv
  /\ NewestBytes /\ KeepsUnread /\ AnnouncedIsReadable

-----------------------------------------------------------------------------
(* Arithmetic on the ring: the remainders of the code, without them. *)
LEMMA Sizes ==
  /\ Size \in Nat \ {0} /\ IndexMod \in Nat /\ Size < IndexMod
  /\ MaxChunk \in Nat /\ MaxWrites \in Nat /\ Slots = 0 .. Size - 1 /\ 0 \in Slots
BY SizeAssumption, BoundsAssumption DEF Slots

(* The next index of ring_buffer_write and ring_buffer_read. *)
LEMMA SuccIs ==
  ASSUME NEW i \in Slots
  PROVE  Succ(i) \in Slots /\ Succ(i) = IF i + 1 < Size THEN i + 1 ELSE 0
BY SizeAssumption DEF Slots, Succ

(* The slot k places on from an index. *)
LEMMA NthIs ==
  ASSUME NEW r \in Slots, NEW k \in Slots
  PROVE  Nth(r, k) \in Slots /\ (r + k) % Size = Nth(r, k)
<1> USE Sizes DEF Nth
<1>1. CASE r + k < Size
  BY <1>1
<1>2. CASE ~(r + k < Size)
  <2>1. r + k - Size \in 0 .. Size - 1
    BY <1>2
  <2> QED BY <1>2, <2>1
<1> QED BY <1>1, <1>2

(* ring_buffer_available_read wraps twice and comes out right. *)
LEMMA AvailableIs ==
  ASSUME NEW w \in Slots, NEW r \in Slots
  PROVE  Available(w, r) = Dist(w, r)
<1> USE Sizes
<1>1. CASE r <= w
  <2>1. w - r \in 0 .. IndexMod - 1
    BY <1>1
  <2> QED BY <1>1, <2>1 DEF Available, Dist
<1>2. CASE r > w /\ w + Size < IndexMod
  <2>1. (w + Size) % IndexMod = w + Size
    BY <1>2
  <2>2. w + Size - r \in 0 .. IndexMod - 1
    BY <1>2
  <2> QED BY <1>2, <2>1, <2>2 DEF Available, Dist
<1>3. CASE r > w /\ ~(w + Size < IndexMod)
  <2>1. (w + Size) % IndexMod = w + Size - IndexMod
    BY <1>3
  <2>2. w + Size - IndexMod - r + IndexMod \in 0 .. IndexMod - 1
    BY <1>3
  <2>3. (w + Size - IndexMod - r) % IndexMod = w + Size - IndexMod - r + IndexMod
    BY <1>3, <2>2
  <2> QED BY <1>3, <2>1, <2>3 DEF Available, Dist
<1> QED BY <1>1, <1>2, <1>3

(* The stretch from one index to the other leaves the end of it out. *)
LEMMA DistIs ==
  ASSUME NEW w \in Slots, NEW r \in Slots
  PROVE  /\ Dist(w, r) \in 0 .. Size - 1 /\ Nth(r, Dist(w, r)) = w
         /\ Dist(w, r) = 0 <=> w = r
         /\ \A k \in 0 .. Dist(w, r) - 1 : k \in Slots /\ Nth(r, k) # w
BY Sizes DEF Dist, Nth

(* Either index moves on by one. *)
LEMMA DistWrite ==
  ASSUME NEW w \in Slots, NEW r \in Slots
  PROVE  /\ Dist(Succ(w), r) = IF Dist(w, r) = Size - 1 THEN 0 ELSE Dist(w, r) + 1
         /\ Succ(w) = r <=> Dist(w, r) = Size - 1
<1>1. PICK v : v = Succ(w) /\ v = IF w + 1 < Size THEN w + 1 ELSE 0
  BY SuccIs
<1>2. Dist(v, r) = IF Dist(w, r) = Size - 1 THEN 0 ELSE Dist(w, r) + 1
  BY <1>1, Sizes DEF Dist
<1>3. v = r <=> Dist(w, r) = Size - 1
  BY <1>1, Sizes DEF Dist
<1> QED BY <1>1, <1>2, <1>3

(* read_index moves on by one towards write_index. *)
LEMMA DistRead ==
  ASSUME NEW w \in Slots, NEW r \in Slots, w # r
  PROVE  Dist(w, Succ(r)) = Dist(w, r) - 1
<1>1. PICK q : q = Succ(r) /\ q = IF r + 1 < Size THEN r + 1 ELSE 0
  BY SuccIs
<1>2. Dist(w, q) = Dist(w, r) - 1
  BY <1>1, Sizes DEF Dist
<1> QED BY <1>1, <1>2

(* Both move on by one, as when ring_buffer_write discards a byte. *)
LEMMA DistBoth ==
  ASSUME NEW w \in Slots, NEW r \in Slots
  PROVE  Dist(Succ(w), Succ(r)) = Dist(w, r)
<1>1. PICK v : v = Succ(w) /\ v = IF w + 1 < Size THEN w + 1 ELSE 0
  BY SuccIs
<1>2. PICK q : q = Succ(r) /\ q = IF r + 1 < Size THEN r + 1 ELSE 0
  BY SuccIs
<1>3. Dist(v, q) = Dist(w, r)
  BY <1>1, <1>2, Sizes DEF Dist
<1> QED BY <1>1, <1>2, <1>3

(* From the next slot on everything is one place nearer. *)
LEMMA NthSucc ==
  ASSUME NEW r \in Slots, NEW k \in Slots, k + 1 < Size
  PROVE  Nth(Succ(r), k) = Nth(r, k + 1)
<1>1. PICK q : q = Succ(r) /\ q = IF r + 1 < Size THEN r + 1 ELSE 0
  BY SuccIs
<1>2. Nth(q, k) = Nth(r, k + 1)
  BY <1>1, Sizes DEF Nth
<1> QED BY <1>1, <1>2

-----------------------------------------------------------------------------
(* The reader's view is the stretch from First to write_index. *)
LEMMA ViewIs ==
  TypeOK =>
    /\ First \in Slots /\ Readable = Dist(write_index, First) /\ Readable \in 0 .. Size - 1
    /\ ring_buffer_available_read = Dist(write_index, read_index)
    /\ write_index \in Slots /\ read_index \in Slots
    /\ pc # "reset_read" => First = read_index
<1> SUFFICES ASSUME TypeOK
             PROVE  /\ First \in Slots /\ Readable = Dist(write_index, First)
                    /\ Readable \in 0 .. Size - 1
                    /\ ring_buffer_available_read = Dist(write_index, read_index)
                    /\ write_index \in Slots /\ read_index \in Slots
                    /\ pc # "reset_read" => First = read_index
  OBVIOUS
<1>1. write_index \in Slots /\ read_index \in Slots /\ 0 \in Slots
  BY Sizes DEF TypeOK
<1>2. ring_buffer_available_read = Dist(write_index, read_index)
  BY <1>1, AvailableIs DEF ring_buffer_available_read
<1>3. Dist(write_index, 0) = write_index
  BY <1>1, Sizes DEF Dist
<1>4. First \in Slots /\ Readable = Dist(write_index, First)
  BY <1>1, <1>2, <1>3 DEF First, Readable
<1> QED BY <1>1, <1>2, <1>4, DistIs DEF First

(* The same of the next state. *)
LEMMA ViewNext ==
  TypeOK' =>
    /\ First' \in Slots /\ Readable' = Dist(write_index', First') /\ Readable' \in 0 .. Size - 1
    /\ ring_buffer_available_read' = Dist(write_index', read_index')
    /\ write_index' \in Slots /\ read_index' \in Slots
    /\ pc' # "reset_read" => First' = read_index'
<1>1. (TypeOK => /\ First \in Slots /\ Readable = Dist(write_index, First)
                 /\ Readable \in 0 .. Size - 1
                 /\ ring_buffer_available_read = Dist(write_index, read_index)
                 /\ write_index \in Slots /\ read_index \in Slots
                 /\ pc # "reset_read" => First = read_index)'
  BY ViewIs, PTL
<1> QED BY <1>1

(* The newest bytes, without remainders. *)
StoredInOrder ==
  \A k \in 0 .. Readable - 1 : buffer[Nth(First, k)] = nwritten - Readable + 1 + k

(* NewestBytes says the same. *)
LEMMA NewestIs == TypeOK => (NewestBytes <=> StoredInOrder)
<1> SUFFICES ASSUME TypeOK PROVE NewestBytes <=> StoredInOrder
  OBVIOUS
<1>1. First \in Slots /\ Readable \in 0 .. Size - 1
  BY ViewIs
<1>2. \A k \in 0 .. Readable - 1 : (First + k) % Size = Nth(First, k)
  <2>1. \A k \in 0 .. Readable - 1 : k \in Slots
    BY <1>1, Sizes
  <2> QED BY <1>1, <2>1, NthIs
<1> QED BY <1>2 DEF NewestBytes, Byte, StoredInOrder

(* The invariant holds after ring_buffer_init. *)
LEMMA InitInv == Init => IInv
<1> SUFFICES ASSUME Init PROVE IInv
  OBVIOUS
<1> USE Sizes DEF Init
<1>1. TypeOK
  <2>1. buffer \in [Slots -> 0 .. MaxWrites]
    BY DEF Slots
  <2>2. write_index \in Slots /\ read_index \in Slots /\ reg \in Indices
    BY DEF Indices
  <2>3. /\ wtodo \in 0 .. MaxChunk /\ rtodo \in 0 .. MaxChunk /\ mirror \in {0, IndexMod - 1}
        /\ got \in 0 .. MaxWrites /\ nwritten \in 0 .. MaxWrites
        /\ unread \in Nat /\ promised \in Nat
    OBVIOUS
  <2>4. overrun \in BOOLEAN /\ pc \in Labels
    BY DEF Labels
  <2> HIDE DEF Init
  <2> QED BY <2>1, <2>2, <2>3, <2>4 DEF TypeOK
<1>2. Readable = 0
  BY <1>1, ViewIs, DistIs DEF First
<1>3. ring_buffer_available_read = 0
  BY <1>2 DEF Readable
<1>4. CountInv /\ RoomInv /\ LoadedInv /\ ResetInv
  BY <1>3 DEF CountInv, RoomInv, LoadedInv, ResetInv
<1>5. UnreadInv /\ NewestBytes /\ KeepsUnread /\ AnnouncedIsReadable
  BY <1>2 DEF UnreadInv, NewestBytes, KeepsUnread, AnnouncedIsReadable
<1> QED BY <1>1, <1>4, <1>5 DEF IInv

-----------------------------------------------------------------------------
(* What a step does to the reader's view: nothing, a byte more, a byte less, *)
(* nothing left, or a byte into a full queue.                                *)
SameView == First' = First /\ Readable' = Readable /\ UNCHANGED <<buffer, nwritten>>

PutView ==
  /\ Readable < Size - 1 /\ First' = First /\ Readable' = Readable + 1
  /\ buffer' = [buffer EXCEPT ![write_index] = nwritten + 1]
  /\ nwritten' = nwritten + 1 /\ nwritten + 1 \in 1 .. MaxWrites

GetView ==
  /\ Readable > 0 /\ First' = Succ(First) /\ Readable' = Readable - 1
  /\ UNCHANGED <<buffer, nwritten>>

OverView ==
  /\ Readable = Size - 1
  /\ \/ First' = Succ(First) /\ Readable' = Readable
     \/ Readable' = 0
  /\ buffer' = [buffer EXCEPT ![write_index] = nwritten + 1]
  /\ nwritten' = nwritten + 1 /\ nwritten + 1 \in 1 .. MaxWrites

View == SameView \/ PutView \/ GetView \/ OverView \/ Readable' = 0

(* Whatever a step does to the view, what is readable stays the newest. *)
LEMMA NewestKept ==
  ASSUME TypeOK, TypeOK', NewestBytes, View
  PROVE  NewestBytes'
<1>1. /\ First \in Slots /\ Readable \in 0 .. Size - 1 /\ write_index \in Slots
      /\ Readable = Dist(write_index, First)
      /\ buffer \in [Slots -> 0 .. MaxWrites] /\ nwritten \in Nat
  <2>1. buffer \in [Slots -> 0 .. MaxWrites] /\ nwritten \in 0 .. MaxWrites
    BY DEF TypeOK
  <2> QED BY <2>1, ViewIs
<1>2. \A k \in 0 .. Readable - 1 : buffer[Nth(First, k)] = nwritten - Readable + 1 + k
  BY NewestIs DEF StoredInOrder
<1>3. \A k \in 0 .. Readable - 1 : k \in Slots /\ Nth(First, k) \in Slots /\ Nth(First, k) # write_index
  BY <1>1, DistIs, NthIs
<1>4. Nth(First, Readable) = write_index
  BY <1>1, DistIs
<1>5. SUFFICES ASSUME NEW k \in 0 .. Readable' - 1
               PROVE  buffer'[Nth(First', k)] = nwritten' - Readable' + 1 + k
  <2>1. (TypeOK => (NewestBytes <=> StoredInOrder))'
    BY NewestIs, PTL
  <2> QED BY <1>5, <2>1 DEF StoredInOrder
<1>6. CASE SameView
  BY <1>2, <1>6 DEF SameView
<1>7. CASE PutView
  <2>1. /\ First' = First /\ Readable' = Readable + 1 /\ nwritten' = nwritten + 1
        /\ buffer' = [buffer EXCEPT ![write_index] = nwritten + 1]
    BY <1>7 DEF PutView
  <2>2. CASE k = Readable
    BY <1>1, <1>4, <2>1, <2>2
  <2>3. CASE k \in 0 .. Readable - 1
    <3>1. buffer'[Nth(First, k)] = buffer[Nth(First, k)]
      BY <1>1, <1>3, <2>1, <2>3
    <3> QED BY <1>1, <1>2, <2>1, <2>3, <3>1
  <2> QED BY <1>1, <2>1, <2>2, <2>3
<1>8. CASE GetView
  <2>1. First' = Succ(First) /\ Readable' = Readable - 1 /\ UNCHANGED <<buffer, nwritten>>
    BY <1>8 DEF GetView
  <2>2. k + 1 \in 0 .. Readable - 1 /\ k \in Slots /\ k + 1 < Size
    <3>1. Size \in Nat /\ Slots = 0 .. Size - 1
      BY Sizes
    <3> QED BY <1>1, <2>1, <3>1
  <2>3. Nth(First', k) = Nth(First, k + 1)
    BY <1>1, <2>1, <2>2, NthSucc
  <2> QED BY <1>1, <1>2, <2>1, <2>2, <2>3
<1>9. CASE OverView /\ Readable' # 0
  <2>1. /\ First' = Succ(First) /\ Readable' = Readable /\ Readable = Size - 1
        /\ nwritten' = nwritten + 1 /\ buffer' = [buffer EXCEPT ![write_index] = nwritten + 1]
    BY <1>9 DEF OverView
  <2>2. k \in Slots /\ k + 1 < Size
    BY <1>1, <2>1, Sizes
  <2>3. Nth(First', k) = Nth(First, k + 1)
    BY <1>1, <2>1, <2>2, NthSucc
  <2>4. CASE k + 1 = Readable
    BY <1>1, <1>4, <2>1, <2>3, <2>4
  <2>5. CASE k + 1 \in 0 .. Readable - 1
    <3>1. buffer'[Nth(First, k + 1)] = buffer[Nth(First, k + 1)]
      BY <1>1, <1>3, <2>1, <2>5
    <3> QED BY <1>1, <1>2, <2>1, <2>3, <2>5, <3>1
  <2> QED BY <1>1, <2>1, <2>4, <2>5
<1>10. CASE Readable' = 0
  BY <1>10
<1> QED BY <1>6, <1>7, <1>8, <1>9, <1>10 DEF View

-----------------------------------------------------------------------------
(* A step that moves neither index keeps the view. *)
LEMMA QuietKeeps ==
  ASSUME IInv, TypeOK', UNCHANGED <<buffer, write_index, read_index, nwritten, unread, overrun>>,
         pc' = "reset_read" <=> pc = "reset_read",
         promised' = promised \/ promised' <= Readable
  PROVE  /\ SameView /\ ring_buffer_available_read' = ring_buffer_available_read
         /\ ResetInv' /\ UnreadInv' /\ NewestBytes' /\ KeepsUnread' /\ AnnouncedIsReadable'
<1>1. ring_buffer_available_read' = ring_buffer_available_read
  BY DEF ring_buffer_available_read
<1>2. First' = First /\ Readable' = Readable
  BY <1>1 DEF First, Readable
<1>3. SameView
  BY <1>2 DEF SameView
<1>4. NewestBytes'
  BY <1>3, NewestKept DEF IInv, View
<1>5. ResetInv' /\ UnreadInv' /\ KeepsUnread' /\ AnnouncedIsReadable'
  BY <1>2 DEF IInv, ResetInv, UnreadInv, KeepsUnread, AnnouncedIsReadable
<1> QED BY <1>1, <1>3, <1>4, <1>5

(* A call of ring_buffer_write begins. *)
LEMMA WriteKeeps ==
  ASSUME IInv, NEW n \in 1 .. MaxChunk, ring_buffer_write(n)
  PROVE  IInv' /\ SameView
<1>1. /\ wtodo = 0 /\ nwritten + n <= MaxWrites /\ (Fits(n) \/ pc = "idle") /\ wtodo' = n
      /\ UNCHANGED <<buffer, write_index, read_index, mirror, pc, rtodo, reg, got,
                     nwritten, unread, promised, overrun>>
  BY DEF ring_buffer_write, rb, reader, history
<1>2. TypeOK /\ wtodo' \in 0 .. MaxChunk
  BY <1>1, Sizes DEF IInv
<1>3. TypeOK'
  BY <1>1, <1>2 DEF TypeOK
<1>4. /\ SameView /\ ring_buffer_available_read' = ring_buffer_available_read
      /\ ResetInv' /\ UnreadInv' /\ NewestBytes' /\ KeepsUnread' /\ AnnouncedIsReadable'
  BY <1>1, <1>3, QuietKeeps
<1>5. CountInv' /\ LoadedInv'
  BY <1>1, <1>4 DEF IInv, CountInv, LoadedInv, SameView
<1>6. RoomInv'
  <2>1. ring_buffer_available_read \in 0 .. Size - 1
    BY <1>2, ViewIs, DistIs
  <2> QED BY <1>1, <1>4, <2>1, Sizes DEF RoomInv, Fits
<1> QED BY <1>3, <1>4, <1>5, <1>6 DEF IInv

(* A step of the reader that moves no index: the handler is not writing, so  *)
(* there is room, and only what the reader has loaded is at stake.           *)
LEMMA ReaderQuiet ==
  ASSUME IInv, wtodo = 0, wtodo' = 0,
         UNCHANGED <<buffer, write_index, read_index, nwritten, unread, promised, overrun>>,
         got' \in 0 .. MaxWrites, mirror' \in {0, IndexMod - 1}, rtodo' \in 0 .. MaxChunk,
         reg' \in Indices, pc' \in Labels,
         pc # "reset_read", pc' # "reset_read",
         pc' \in {"copy", "load", "store", "zero"} => rtodo' > 0,
         LoadedInv'
  PROVE  IInv' /\ SameView
<1>1. TypeOK
  BY DEF IInv
<1>2. TypeOK'
  BY <1>1 DEF TypeOK
<1>3. /\ SameView /\ ring_buffer_available_read' = ring_buffer_available_read
      /\ ResetInv' /\ UnreadInv' /\ NewestBytes' /\ KeepsUnread' /\ AnnouncedIsReadable'
  BY <1>2, QuietKeeps
<1>4. CountInv'
  BY DEF IInv, CountInv
<1>5. RoomInv'
  <2>1. ring_buffer_available_read \in 0 .. Size - 1
    BY <1>1, ViewIs, DistIs
  <2> QED BY <1>3, <2>1, Sizes DEF RoomInv
<1> QED BY <1>2, <1>3, <1>4, <1>5 DEF IInv

(* The reader's own steps up to the store, and after it. *)
LEMMA ReaderSteps ==
  ASSUME IInv,
         \/ \E n \in 1 .. MaxChunk : ring_buffer_read(n)
         \/ read_test \/ read_copy \/ read_load \/ read_zero \/ mirror_load \/ mirror_store
         \/ available_load
  PROVE  IInv' /\ SameView
<1>1. TypeOK /\ CountInv /\ LoadedInv
  BY DEF IInv
<1>2. /\ buffer \in [Slots -> 0 .. MaxWrites] /\ read_index \in Slots /\ write_index \in Slots
      /\ mirror \in {0, IndexMod - 1} /\ rtodo \in 0 .. MaxChunk /\ reg \in Indices
      /\ got \in 0 .. MaxWrites
  BY <1>1 DEF TypeOK
<1>3. Slots \subseteq Indices /\ {0, IndexMod - 1} \subseteq Indices
  BY Sizes DEF Indices
<1> USE DEF At, Goto, rb, history
<1>4. CASE \E n \in 1 .. MaxChunk : ring_buffer_read(n)
  <2>1. PICK n \in 1 .. MaxChunk : ring_buffer_read(n)
    BY <1>4
  <2>2. /\ wtodo = 0 /\ pc = "idle" /\ pc' = "test" /\ rtodo' = n
        /\ UNCHANGED <<buffer, write_index, read_index, mirror, reg, got, wtodo,
                       nwritten, unread, promised, overrun>>
    BY <2>1 DEF ring_buffer_read
  <2>3. n \in 0 .. MaxChunk
    OBVIOUS
  <2>4. LoadedInv'
    BY <2>2 DEF LoadedInv
  <2> QED BY <1>2, <2>2, <2>3, <2>4, ReaderQuiet DEF Labels
<1>5. CASE read_test
  <2>1. /\ wtodo = 0 /\ pc = "test"
        /\ \/ rtodo > 0 /\ read_index # write_index /\ pc' = "copy" /\ UNCHANGED rtodo
           \/ pc' = "idle" /\ rtodo' = 0
        /\ UNCHANGED <<buffer, write_index, read_index, mirror, reg, got, wtodo,
                       nwritten, unread, promised, overrun>>
    BY <1>5 DEF read_test
  <2>2. LoadedInv' /\ rtodo' \in 0 .. MaxChunk
    BY <1>2, <2>1, Sizes DEF LoadedInv
  <2> QED BY <1>2, <2>1, <2>2, ReaderQuiet DEF Labels
<1>6. CASE read_copy
  <2>1. /\ wtodo = 0 /\ pc = "copy" /\ pc' = "load" /\ got' = buffer[read_index]
        /\ UNCHANGED <<buffer, write_index, read_index, mirror, rtodo, reg, wtodo,
                       nwritten, unread, promised, overrun>>
    BY <1>6 DEF read_copy
  <2>2. LoadedInv' /\ got' \in 0 .. MaxWrites /\ rtodo > 0
    BY <1>1, <1>2, <2>1 DEF LoadedInv, CountInv
  <2> QED BY <1>2, <2>1, <2>2, ReaderQuiet DEF Labels
<1>7. CASE read_load
  <2>1. /\ wtodo = 0 /\ pc = "load" /\ pc' = "store" /\ reg' = read_index
        /\ UNCHANGED <<buffer, write_index, read_index, mirror, rtodo, got, wtodo,
                       nwritten, unread, promised, overrun>>
    BY <1>7 DEF read_load
  <2>2. LoadedInv' /\ reg' \in Indices /\ rtodo > 0
    BY <1>1, <1>2, <1>3, <2>1 DEF LoadedInv, CountInv
  <2> QED BY <1>2, <2>1, <2>2, ReaderQuiet DEF Labels
<1>8. CASE read_zero
  <2>1. /\ wtodo = 0 /\ pc = "zero" /\ (pc' = "mirror_load" \/ pc' = "test") /\ rtodo' = rtodo - 1
        /\ UNCHANGED <<buffer, write_index, read_index, mirror, reg, got, wtodo,
                       nwritten, unread, promised, overrun>>
    BY <1>8 DEF read_zero
  <2>2. LoadedInv'
    BY <2>1 DEF LoadedInv
  <2>3. rtodo' \in 0 .. MaxChunk
    BY <1>1, <1>2, <2>1, Sizes DEF CountInv
  <2> QED BY <1>2, <2>1, <2>2, <2>3, ReaderQuiet DEF Labels
<1>9. CASE mirror_load
  <2>1. /\ wtodo = 0 /\ pc = "mirror_load" /\ pc' = "mirror_store" /\ reg' = mirror
        /\ UNCHANGED <<buffer, write_index, read_index, mirror, rtodo, got, wtodo,
                       nwritten, unread, promised, overrun>>
    BY <1>9 DEF mirror_load
  <2>2. LoadedInv' /\ reg' \in Indices
    BY <1>2, <1>3, <2>1 DEF LoadedInv
  <2> QED BY <1>2, <2>1, <2>2, ReaderQuiet DEF Labels
<1>10. CASE mirror_store
  <2>1. /\ wtodo = 0 /\ pc = "mirror_store" /\ pc' = "test" /\ mirror' = Complement(reg)
        /\ UNCHANGED <<buffer, write_index, read_index, rtodo, reg, got, wtodo,
                       nwritten, unread, promised, overrun>>
    BY <1>10 DEF mirror_store
  <2>2. reg \in {0, IndexMod - 1}
    BY <1>1, <2>1 DEF LoadedInv
  <2>3. mirror' \in {0, IndexMod - 1}
    BY <2>1, <2>2, Sizes DEF Complement
  <2>4. LoadedInv'
    BY <2>1 DEF LoadedInv
  <2> QED BY <1>2, <2>1, <2>3, <2>4, ReaderQuiet DEF Labels
<1>11. CASE available_load
  <2>1. /\ wtodo = 0 /\ pc = "idle" /\ pc' = "available" /\ reg' = write_index
        /\ UNCHANGED <<buffer, write_index, read_index, mirror, rtodo, got, wtodo,
                       nwritten, unread, promised, overrun>>
    BY <1>11 DEF available_load
  <2>2. Readable' = ring_buffer_available_read /\ ring_buffer_available_read \in Nat
    BY <1>1, <2>1, ViewIs, DistIs DEF Readable, ring_buffer_available_read
  <2>3. Available(reg', read_index') = Readable'
    BY <2>1, <2>2 DEF ring_buffer_available_read
  <2>4. LoadedInv' /\ reg' \in Indices
    BY <1>2, <1>3, <2>1, <2>2, <2>3 DEF LoadedInv
  <2> QED BY <1>2, <2>1, <2>4, ReaderQuiet DEF Labels
<1> QED BY <1>4, <1>5, <1>6, <1>7, <1>8, <1>9, <1>10, <1>11

(* What was loaded may be stale, but is not ahead of the data. *)
LEMMA AvailableReturnKeeps == ASSUME IInv, available_return PROVE IInv' /\ SameView
<1>1. /\ wtodo = 0 /\ pc = "available" /\ pc' = "idle" /\ promised' = Available(reg, read_index)
      /\ UNCHANGED <<buffer, write_index, read_index, mirror, rtodo, reg, got, wtodo,
                     nwritten, unread, overrun>>
  BY DEF available_return, At, Goto, rb
<1>2. TypeOK /\ reg \in Slots /\ promised' <= Readable
  BY <1>1 DEF IInv, LoadedInv
<1>3. promised' \in Nat
  BY <1>1, <1>2, ViewIs, AvailableIs, DistIs
<1>4. TypeOK'
  BY <1>1, <1>2, <1>3 DEF TypeOK, Labels
<1>5. /\ SameView /\ ResetInv' /\ UnreadInv' /\ NewestBytes' /\ KeepsUnread' /\ AnnouncedIsReadable'
  BY <1>1, <1>2, <1>4, QuietKeeps
<1>6. CountInv' /\ RoomInv' /\ LoadedInv'
  BY <1>1 DEF IInv, CountInv, RoomInv, LoadedInv
<1> QED BY <1>4, <1>5, <1>6 DEF IInv

(* The store that takes a byte: the handler has not moved read_index. *)
LEMMA ReadStoreKeeps == ASSUME IInv, read_store PROVE IInv' /\ GetView
<1>1. /\ wtodo = 0 /\ pc = "store" /\ pc' = "zero" /\ read_index' = Succ(reg)
      /\ unread' = unread - 1 /\ promised' = (IF promised > 0 THEN promised - 1 ELSE 0)
      /\ UNCHANGED <<buffer, write_index, mirror, rtodo, reg, got, wtodo, nwritten, overrun>>
  BY DEF read_store, At, Goto
<1>2. /\ TypeOK /\ reg = read_index /\ read_index # write_index /\ rtodo > 0
      /\ UnreadInv /\ KeepsUnread /\ AnnouncedIsReadable
  BY <1>1 DEF IInv, LoadedInv, CountInv
<1>3. /\ read_index \in Slots /\ write_index \in Slots /\ First = read_index
      /\ Readable = Dist(write_index, read_index) /\ Readable \in 0 .. Size - 1
  BY <1>1, <1>2, ViewIs
<1>4. Readable > 0 /\ Dist(write_index, Succ(read_index)) = Readable - 1
  BY <1>2, <1>3, DistIs, DistRead
<1>5. unread \in Nat /\ promised \in Nat /\ unread \in 1 .. Size - 1
  BY <1>2, <1>3, <1>4, Sizes DEF TypeOK, UnreadInv
<1>6. TypeOK'
  <2>1. read_index' \in Slots
    BY <1>1, <1>2, <1>3, SuccIs
  <2>2. unread' \in Nat /\ promised' \in Nat
    BY <1>1, <1>5
  <2> QED BY <1>1, <1>2, <2>1, <2>2 DEF TypeOK, Labels
<1>7. First' = Succ(First) /\ write_index' = write_index
  BY <1>1, <1>2, <1>3 DEF First
<1>8. /\ Readable' = Readable - 1 /\ ring_buffer_available_read' = Readable - 1
  BY <1>1, <1>2, <1>3, <1>4, <1>6, <1>7, ViewNext
<1>9. GetView
  BY <1>1, <1>4, <1>7, <1>8 DEF GetView
<1>10. NewestBytes'
  BY <1>2, <1>6, <1>9, NewestKept DEF IInv, View
<1>11. UnreadInv' /\ KeepsUnread'
  BY <1>1, <1>2, <1>3, <1>5, <1>8, Sizes DEF UnreadInv, KeepsUnread
<1>12. AnnouncedIsReadable'
  BY <1>1, <1>2, <1>3, <1>4, <1>5, <1>8 DEF AnnouncedIsReadable
<1>13. CountInv' /\ LoadedInv' /\ ResetInv'
  BY <1>1, <1>2 DEF IInv, CountInv, LoadedInv, ResetInv
<1>14. RoomInv'
  BY <1>1, <1>3, <1>8, Sizes DEF RoomInv
<1> QED BY <1>6, <1>9, <1>10, <1>11, <1>12, <1>13, <1>14 DEF IInv

(* A reset forgets everything with its first store. *)
LEMMA ResetKeeps ==
  ASSUME IInv, ResetStep
  PROVE  IInv' /\ (SameView \/ Readable' = 0)
<1>1. TypeOK /\ CountInv /\ ResetInv /\ UnreadInv /\ KeepsUnread /\ AnnouncedIsReadable /\ NewestBytes
  BY DEF IInv
<1>2. 0 \in Slots /\ 0 \in 0 .. MaxChunk
  BY Sizes
<1> USE DEF At, Goto, rb, history
<1>3. CASE ring_buffer_reset
  <2>1. /\ wtodo = 0 /\ pc = "idle" /\ pc' = "reset_read" /\ write_index' = 0
        /\ unread' = 0 /\ promised' = 0 /\ overrun' = FALSE
        /\ UNCHANGED <<buffer, read_index, mirror, rtodo, reg, got, wtodo, nwritten>>
    BY <1>3 DEF ring_buffer_reset
  <2>2. TypeOK'
    BY <1>1, <1>2, <2>1 DEF TypeOK, Labels
  <2>3. Readable' = 0
    BY <2>1 DEF Readable
  <2>4. ring_buffer_available_read' \in 0 .. Size - 1 /\ read_index \in Slots
    BY <1>1, <2>2, ViewIs, ViewNext, DistIs
  <2>5. CountInv' /\ RoomInv' /\ LoadedInv' /\ ResetInv'
    <3>1. CountInv' /\ LoadedInv'
      BY <1>1, <2>1 DEF CountInv, LoadedInv
    <3>2. RoomInv'
      <4>1. wtodo' + ring_buffer_available_read' <= Size - 1
        <5>1. PICK d \in 0 .. Size - 1 : ring_buffer_available_read' = d
          BY <2>4
        <5>2. wtodo' = 0
          BY <2>1
        <5> QED BY <5>1, <5>2, Sizes
      <4> QED BY <4>1 DEF RoomInv
    <3>3. read_index = 0 \/ 0 < read_index
      BY <2>4, Sizes
    <3>4. ResetInv'
      BY <2>1, <3>3 DEF ResetInv
    <3> QED BY <3>1, <3>2, <3>4
  <2>6. UnreadInv' /\ KeepsUnread' /\ AnnouncedIsReadable' /\ NewestBytes'
    BY <2>1, <2>3, Sizes DEF UnreadInv, KeepsUnread, AnnouncedIsReadable, NewestBytes
  <2> QED BY <2>2, <2>3, <2>5, <2>6 DEF IInv
<1>4. CASE reset_read
  <2>1. /\ wtodo = 0 /\ pc = "reset_read" /\ pc' = "reset_mirror" /\ read_index' = 0
        /\ UNCHANGED <<buffer, write_index, mirror, rtodo, reg, got, wtodo,
                       nwritten, unread, promised, overrun>>
    BY <1>4 DEF reset_read
  <2>2. TypeOK'
    BY <1>1, <1>2, <2>1 DEF TypeOK, Labels
  <2>3. First = 0 /\ First' = 0
    BY <2>1 DEF First
  <2>4. Readable' = Readable
    BY <1>1, <2>1, <2>2, <2>3, ViewIs, ViewNext
  <2>5. SameView
    BY <2>1, <2>3, <2>4 DEF SameView
  <2>6. ring_buffer_available_read' \in 0 .. Size - 1
    BY <2>2, ViewNext, DistIs
  <2>7. CountInv' /\ RoomInv' /\ LoadedInv' /\ ResetInv'
    <3>1. CountInv' /\ LoadedInv' /\ ResetInv'
      BY <1>1, <2>1 DEF CountInv, LoadedInv, ResetInv
    <3>2. RoomInv'
      <4>1. wtodo' + ring_buffer_available_read' <= Size - 1
        <5>1. PICK d \in 0 .. Size - 1 : ring_buffer_available_read' = d
          BY <2>6
        <5>2. wtodo' = 0
          BY <2>1
        <5> QED BY <5>1, <5>2, Sizes
      <4> QED BY <4>1 DEF RoomInv
    <3> QED BY <3>1, <3>2
  <2>8. UnreadInv' /\ KeepsUnread' /\ AnnouncedIsReadable'
    BY <1>1, <2>1, <2>4 DEF UnreadInv, KeepsUnread, AnnouncedIsReadable
  <2>9. NewestBytes'
    BY <1>1, <2>2, <2>5, NewestKept DEF View
  <2> QED BY <2>2, <2>5, <2>7, <2>8, <2>9 DEF IInv
<1>5. CASE reset_mirror
  <2>1. /\ wtodo = 0 /\ pc = "reset_mirror" /\ pc' = "idle" /\ mirror' = 0
        /\ UNCHANGED <<buffer, write_index, read_index, rtodo, reg, got, wtodo,
                       nwritten, unread, promised, overrun>>
    BY <1>5 DEF reset_mirror
  <2>2. LoadedInv'
    BY <2>1 DEF LoadedInv
  <2>3. rtodo \in 0 .. MaxChunk /\ reg \in Indices /\ got \in 0 .. MaxWrites
    BY <1>1 DEF TypeOK
  <2> QED BY <2>1, <2>2, <2>3, ReaderQuiet DEF Labels
<1> QED BY <1>3, <1>4, <1>5 DEF ResetStep

(* The handler stores a byte: there is room, or the main program is in no    *)
(* call and the queue is full.                                               *)
LEMMA WriteByteKeeps ==
  ASSUME IInv, write_byte
  PROVE  IInv' /\ (PutView \/ OverView)
<1>1. /\ wtodo > 0 /\ read_index' = (IF Full THEN Succ(read_index) ELSE read_index)
      /\ mirror' = Turned(IF Full THEN Turned(mirror, Succ(read_index)) ELSE mirror, Succ(write_index))
      /\ buffer' = [buffer EXCEPT ![write_index] = nwritten + 1]
      /\ write_index' = Succ(write_index) /\ wtodo' = wtodo - 1 /\ nwritten' = nwritten + 1
      /\ unread' = (IF unread < Size - 1 THEN unread + 1 ELSE unread)
      /\ overrun' = (overrun \/ unread = Size - 1)
      /\ UNCHANGED <<pc, rtodo, reg, got, promised>>
  BY DEF write_byte, reader
<1>2. /\ TypeOK /\ CountInv /\ RoomInv /\ LoadedInv /\ ResetInv /\ UnreadInv
      /\ NewestBytes /\ KeepsUnread /\ AnnouncedIsReadable
  BY DEF IInv
<1>3. /\ read_index \in Slots /\ write_index \in Slots /\ First \in Slots
      /\ Readable = Dist(write_index, First) /\ Readable \in 0 .. Size - 1
      /\ ring_buffer_available_read = Dist(write_index, read_index)
      /\ pc # "reset_read" => First = read_index
  BY <1>2, ViewIs
<1>4. PICK d \in 0 .. Size - 1 : d = Dist(write_index, read_index)
  BY <1>3, DistIs
<1>5. /\ unread \in Nat /\ promised \in Nat /\ wtodo \in 1 .. MaxChunk /\ nwritten \in Nat
      /\ nwritten + 1 \in 1 .. MaxWrites /\ mirror \in {0, IndexMod - 1}
      /\ buffer \in [Slots -> 0 .. MaxWrites] /\ overrun \in BOOLEAN
  <2>1. /\ unread \in Nat /\ promised \in Nat /\ wtodo \in 0 .. MaxChunk /\ nwritten \in 0 .. MaxWrites
        /\ mirror \in {0, IndexMod - 1}
        /\ buffer \in [Slots -> 0 .. MaxWrites] /\ overrun \in BOOLEAN
    BY <1>2 DEF TypeOK
  <2> QED BY <1>1, <1>2, <2>1, Sizes DEF CountInv
<1>6. TypeOK'
  <2>1. read_index' \in Slots /\ write_index' \in Slots
    BY <1>1, <1>3, SuccIs
  <2>2. mirror' \in {0, IndexMod - 1}
    BY <1>1, <1>5, Sizes DEF Turned, Complement
  <2>3. buffer' \in [Slots -> 0 .. MaxWrites]
    BY <1>1, <1>3, <1>5
  <2>4. wtodo' \in 0 .. MaxChunk /\ nwritten' \in 0 .. MaxWrites /\ unread' \in Nat
    BY <1>1, <1>5, Sizes
  <2>5. overrun' \in BOOLEAN
    BY <1>1
  <2> QED BY <1>1, <1>2, <2>1, <2>2, <2>3, <2>4, <2>5 DEF TypeOK
<1>7. CountInv'
  BY <1>1, <1>2, <1>5 DEF CountInv
<1>8. CASE d < Size - 1
  <2>1. ~Full /\ read_index' = read_index
    BY <1>1, <1>3, <1>4, <1>8, DistWrite DEF Full
  <2>2. First' = First
    BY <1>1, <2>1 DEF First
  <2>3. ring_buffer_available_read' = d + 1 /\ Dist(write_index', read_index') = d + 1
    BY <1>1, <1>3, <1>4, <1>6, <1>8, <2>1, DistWrite, ViewNext
  <2>4. Readable < Size - 1 /\ (pc = "reset_read" => read_index = 0 \/ write_index + 1 < read_index)
    <3>1. CASE pc # "reset_read"
      BY <1>3, <1>4, <1>8, <3>1
    <3>2. CASE pc = "reset_read"
      <4>1. wtodo + d <= Size - 1 /\ (read_index = 0 \/ write_index < read_index) /\ Readable = write_index
        BY <1>2, <1>3, <1>4, <3>2 DEF RoomInv, ResetInv, Readable
      <4> QED BY <1>3, <1>4, <1>5, <4>1, Sizes DEF Dist
    <3> QED BY <3>1, <3>2
  <2>5. Readable' = Readable + 1
    BY <1>1, <1>3, <1>6, <2>2, <2>4, DistWrite, ViewNext
  <2>6. PutView
    BY <1>1, <1>5, <2>2, <2>4, <2>5 DEF PutView
  <2>7. RoomInv'
    BY <1>1, <1>2, <1>3, <1>4, <1>5, <2>3, Sizes DEF RoomInv
  <2>8. LoadedInv'
    <3>1. read_index' # write_index'
      BY <1>4, <1>6, <2>3, DistIs, ViewNext
    <3>2. pc = "available" => reg \in Slots /\ Available(reg, read_index) <= Readable + 1
      <4> SUFFICES ASSUME pc = "available"
                   PROVE  reg \in Slots /\ Available(reg, read_index) <= Readable + 1
        OBVIOUS
      <4>1. reg \in Slots /\ Available(reg, read_index) <= Readable
        BY <1>2 DEF LoadedInv
      <4>2. Available(reg, read_index) \in 0 .. Size - 1
        BY <1>3, <4>1, AvailableIs, DistIs
      <4> QED BY <1>3, <4>1, <4>2
    <3> QED BY <1>1, <1>2, <2>1, <2>5, <3>1, <3>2 DEF LoadedInv
  <2>9. ResetInv'
    <3>1. pc = "reset_read" => write_index' = write_index + 1
      <4>1. pc = "reset_read" => write_index + 1 < Size
        BY <1>3, <2>4, Sizes DEF Readable
      <4> QED BY <1>1, <1>3, <4>1, SuccIs
    <3> QED BY <1>1, <2>1, <2>4, <3>1 DEF ResetInv
  <2>10. UnreadInv' /\ KeepsUnread'
    <3>1. Readable <= unread /\ unread <= Size - 1 /\ (~overrun => Readable = unread)
      BY <1>2 DEF UnreadInv, KeepsUnread
    <3>2. Readable' <= unread' /\ unread' <= Size - 1
      <4>1. CASE unread < Size - 1
        <5>1. unread' = unread + 1
          BY <1>1, <4>1
        <5> QED BY <1>3, <1>5, <2>5, <3>1, <4>1, <5>1, Sizes
      <4>2. CASE ~(unread < Size - 1)
        <5>1. unread' = unread /\ unread = Size - 1
          BY <1>1, <1>5, <3>1, <4>2, Sizes
        <5> QED BY <1>3, <1>5, <2>4, <2>5, <5>1, Sizes
      <4> QED BY <4>1, <4>2
    <3>3. ~overrun' => ~overrun /\ unread # Size - 1
      BY <1>1
    <3>4. ~overrun' => Readable' = unread'
      BY <1>1, <1>3, <1>5, <2>5, <3>1, <3>3, Sizes
    <3> QED BY <3>2, <3>4 DEF UnreadInv, KeepsUnread
  <2>11. AnnouncedIsReadable'
    BY <1>1, <1>2, <1>3, <1>5, <2>5 DEF AnnouncedIsReadable
  <2>12. NewestBytes'
    BY <1>2, <1>6, <2>6, NewestKept DEF View
  <2> QED BY <1>6, <1>7, <2>6, <2>7, <2>8, <2>9, <2>10, <2>11, <2>12 DEF IInv
<1>9. CASE d = Size - 1
  <2>1. pc = "idle"
    BY <1>2, <1>3, <1>4, <1>5, <1>9, Sizes DEF RoomInv
  <2>2. First = read_index /\ Readable = Size - 1 /\ First' = read_index' /\ unread = Size - 1
    <3>1. First = read_index /\ Readable = Size - 1
      BY <1>3, <1>4, <1>9, <2>1
    <3>2. First' = read_index'
      BY <1>1, <1>6, <2>1, ViewNext
    <3>3. unread = Size - 1
      BY <1>2, <1>5, <3>1, Sizes DEF UnreadInv
    <3> QED BY <3>1, <3>2, <3>3
  <2>3. overrun' = TRUE
    BY <1>1, <2>2
  <2>4. \/ First' = Succ(First) /\ Readable' = Readable
        \/ Readable' = 0
    <3>1. CASE Full
      BY <1>1, <1>3, <1>6, <2>2, <3>1, DistBoth, ViewNext
    <3>2. CASE ~Full
      <4>1. Dist(Succ(write_index), read_index) = 0
        <5>1. Dist(write_index, read_index) = Size - 1
          BY <1>4, <1>9
        <5> QED BY <1>3, <5>1, DistWrite
      <4> QED BY <1>1, <1>6, <2>2, <3>2, <4>1, ViewNext
    <3> QED BY <3>1, <3>2
  <2>5. OverView
    BY <1>1, <1>5, <2>2, <2>4 DEF OverView
  <2>6. RoomInv' /\ LoadedInv' /\ ResetInv'
    BY <1>1, <2>1 DEF RoomInv, LoadedInv, ResetInv
  <2>7. UnreadInv' /\ KeepsUnread' /\ AnnouncedIsReadable'
    BY <1>1, <1>3, <2>2, <2>3, <2>4, Sizes DEF UnreadInv, KeepsUnread, AnnouncedIsReadable
  <2>8. NewestBytes'
    BY <1>2, <1>6, <2>5, NewestKept DEF View
  <2> QED BY <1>6, <1>7, <2>5, <2>6, <2>7, <2>8 DEF IInv
<1> QED BY <1>4, <1>8, <1>9, Sizes

(* Every step keeps the invariant, and is one of the five views. *)
LEMMA InvStep == ASSUME IInv, [Next]_vars PROVE IInv' /\ View
<1>1. CASE UNCHANGED vars
  <2>1. /\ UNCHANGED <<buffer, write_index, read_index, mirror, wtodo, pc, rtodo, reg, got>>
        /\ UNCHANGED <<nwritten, unread, promised, overrun>>
    BY <1>1 DEF vars, rb, reader, history
  <2>2. TypeOK'
    BY <2>1 DEF IInv, TypeOK
  <2>3. /\ SameView /\ ring_buffer_available_read' = ring_buffer_available_read
        /\ ResetInv' /\ UnreadInv' /\ NewestBytes' /\ KeepsUnread' /\ AnnouncedIsReadable'
    BY <2>1, <2>2, QuietKeeps
  <2>4. CountInv' /\ RoomInv' /\ LoadedInv'
    BY <2>1, <2>3 DEF IInv, CountInv, RoomInv, LoadedInv, SameView
  <2> QED BY <2>2, <2>3, <2>4 DEF IInv, View
<1>2. CASE Next
  BY <1>2, WriteKeeps, ReaderSteps, WriteByteKeeps, ReadStoreKeeps, AvailableReturnKeeps, ResetKeeps
     DEF Next, ReadStep, View
<1> QED BY <1>1, <1>2

-----------------------------------------------------------------------------
(* The abstract queue: its contents are the m newest of n bytes. *)
Run(n, m) == [k \in 1 .. m |-> n - m + k]

(* A run is a sequence of m numbers. *)
LEMMA RunIs ==
  ASSUME NEW n \in Nat, NEW m \in Nat
  PROVE  /\ Run(n, m) \in Seq(Int) /\ Len(Run(n, m)) = m
         /\ \A k \in 1 .. m : Run(n, m)[k] = n - m + k
BY DEF Run

(* A byte more is one put at the end. *)
LEMMA RunPut ==
  ASSUME NEW n \in Nat, NEW m \in Nat
  PROVE  Run(n + 1, m + 1) = Append(Run(n, m), n + 1)
BY RunIs DEF Run

(* A byte less is one taken at the front. *)
LEMMA RunGet ==
  ASSUME NEW n \in Nat, NEW m \in Nat \ {0}
  PROVE  Run(n, m) # <<>> /\ Run(n, m - 1) = Tail(Run(n, m))
<1>1. Run(n, m) \in Seq(Int) /\ Len(Run(n, m)) = m /\ \A k \in 1 .. m : Run(n, m)[k] = n - m + k
  BY RunIs
<1>2. Run(n, m) # <<>>
  BY <1>1
<1>3. /\ Tail(Run(n, m)) \in Seq(Int) /\ Len(Tail(Run(n, m))) = m - 1
      /\ \A k \in 1 .. m - 1 : Tail(Run(n, m))[k] = Run(n, m)[k + 1]
  BY <1>1, <1>2
<1>4. Run(n, m - 1) \in Seq(Int) /\ Len(Run(n, m - 1)) = m - 1
      /\ \A k \in 1 .. m - 1 : Run(n, m - 1)[k] = n - (m - 1) + k
  <2>1. m - 1 \in Nat
    OBVIOUS
  <2> QED BY <2>1, RunIs
<1>5. \A k \in 1 .. m - 1 : Tail(Run(n, m))[k] = Run(n, m - 1)[k]
  BY <1>1, <1>3, <1>4
<1>6. Run(n, m - 1) = Tail(Run(n, m))
  BY <1>3, <1>4, <1>5, SeqEqual
<1> QED BY <1>2, <1>6

(* A byte into a full queue costs the oldest byte, or all of them and itself. *)
LEMMA RunOver ==
  ASSUME NEW n \in Nat, NEW m \in Nat
  PROVE  /\ Run(n + 1, m) = SubSeq(Append(Run(n, m), n + 1), 1 + 1, m + 1)
         /\ Run(n + 1, 0) = SubSeq(Append(Run(n, m), n + 1), (m + 1) + 1, m + 1)
BY RunIs, RunPut DEF Run

(* What the reader can get from the ring buffer is such a run. *)
LEMMA ContentsIs == IInv => Contents = Run(nwritten, Readable)
<1> SUFFICES ASSUME IInv PROVE Contents = Run(nwritten, Readable)
  OBVIOUS
<1>1. Readable \in Nat /\ nwritten \in Nat
  <2>1. nwritten \in 0 .. MaxWrites
    BY DEF IInv, TypeOK
  <2> QED BY <2>1, ViewIs DEF IInv
<1>2. \A k \in 1 .. Readable : Byte(k - 1) = nwritten - Readable + k
  <2> SUFFICES ASSUME NEW k \in 1 .. Readable PROVE Byte(k - 1) = nwritten - Readable + k
    OBVIOUS
  <2>1. k - 1 \in 0 .. Readable - 1
    BY <1>1
  <2>2. Byte(k - 1) = nwritten - Readable + 1 + (k - 1)
    BY <2>1 DEF IInv, NewestBytes
  <2> QED BY <1>1, <2>2
<1> QED BY <1>2 DEF Contents, Run

-----------------------------------------------------------------------------
(* The inductive invariant holds in every state. *)
THEOREM Invariant == Spec => []IInv
<1>1. Init => IInv
  BY InitInv
<1>2. IInv /\ [Next]_vars => IInv'
  BY InvStep
<1> QED BY <1>1, <1>2, PTL DEF Spec

(* The indices of the ring buffer are in range and it shows the newest bytes *)
(* in order, overrun or not: QueueInv.                                       *)
THEOREM NewestReadable == Spec => []QueueInv
<1>1. IInv => QueueInv
  BY DEF IInv, QueueInv
<1> QED BY <1>1, Invariant, PTL

(* ring_buffer_write and ring_buffer_read, interleaved at every access, lose *)
(* nothing that fits: KeepsUnread.                                           *)
THEOREM NothingLost == Spec => []KeepsUnread
<1>1. IInv => KeepsUnread
  BY DEF IInv
<1> QED BY <1>1, Invariant, PTL

(* What ring_buffer_available_read announces can be read, though its first   *)
(* load may be stale: AnnouncedIsReadable.                                   *)
THEOREM AnnouncesTruly == Spec => []AnnouncedIsReadable
<1>1. IInv => AnnouncedIsReadable
  BY DEF IInv
<1> QED BY <1>1, Invariant, PTL

(* The ring buffer implements the bounded FIFO: ImplementsFifo.  It starts   *)
(* empty, and every step is a put, a get, a clear or an overrun of the       *)
(* contents, or leaves them.                                                 *)
THEOREM IsFifo == Spec => ImplementsFifo
<1>1. Init => Fifo!Init
  <2> SUFFICES ASSUME Init PROVE Contents = <<>>
    BY DEF Fifo!Init
  <2>1. IInv
    BY InitInv
  <2>2. Readable = 0
    BY <2>1, ViewIs, DistIs DEF IInv, Init, First
  <2> QED BY <2>2 DEF Contents
<1>2. IInv /\ [Next]_vars => [Fifo!Next]_Contents
  <2> SUFFICES ASSUME IInv, [Next]_vars PROVE [Fifo!Next]_Contents
    OBVIOUS
  <2>1. IInv' /\ View
    BY InvStep
  <2>2. (IInv => Contents = Run(nwritten, Readable))'
    BY ContentsIs, PTL
  <2>3. PICK n, m, n1, m1 : n = nwritten /\ m = Readable /\ n1 = nwritten' /\ m1 = Readable'
    OBVIOUS
  <2>4. Contents = Run(n, m) /\ Contents' = Run(n1, m1)
    BY <2>1, <2>2, <2>3, ContentsIs
  <2>5. n \in Nat /\ m \in 0 .. Size - 1 /\ m \in Nat /\ m1 \in 0 .. Size - 1
    <3>1. nwritten \in 0 .. MaxWrites
      BY DEF IInv, TypeOK
    <3> QED BY <2>1, <2>3, <3>1, ViewIs, ViewNext DEF IInv
  <2>6. CASE SameView
    BY <2>3, <2>4, <2>6 DEF SameView
  <2>7. CASE PutView
    <3>1. n + 1 \in 1 .. MaxWrites /\ m < Size - 1 /\ n1 = n + 1 /\ m1 = m + 1
      BY <2>3, <2>7 DEF PutView
    <3>2. Contents' = Append(Contents, n + 1) /\ Len(Contents) < Size - 1
      <4>1. Run(n + 1, m + 1) = Append(Run(n, m), n + 1) /\ Len(Run(n, m)) = m
        BY <2>5, RunPut, RunIs
      <4>2. Contents = Run(n, m) /\ Contents' = Run(n + 1, m + 1)
        BY <2>4, <3>1
      <4> QED BY <3>1, <4>1, <4>2
    <3> QED BY <3>1, <3>2 DEF Fifo!Next, Fifo!Put
  <2>8. CASE GetView
    <3>1. m > 0 /\ n1 = n /\ m1 = m - 1
      BY <2>3, <2>8 DEF GetView
    <3>2. Contents # <<>> /\ Contents' = Tail(Contents)
      <4>1. m \in Nat \ {0}
        BY <2>5, <3>1
      <4>2. Run(n, m) # <<>> /\ Run(n, m - 1) = Tail(Run(n, m))
        BY <2>5, <4>1, RunGet
      <4> QED BY <2>4, <3>1, <4>2
    <3> QED BY <3>2 DEF Fifo!Next, Fifo!Get
  <2>9. CASE OverView
    <3>1. n + 1 \in 1 .. MaxWrites /\ m = Size - 1 /\ n1 = n + 1 /\ (m1 = m \/ m1 = 0)
      BY <2>3, <2>9 DEF OverView
    <3>2. PICK cap \in Nat : cap = Size - 1
      BY Sizes
    <3>3. Len(Contents) = cap
      BY <2>4, <2>5, <3>1, <3>2, RunIs
    <3>4. \E lost \in 1 .. cap + 1 :
            Contents' = SubSeq(Append(Contents, n + 1), lost + 1, cap + 1)
      <4>1. CASE m1 = m
        <5>1. Contents' = SubSeq(Append(Contents, n + 1), 1 + 1, cap + 1) /\ 1 \in 1 .. cap + 1
          <6>1. Run(n + 1, m) = SubSeq(Append(Run(n, m), n + 1), 1 + 1, m + 1)
            BY <2>5, RunOver
          <6>2. Contents' = Run(n + 1, m) /\ m = cap
            BY <2>4, <3>1, <3>2, <4>1
          <6>3. 1 \in 1 .. cap + 1
            BY <3>2
          <6> QED BY <2>4, <6>1, <6>2, <6>3
        <5> QED BY <5>1
      <4>2. CASE m1 = 0
        <5>1. Contents' = SubSeq(Append(Contents, n + 1), (cap + 1) + 1, cap + 1) /\ cap + 1 \in 1 .. cap + 1
          <6>1. Run(n + 1, 0) = SubSeq(Append(Run(n, m), n + 1), (m + 1) + 1, m + 1)
            BY <2>5, RunOver
          <6>2. Contents' = Run(n + 1, 0) /\ m = cap
            BY <2>4, <3>1, <3>2, <4>2
          <6>3. cap + 1 \in 1 .. cap + 1
            BY <3>2
          <6> QED BY <2>4, <6>1, <6>2, <6>3
        <5> QED BY <5>1
      <4> QED BY <3>1, <4>1, <4>2
    <3>5. Fifo!Overrun(n + 1)
      BY <3>2, <3>3, <3>4 DEF Fifo!Overrun
    <3> QED BY <3>1, <3>5 DEF Fifo!Next
  <2>10. CASE Readable' = 0
    <3>1. Contents' = <<>>
      BY <2>3, <2>4, <2>10 DEF Run
    <3> QED BY <3>1 DEF Fifo!Next, Fifo!Clear
  <2> QED BY <2>1, <2>6, <2>7, <2>8, <2>9, <2>10 DEF View
<1> QED BY <1>1, <1>2, Invariant, PTL DEF Spec, ImplementsFifo, Fifo!Spec
=============================================================================
