----------------------------- MODULE RingBuffer -----------------------------
(***************************************************************************)
(* The byte queue of module/ringbuffer/ringbuffer.c.                       *)
(*                                                                         *)
(* Every field of ring_buffer_t is volatile, so each load and store of the *)
(* reader happens where the code has it.  The reader is the main program.  *)
(* The writer is an interrupt handler, which may run between any two       *)
(* accesses of the reader and runs to completion.  In the middle of a call *)
(* of the reader it writes no more than fits; between calls, where the     *)
(* main program may be the writer as well, any number of bytes.            *)
(*                                                                         *)
(* A byte is represented by its serial number, the position at which it    *)
(* was written: that is all an order or a loss can be seen by.             *)
(***************************************************************************)
EXTENDS Integers

CONSTANTS
  Size,       \* rb->size
  IndexMod,   \* 2^16: indices, size and mirror are uint16_t
  MaxChunk,   \* bound on the bytes of one call
  MaxWrites   \* bound on the bytes written in all

ASSUME SizeAssumption == Size \in Nat \ {0} /\ IndexMod \in Nat /\ Size < IndexMod

ASSUME BoundsAssumption == MaxChunk \in Nat /\ MaxWrites \in Nat

VARIABLES
  buffer, write_index, read_index, mirror,   \* the fields of ring_buffer_t
  wtodo,      \* bytes the current ring_buffer_write has left; 0 when not in it
  pc,         \* where the main program is in a call of the reader
  rtodo,      \* bytes the current ring_buffer_read has left
  reg,        \* the value last loaded by a read-modify-write of the reader
  got,        \* the byte last copied to the caller
  nwritten,   \* history: how many bytes have been written
  unread,     \* history: bytes a queue that keeps the newest Size - 1 holds
  promised,   \* history: bytes ring_buffer_available_read announced, still unread
  overrun     \* history: a byte has been written to a full queue since the last reset

rb == <<buffer, write_index, read_index, mirror>>
reader == <<pc, rtodo, reg, got>>
history == <<nwritten, unread, promised, overrun>>
vars == <<rb, reader, wtodo, history>>

Slots == 0 .. Size - 1
Indices == 0 .. IndexMod - 1

(* (i + 1) % rb->size, computed as an int *)

Succ(i) == (i + 1) % Size

(* ~m on a uint16_t, and the test of its bit 0x8000 *)
Complement(m) == IndexMod - 1 - m
TopBit(m) == m >= IndexMod \div 2

(* ring_buffer_available_read, from its two loads *)
AvailableUnwrapped(w, r) == (w - r) % IndexMod   \* mutant: temp += size forgotten

Available(w, r) == ((IF r > w THEN (w + Size) % IndexMod ELSE w) - r) % IndexMod

ring_buffer_available_read == Available(write_index, read_index)

(* ring_buffer_init *)
Init ==
  /\ buffer = [i \in Slots |-> 0]
  /\ write_index = 0 /\ read_index = 0 /\ mirror = 0
  /\ wtodo = 0
  /\ pc = "idle" /\ rtodo = 0 /\ reg = 0 /\ got = 0
  /\ nwritten = 0 /\ unread = 0 /\ promised = 0 /\ overrun = FALSE

-----------------------------------------------------------------------------
(* ring_buffer_write: an iteration of its loop per action. *)

Fits(n) == n <= Size - 1 - ring_buffer_available_read

ring_buffer_write(n) ==
  /\ wtodo = 0
  /\ nwritten + n <= MaxWrites
  /\ Fits(n) \/ pc = "idle"
  /\ wtodo' = n
  /\ UNCHANGED <<rb, reader, history>>

(* The test for a full buffer. *)
Full ==
  /\ Succ(write_index) = read_index
  /\ TopBit(mirror) <=> TopBit(write_index)

(* The mirror after an index that has been advanced to i: inverted at 0. *)
Turned(m, i) == IF i = 0 THEN Complement(m) ELSE m

(* mutant: the byte is stored at the advanced index *)
StoreAtNext ==
  /\ wtodo > 0
  /\ buffer' = [buffer EXCEPT ![Succ(write_index)] = nwritten + 1]
  /\ write_index' = Succ(write_index)
  /\ wtodo' = wtodo - 1
  /\ nwritten' = nwritten + 1
  /\ unread' = IF unread < Size - 1 THEN unread + 1 ELSE unread
  /\ overrun' = (overrun \/ unread = Size - 1)
  /\ UNCHANGED <<read_index, mirror, reader, promised>>

write_byte ==
  /\ wtodo > 0
  /\ LET r == IF Full THEN Succ(read_index) ELSE read_index
         m == IF Full THEN Turned(mirror, r) ELSE mirror
     IN /\ read_index' = r
        /\ mirror' = Turned(m, Succ(write_index))
  /\ buffer' = [buffer EXCEPT ![write_index] = nwritten + 1]
  /\ write_index' = Succ(write_index)
  /\ wtodo' = wtodo - 1
  /\ nwritten' = nwritten + 1
  /\ unread' = IF unread < Size - 1 THEN unread + 1 ELSE unread
  /\ overrun' = (overrun \/ unread = Size - 1)
  /\ UNCHANGED <<reader, promised>>

-----------------------------------------------------------------------------
(* The main program, suspended while the writer runs. *)

At(label) == wtodo = 0 /\ pc = label

Goto(label) == pc' = label

ring_buffer_read(n) ==
  /\ At("idle") /\ Goto("test")
  /\ rtodo' = n
  /\ UNCHANGED <<rb, reg, got, wtodo, history>>

(* i < size && rb->read_index != rb->write_index *)
read_test ==
  /\ At("test")
  /\ IF rtodo > 0 /\ read_index # write_index
     THEN Goto("copy") /\ UNCHANGED rtodo
     ELSE Goto("idle") /\ rtodo' = 0
  /\ UNCHANGED <<rb, reg, got, wtodo, history>>

read_copy ==
  /\ At("copy") /\ Goto("load")
  /\ got' = buffer[read_index]
  /\ UNCHANGED <<rb, rtodo, reg, wtodo, history>>

(* rb->read_index = (rb->read_index + 1) % rb->size: load, then store *)
read_load ==
  /\ At("load") /\ Goto("store")
  /\ reg' = read_index
  /\ UNCHANGED <<rb, rtodo, got, wtodo, history>>

read_store ==
  /\ At("store") /\ Goto("zero")
  /\ read_index' = Succ(reg)
  /\ unread' = unread - 1
  /\ promised' = IF promised > 0 THEN promised - 1 ELSE 0
  /\ UNCHANGED <<buffer, write_index, mirror, rtodo, reg, got, wtodo, nwritten, overrun>>

(* if (rb->read_index == 0), then the next iteration *)
read_zero ==
  /\ At("zero")
  /\ IF read_index = 0 THEN Goto("mirror_load") ELSE Goto("test")
  /\ rtodo' = rtodo - 1
  /\ UNCHANGED <<rb, reg, got, wtodo, history>>

(* rb->mirror = ~rb->mirror: load, then store *)
mirror_load ==
  /\ At("mirror_load") /\ Goto("mirror_store")
  /\ reg' = mirror
  /\ UNCHANGED <<rb, rtodo, got, wtodo, history>>

mirror_store ==
  /\ At("mirror_store") /\ Goto("test")
  /\ mirror' = Complement(reg)
  /\ UNCHANGED <<buffer, write_index, read_index, rtodo, reg, got, wtodo, history>>

(* ring_buffer_available_read by the main program: write_index is loaded     *)
(* into temp, the writer may run, then read_index is loaded.                 *)
available_load ==
  /\ At("idle") /\ Goto("available")
  /\ reg' = write_index
  /\ UNCHANGED <<rb, rtodo, got, wtodo, history>>

available_return ==
  /\ At("available") /\ Goto("idle")
  /\ promised' = Available(reg, read_index)
  /\ UNCHANGED <<rb, rtodo, reg, got, wtodo, nwritten, unread, overrun>>

(* ring_buffer_reset: three stores. *)
ring_buffer_reset ==
  /\ At("idle") /\ Goto("reset_read")
  /\ write_index' = 0
  /\ unread' = 0 /\ promised' = 0 /\ overrun' = FALSE
  /\ UNCHANGED <<buffer, read_index, mirror, rtodo, reg, got, wtodo, nwritten>>

reset_read ==
  /\ At("reset_read") /\ Goto("reset_mirror")
  /\ read_index' = 0
  /\ UNCHANGED <<buffer, write_index, mirror, rtodo, reg, got, wtodo, history>>

reset_mirror ==
  /\ At("reset_mirror") /\ Goto("idle")
  /\ mirror' = 0
  /\ UNCHANGED <<buffer, write_index, read_index, rtodo, reg, got, wtodo, history>>

-----------------------------------------------------------------------------
ReadStep ==
  \/ read_test \/ read_copy \/ read_load \/ read_store \/ read_zero
  \/ mirror_load \/ mirror_store

ResetStep == ring_buffer_reset \/ reset_read \/ reset_mirror

Next ==
  \/ \E n \in 1 .. MaxChunk : ring_buffer_write(n) \/ ring_buffer_read(n)
  \/ write_byte
  \/ ReadStep
  \/ available_load \/ available_return
  \/ ResetStep

Spec == Init /\ [][Next]_vars

-----------------------------------------------------------------------------
Labels == {"idle", "test", "copy", "load", "store", "zero", "mirror_load",
           "mirror_store", "available", "reset_read", "reset_mirror"}

(* Both indices stay inside the buffer, and mirror is all zeros or all ones. *)
TypeOK ==
  /\ buffer \in [Slots -> 0 .. MaxWrites]
  /\ write_index \in Slots /\ read_index \in Slots
  /\ mirror \in {0, IndexMod - 1}
  /\ wtodo \in 0 .. MaxChunk /\ rtodo \in 0 .. MaxChunk
  /\ pc \in Labels
  /\ reg \in Indices
  /\ got \in 0 .. MaxWrites /\ nwritten \in 0 .. MaxWrites
  /\ unread \in Nat /\ promised \in Nat /\ overrun \in BOOLEAN

(* How many bytes the reader can still get, and the k-th of them.  Between   *)
(* the first two stores of a reset the old read_index does not count.        *)
Readable == IF pc = "reset_read" THEN write_index ELSE ring_buffer_available_read
First == IF pc = "reset_read" THEN 0 ELSE read_index
Byte(k) == buffer[(First + k) % Size]

(* The bytes that can be read are always the newest ones, in the order in    *)
(* which they were written: no stale slot is ever readable, whichever way    *)
(* the indices wrap, and however a reset or an overrun moved them.           *)
NewestBytes ==
  \A k \in 0 .. Readable - 1 : Byte(k) = nwritten - Readable + 1 + k

(* What holds of the queue in every state, overrun or not: indices, mirror   *)
(* and program counters are in range, and the newest bytes are readable.     *)
QueueInv == TypeOK /\ NewestBytes

(* As long as everything written fitted, nothing is lost and nothing is read *)
(* twice, although the handler and the reader both invert mirror without     *)
(* protection, and a reset is three separate stores.                         *)
KeepsUnread == ~overrun => Readable = unread

(* The bytes that ring_buffer_available_read announced can be read: the      *)
(* write_index it loaded first may be stale, but never ahead of the data.    *)
AnnouncedIsReadable == ~overrun => promised <= Readable

(* The reader's view of the queue, as the abstract FIFO's contents. *)
Contents == [k \in 1 .. Readable |-> Byte(k - 1)]

Fifo == INSTANCE BoundedFifo WITH Capacity <- Size - 1, Values <- 1 .. MaxWrites,
                                  q <- Contents

(* A client sees a bounded FIFO: every access of reader and handler is a     *)
(* put, a get, a clear or an overrun of the abstract queue, or invisible.    *)
ImplementsFifo == Fifo!Spec

(* "if the buffer is full, the new data overwrites the oldest"               *)
(* (ringbuffer.c:46): the queue holds the newest Size - 1 unread bytes.      *)
OverwritesOldest == Readable = unread
=============================================================================
