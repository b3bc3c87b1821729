---------------------------- MODULE BoundedFifo ----------------------------
(* What the ring buffer promises its client: bytes leave in the order in    *)
(* which they came, none is lost while there is room, and a byte put into a *)
(* full queue costs the oldest bytes (how many is left open) and only them. *)
EXTENDS Naturals, Sequences

CONSTANTS Capacity, Values

VARIABLE q

Init == q = <<>>

Put(v) == Len(q) < Capacity /\ q' = Append(q, v)

Get == q # <<>> /\ q' = Tail(q)

Clear == q' = <<>>

Overrun(v) ==
  /\ Len(q) = Capacity
  /\ \E lost \in 1 .. Capacity + 1 :
       q' = SubSeq(Append(q, v), lost + 1, Capacity + 1)

Next == (\E v \in Values : Put(v) \/ Overrun(v)) \/ Get \/ Clear

Spec == Init /\ [][Next]_q
=============================================================================
