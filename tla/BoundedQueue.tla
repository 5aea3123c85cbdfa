---------------------------- MODULE BoundedQueue ----------------------------
(***************************************************************************)
(* A bounded first-in first-out queue whose elements can be replaced in    *)
(* place: what the circular buffer stands for to the reorder buffer.       *)
(***************************************************************************)
EXTENDS Integers, Sequences

CONSTANTS Capacity, Item

VARIABLE q

Init == q = <<>>

Enqueue(x) == Len(q) < Capacity /\ q' = Append(q, x)

Dequeue == q # <<>> /\ q' = Tail(q)

Replace(k, x) == q' = [q EXCEPT ![k] = x]

Next ==
  \/ \E x \in Item : Enqueue(x)
  \/ Dequeue
  \/ \E k \in DOMAIN q, x \in Item : Replace(k, x)

Spec == Init /\ [][Next]_q
=============================================================================
