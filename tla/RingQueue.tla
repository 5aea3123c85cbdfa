------------------------------ MODULE RingQueue ------------------------------
(***************************************************************************)
(* The circular buffer under every sequence of calls its owner may make:   *)
(* push() when it is not full, pop() when it is not empty, and             *)
(* access_by_tag() on an occupied slot (the other calls panic).            *)
(***************************************************************************)
EXTENDS CircularBuffer, Sequences

CONSTANTS Capacity, Item

VARIABLE buf

Tag == Slots(Capacity)

Init == buf = EmptyBuffer(Capacity)

DoPush(x) == ~IsFull(Capacity, buf) /\ buf' = Push(Capacity, buf, x)

DoPop == ~IsEmpty(buf) /\ buf' = Pop(Capacity, buf)

\* An element reached through its tag is overwritten.
DoAccess(t, x) == buf.data[t] # {} /\ buf' = Access(buf, t, x)

Next ==
  \/ \E x \in Item : DoPush(x)
  \/ DoPop
  \/ \E t \in Tag, x \in Item : DoAccess(t, x)

Spec == Init /\ [][Next]_buf

ASSUME RingAssumption == Capacity \in Nat \ {0}

-----------------------------------------------------------------------------

TypeOK == buf \in BufferOf(Capacity, Item)

\* Exactly the slots between head and tail are occupied: no push overwrites an
\* element and no pop unwraps an empty slot, round the end of the table included.
Window == WindowInv(Capacity, buf)

\* iter(): the elements from head on.
Contents == [k \in 1 .. buf.size |-> The(buf.data[(buf.head + k - 1) % Capacity])]

Queue == INSTANCE BoundedQueue WITH q <- Contents

\* The ring is a bounded FIFO queue.
IsQueue == Queue!Spec
=============================================================================
