--------------------------- MODULE CircularBuffer ---------------------------
(***************************************************************************)
(* The ring behind the reorder buffer (src/src/utils/circular_buffer.rs),  *)
(* as operators on a record: head and tail indices, a size, and a table of *)
(* Option slots.  n is the capacity, data.len() in the code.  The index of *)
(* the slot an element is pushed into is the element's tag.                *)
(***************************************************************************)
EXTENDS Integers, Latch

Slots(n) == 0 .. n - 1

BufferOf(n, S) ==
  [head : Slots(n), tail : Slots(n), size : 0 .. n, data : [Slots(n) -> Option(S)]]

EmptyBuffer(n) == [head |-> 0, tail |-> 0, size |-> 0, data |-> [i \in Slots(n) |-> {}]]

IsFull(n, b) == b.size = n
IsEmpty(b)   == b.size = 0

\* Mutant: tail runs ahead of the end of the table before it wraps.
PushWrappingLate(n, b, x) ==
  [head |-> b.head,
   tail |-> IF b.tail + 1 > n THEN 0 ELSE b.tail + 1,
   size |-> b.size + 1,
   data |-> [b.data EXCEPT ![b.tail] = {x}]]

\* push(), for a buffer that is not full; the new element's tag is b.tail.
Push(n, b, x) ==
  [head |-> b.head,
   tail |-> (b.tail + 1) % n,
   size |-> b.size + 1,
   data |-> [b.data EXCEPT ![b.tail] = {x}]]

\* Mutant: the popped slot keeps its element.
PopKeepingSlot(n, b) ==
  [head |-> (b.head + 1) % n, tail |-> b.tail, size |-> b.size - 1, data |-> b.data]

\* Mutant: the newest element is popped.
PopNewest(n, b) ==
  [head |-> b.head, tail |-> (b.tail + n - 1) % n, size |-> b.size - 1,
   data |-> [b.data EXCEPT ![(b.tail + n - 1) % n] = {}]]

\* pop(), for a buffer that is not empty; take() leaves None in the slot.
Pop(n, b) ==
  [head |-> (b.head + 1) % n,
   tail |-> b.tail,
   size |-> b.size - 1,
   data |-> [b.data EXCEPT ![b.head] = {}]]

\* access_by_tag(), for an occupied slot, whose element becomes x.
Access(b, i, x) ==
  [head |-> b.head, tail |-> b.tail, size |-> b.size, data |-> [b.data EXCEPT ![i] = {x}]]

\* head(): the option in the head slot, which the caller unwraps.
HeadSlot(b) == b.data[b.head]

\* The slots from head (included) to tail (excluded), going round.
InWindow(n, b, i) ==
  IF b.head + b.size <= n
    THEN b.head <= i /\ i < b.head + b.size
    ELSE b.head <= i \/ i < b.head + b.size - n

\* What keeps a tag meaningful: exactly the slots of the window are occupied,
\* and tail is the first slot after it.
WindowInv(n, b) ==
  /\ b.tail = IF b.head + b.size < n THEN b.head + b.size ELSE b.head + b.size - n
  /\ \A i \in Slots(n) : (b.data[i] # {}) <=> InWindow(n, b, i)

\* How far a tag is from the head: 0 is the oldest element.
AgeRank(n, b, i) == IF i >= b.head THEN i - b.head ELSE i + n - b.head
=============================================================================
