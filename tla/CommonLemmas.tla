---------------------------- MODULE CommonLemmas ----------------------------
(***************************************************************************)
(* What several proof modules need: options, induction and definitions by  *)
(* recursion over numbers, and what the operations of the circular buffer  *)
(* guarantee for every capacity and every type of elements.                *)
(***************************************************************************)
EXTENDS CircularBuffer, WellFoundedInduction, TLAPS

\* An unwrapped option.
LEMMA TheProperties ==
  ASSUME NEW S, NEW o \in Option(S), o # {}
  PROVE  The(o) \in S /\ o = {The(o)}
BY DEF Option, The

LEMMA OptionOfOne == ASSUME NEW S, NEW x \in S PROVE {x} \in Option(S) /\ The({x}) = x
BY DEF Option, The

-----------------------------------------------------------------------------
(* Induction and recursion *)

\* A set that holds 0, and with every number the next one, holds all of them:
\* otherwise it misses a least one.
LEMMA NatSetInduction ==
  ASSUME NEW S, 0 \in S, \A n \in Nat : n \in S => n + 1 \in S
  PROVE  Nat \subseteq S
<1>. DEFINE Less == OpToRel(<, Nat)
            T == {n \in Nat : n \notin S}
<1>1. IsWellFoundedOn(Less, Nat)
  BY NatLessThanWellFounded, Zenon
<1>2. \A m, n \in Nat : m < n => <<m, n>> \in Less
  BY Zenon DEF OpToRel
<1>3. T \subseteq Nat
  OBVIOUS
<1>. HIDE DEF Less
<1>4. SUFFICES ASSUME T # {} PROVE FALSE
  OBVIOUS
<1>5. PICK n \in T : \A m \in T : <<m, n>> \notin Less
  <2>. HIDE DEF T
  <2>1. QED BY <1>1, <1>3, <1>4, WFMin
<1>6. n \in Nat /\ n - 1 \in Nat /\ n - 1 < n
  OBVIOUS
<1>7. n - 1 \in T
  BY <1>6
<1>8. QED BY <1>2, <1>5, <1>6, <1>7

\* Induction up to a bound.
LEMMA BoundedInduction ==
  ASSUME NEW m \in Nat, NEW S, 0 \in S, \A n \in 0 .. m - 1 : n \in S => n + 1 \in S
  PROVE  0 .. m \subseteq S
<1>. DEFINE T == {n \in Nat : n <= m => n \in S}
<1>1. 0 \in T
  OBVIOUS
<1>2. \A n \in Nat : n \in T => n + 1 \in T
  OBVIOUS
<1>3. Nat \subseteq T
  <2>. HIDE DEF T
  <2>1. QED BY <1>1, <1>2, NatSetInduction
<1>4. QED BY <1>3

\* f is what g makes of x in each of m steps.
Iterates(f, D, m, x, g) ==
  f \in [0 .. m -> D] /\ f[0] = x /\ \A l \in 0 .. m - 1 : f[l + 1] = g[<<l, f[l]>>]

\* There is such a function, so a definition by recursion on 0 .. m is one.
LEMMA IterationExists ==
  ASSUME NEW D, NEW m \in Nat, NEW x \in D, NEW g \in [(0 .. m - 1) \X D -> D]
  PROVE  \E f : Iterates(f, D, m, x, g)
<1>. DEFINE Reached == {k \in Nat : k <= m => \E f : Iterates(f, D, k, x, g)}
<1>1. 0 \in Reached
  <2>. DEFINE f == [l \in 0 .. 0 |-> x]
  <2>1. Iterates(f, D, 0, x, g)
    BY DEF Iterates
  <2>. HIDE DEF f
  <2>2. QED BY <2>1
<1>2. ASSUME NEW k \in Nat, k \in Reached PROVE k + 1 \in Reached
  <2>1. SUFFICES ASSUME k + 1 <= m PROVE \E h : Iterates(h, D, k + 1, x, g)
    OBVIOUS
  <2>2. PICK f : Iterates(f, D, k, x, g)
    BY <1>2, <2>1
  <2>. DEFINE h == [l \in 0 .. k + 1 |-> IF l = k + 1 THEN g[<<k, f[k]>>] ELSE f[l]]
  <2>3. f \in [0 .. k -> D] /\ <<k, f[k]>> \in (0 .. m - 1) \X D
    BY <2>1, <2>2 DEF Iterates
  <2>4. h \in [0 .. k + 1 -> D]
    BY <2>3
  <2>5. h[k + 1] = g[<<k, f[k]>>] /\ \A l \in 0 .. k : h[l] = f[l]
    OBVIOUS
  <2>. HIDE DEF h
  <2>6. h[0] = x
    BY <2>2, <2>5 DEF Iterates
  <2>7. \A l \in 0 .. k - 1 : h[l + 1] = g[<<l, h[l]>>]
    <3>1. \A l \in 0 .. k - 1 : l \in 0 .. k /\ l + 1 \in 0 .. k
      OBVIOUS
    <3>2. QED BY <2>2, <2>5, <3>1 DEF Iterates
  <2>8. \A l \in 0 .. k : l = k \/ l \in 0 .. k - 1
    OBVIOUS
  <2>9. h[k] = f[k] /\ (k + 1) - 1 = k
    BY <2>5
  <2>10. \A l \in 0 .. k : h[l + 1] = g[<<l, h[l]>>]
    BY <2>5, <2>7, <2>8, <2>9
  <2>11. Iterates(h, D, k + 1, x, g)
    BY <2>4, <2>6, <2>9, <2>10 DEF Iterates
  <2>12. QED BY <2>11
<1>3. m \in Reached
  <2>. HIDE DEF Reached
  <2>1. QED BY <1>1, <1>2, NatSetInduction
<1>4. QED BY <1>3

-----------------------------------------------------------------------------
(* The circular buffer *)

\* The index after x, going round a table of n slots.
LEMMA NextIndex ==
  ASSUME NEW n \in Nat \ {0}, NEW x \in Slots(n)
  PROVE  (x + 1) % n = IF x + 1 = n THEN 0 ELSE x + 1
BY DEF Slots

\* A new buffer is empty and sound.
LEMMA EmptyBufferSound ==
  ASSUME NEW n \in Nat \ {0}, NEW S
  PROVE  EmptyBuffer(n) \in BufferOf(n, S) /\ WindowInv(n, EmptyBuffer(n))
BY DEF EmptyBuffer, BufferOf, WindowInv, InWindow, Slots, Option

\* push() on a sound buffer that is not full fills a free slot and leaves it sound.
LEMMA PushSound ==
  ASSUME NEW n \in Nat \ {0}, NEW S, NEW b \in BufferOf(n, S), NEW x \in S,
         WindowInv(n, b), ~IsFull(n, b)
  PROVE  /\ b.data[b.tail] = {}
         /\ Push(n, b, x) \in BufferOf(n, S)
         /\ WindowInv(n, Push(n, b, x))
<1> DEFINE c == Push(n, b, x)
<1>1. b.size < n /\ b.size \in Nat /\ b.head \in Slots(n) /\ b.tail \in Slots(n)
  BY DEF BufferOf, IsFull, Slots
<1>2. ~InWindow(n, b, b.tail)
  BY <1>1 DEF WindowInv, InWindow, Slots
<1>3. b.data[b.tail] = {}
  BY <1>1, <1>2 DEF WindowInv
<1>4. c.tail = IF b.tail + 1 = n THEN 0 ELSE b.tail + 1
  BY <1>1, NextIndex DEF Push
<1>5. c \in BufferOf(n, S)
  BY <1>1, <1>4, OptionOfOne DEF Push, BufferOf, Slots
<1>6. \A i \in Slots(n) : InWindow(n, c, i) <=> (InWindow(n, b, i) \/ i = b.tail)
  BY <1>1 DEF Push, InWindow, Slots, WindowInv
<1>7. \A i \in Slots(n) : c.data[i] = IF i = b.tail THEN {x} ELSE b.data[i]
  BY <1>1 DEF Push, BufferOf
<1>8. WindowInv(n, c)
  <2>1. c.tail = IF c.head + c.size < n THEN c.head + c.size ELSE c.head + c.size - n
    BY <1>1, <1>4 DEF Push, WindowInv, Slots
  <2>2. QED BY <1>6, <1>7, <2>1 DEF WindowInv
<1>9. QED BY <1>3, <1>5, <1>8

\* pop() on a sound buffer that is not empty takes an element and leaves it sound.
LEMMA PopSound ==
  ASSUME NEW n \in Nat \ {0}, NEW S, NEW b \in BufferOf(n, S),
         WindowInv(n, b), ~IsEmpty(b)
  PROVE  /\ b.data[b.head] # {}
         /\ Pop(n, b) \in BufferOf(n, S)
         /\ WindowInv(n, Pop(n, b))
<1> DEFINE c == Pop(n, b)
<1>1. b.size > 0 /\ b.size \in 0 .. n /\ b.head \in Slots(n) /\ b.tail \in Slots(n)
  BY DEF BufferOf, IsEmpty, Slots
<1>2. InWindow(n, b, b.head)
  BY <1>1 DEF InWindow, Slots
<1>3. b.data[b.head] # {}
  BY <1>1, <1>2 DEF WindowInv
<1>4. c.head = IF b.head + 1 = n THEN 0 ELSE b.head + 1
  BY <1>1, NextIndex DEF Pop
<1>5. c \in BufferOf(n, S)
  BY <1>1, <1>4 DEF Pop, BufferOf, Slots, Option
<1>6. \A i \in Slots(n) : InWindow(n, c, i) <=> (InWindow(n, b, i) /\ i # b.head)
  <2>1. c.size = b.size - 1
    BY DEF Pop
  <2>. HIDE DEF c
  <2>2. CASE b.head + 1 = n
    BY <1>1, <1>4, <2>1, <2>2 DEF InWindow, Slots
  <2>3. CASE b.head + 1 < n
    BY <1>1, <1>4, <2>1, <2>3 DEF InWindow, Slots
  <2>4. QED BY <1>1, <2>2, <2>3 DEF Slots
<1>7. \A i \in Slots(n) : c.data[i] = IF i = b.head THEN {} ELSE b.data[i]
  BY <1>1 DEF Pop, BufferOf
<1>8. WindowInv(n, c)
  <2>1. c.tail = IF c.head + c.size < n THEN c.head + c.size ELSE c.head + c.size - n
    BY <1>1, <1>4 DEF Pop, WindowInv, Slots
  <2>2. QED BY <1>6, <1>7, <2>1 DEF WindowInv
<1>9. QED BY <1>3, <1>5, <1>8

\* access_by_tag() on an occupied slot changes that element only.
LEMMA AccessSound ==
  ASSUME NEW n \in Nat \ {0}, NEW S, NEW b \in BufferOf(n, S), NEW i \in Slots(n), NEW x \in S,
         WindowInv(n, b), b.data[i] # {}
  PROVE  Access(b, i, x) \in BufferOf(n, S) /\ WindowInv(n, Access(b, i, x))
BY OptionOfOne DEF Access, BufferOf, WindowInv, InWindow
=============================================================================
