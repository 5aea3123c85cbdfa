--------------------------- MODULE StructureProofs ---------------------------
(***************************************************************************)
(* The two data structures that are components of their own, under every   *)
(* sequence of calls.                                                      *)
(*                                                                         *)
(* The ring is sound and is a queue, for every capacity and every type of  *)
(* elements.                                                               *)
(*                                                                         *)
(* The tree of prediction bits spares the ways used last, and fills use    *)
(* every way in turn, for every number of levels.                          *)
(***************************************************************************)
EXTENDS RingQueue, LruLine, CommonLemmas, SequenceTheorems, FiniteSetTheorems

-----------------------------------------------------------------------------
(* The ring *)

RingInv == TypeOK /\ Window

\* Every reachable ring is well typed and occupies exactly its window.
THEOREM RingInvariant == Spec => []RingInv
<1>1. Init => RingInv
  BY RingAssumption, EmptyBufferSound DEF Init, RingInv, TypeOK, Window
<1>2. RingInv /\ [Next]_buf => RingInv'
  <2>. SUFFICES ASSUME RingInv, [Next]_buf PROVE RingInv'
    OBVIOUS
  <2>. USE DEF RingInv, TypeOK, Window
  <2>1. ASSUME NEW x \in Item, DoPush(x) PROVE RingInv'
    BY <2>1, RingAssumption, PushSound DEF DoPush
  <2>2. CASE DoPop
    BY <2>2, RingAssumption, PopSound DEF DoPop
  <2>3. ASSUME NEW t \in Tag, NEW x \in Item, DoAccess(t, x) PROVE RingInv'
    BY <2>3, RingAssumption, AccessSound DEF DoAccess, Tag
  <2>4. CASE UNCHANGED buf
    BY <2>4
  <2>5. QED BY <2>1, <2>2, <2>3, <2>4 DEF Next
<1>3. QED BY <1>1, <1>2, PTL DEF Spec

\* A sequence is the function from its indices to its elements.
LEMMA SequenceAsFunction ==
  ASSUME NEW S, NEW s \in Seq(S)
  PROVE  s = [k \in 1 .. Len(s) |-> s[k]] /\ Len(s) \in Nat
OBVIOUS

\* Slot of the k-th element from the head.
SlotOf(n, b, k) == (b.head + k - 1) % n

\* A position counted from the head, going round at most once.
LEMMA SlotOfIndex ==
  ASSUME NEW n \in Nat \ {0}, NEW S, NEW b \in BufferOf(n, S), NEW k \in 1 .. n
  PROVE  /\ SlotOf(n, b, k) \in Slots(n)
         /\ SlotOf(n, b, k) = IF b.head + k - 1 < n THEN b.head + k - 1
                                                      ELSE b.head + k - 1 - n
<1>1. b.head \in 0 .. n - 1
  BY DEF BufferOf, Slots
<1>2. \A x \in 0 .. 2 * n - 1 : x % n = IF x < n THEN x ELSE x - n
  OBVIOUS
<1>3. QED BY <1>1, <1>2 DEF SlotOf, Slots

\* The elements of the window are the elements of the queue.
LEMMA ContentsInItem ==
  ASSUME RingInv
  PROVE  /\ buf.size \in 0 .. Capacity
         /\ Contents \in [1 .. buf.size -> Item]
         /\ \A k \in 1 .. buf.size : buf.data[SlotOf(Capacity, buf, k)] = {Contents[k]}
<1>1. buf.size \in 0 .. Capacity /\ buf.head \in 0 .. Capacity - 1
  BY DEF RingInv, TypeOK, BufferOf, Slots
<1>2. ASSUME NEW k \in 1 .. buf.size
      PROVE  /\ The(buf.data[SlotOf(Capacity, buf, k)]) \in Item
             /\ buf.data[SlotOf(Capacity, buf, k)] = {The(buf.data[SlotOf(Capacity, buf, k)])}
  <2> DEFINE i == SlotOf(Capacity, buf, k)
  <2>1. k \in 1 .. Capacity
    BY <1>1, RingAssumption
  <2>2. i \in Slots(Capacity) /\ i = IF buf.head + k - 1 < Capacity THEN buf.head + k - 1
                                     ELSE buf.head + k - 1 - Capacity
    BY <2>1, RingAssumption, SlotOfIndex DEF RingInv, TypeOK
  <2>. HIDE DEF i
  <2>3. InWindow(Capacity, buf, i)
    BY <1>1, <2>1, <2>2, RingAssumption DEF InWindow
  <2>4. buf.data[i] # {} /\ buf.data[i] \in Option(Item)
    BY <2>2, <2>3 DEF RingInv, TypeOK, Window, WindowInv, BufferOf
  <2>5. QED BY <2>4, TheProperties DEF i
<1>3. QED BY <1>1, <1>2 DEF Contents, SlotOf

\* Different positions of the window are different slots.
LEMMA SlotOfInjective ==
  ASSUME RingInv, NEW j \in 1 .. buf.size, NEW k \in 1 .. buf.size,
         SlotOf(Capacity, buf, j) = SlotOf(Capacity, buf, k)
  PROVE  j = k
<1>1. buf.size \in 0 .. Capacity /\ buf.head \in 0 .. Capacity - 1
  BY DEF RingInv, TypeOK, BufferOf, Slots
<1>2. j \in 1 .. Capacity /\ k \in 1 .. Capacity
  BY <1>1, RingAssumption
<1>3. QED BY <1>1, <1>2, RingAssumption, SlotOfIndex DEF RingInv, TypeOK

\* push() appends, pop() drops the first element, access_by_tag() replaces one.
LEMMA PushAppends ==
  ASSUME RingInv, NEW x \in Item, DoPush(x)
  PROVE  Contents' = Append(Contents, x)
<1>1. /\ buf.size \in 0 .. Capacity - 1 /\ buf.head \in 0 .. Capacity - 1
      /\ buf.data \in [Slots(Capacity) -> Option(Item)] /\ buf.tail \in Slots(Capacity)
  BY RingAssumption DEF RingInv, TypeOK, BufferOf, Slots, DoPush, IsFull
<1>2. /\ buf'.size = buf.size + 1 /\ buf'.head = buf.head
      /\ buf'.data = [buf.data EXCEPT ![buf.tail] = {x}]
  BY DEF DoPush, Push
<1>3. ASSUME NEW k \in 1 .. buf.size
      PROVE  The(buf'.data[(buf'.head + k - 1) % Capacity])
             = The(buf.data[(buf.head + k - 1) % Capacity])
  <2>1. k \in 1 .. Capacity
    BY <1>1, RingAssumption
  <2>2. /\ SlotOf(Capacity, buf, k) \in Slots(Capacity)
        /\ SlotOf(Capacity, buf, k) # buf.tail
    <3>1. /\ SlotOf(Capacity, buf, k) \in Slots(Capacity)
          /\ SlotOf(Capacity, buf, k) = IF buf.head + k - 1 < Capacity THEN buf.head + k - 1
                                        ELSE buf.head + k - 1 - Capacity
      BY <2>1, SlotOfIndex, RingAssumption DEF RingInv, TypeOK
    <3>2. buf.tail = IF buf.head + buf.size < Capacity THEN buf.head + buf.size
                     ELSE buf.head + buf.size - Capacity
      BY DEF RingInv, Window, WindowInv
    <3>3. QED BY <1>1, <2>1, <3>1, <3>2, RingAssumption
  <2>3. QED BY <1>1, <1>2, <2>2 DEF SlotOf
<1>4. The(buf'.data[(buf'.head + (buf.size + 1) - 1) % Capacity]) = x
  <2>1. buf.size + 1 \in 1 .. Capacity
    BY <1>1, RingAssumption
  <2>2. SlotOf(Capacity, buf, buf.size + 1) = buf.tail
    BY <2>1, <1>1, SlotOfIndex, RingAssumption DEF RingInv, TypeOK, Window, WindowInv
  <2>3. buf'.data[buf.tail] = {x}
    BY <1>1, <1>2
  <2>4. QED BY <1>2, <2>2, <2>3, OptionOfOne DEF SlotOf
<1>5. Contents \in Seq(Item) /\ Len(Contents) = buf.size
  BY <1>1, ContentsInItem
<1>6. Contents' = [k \in 1 .. buf.size + 1 |->
                     The(buf'.data[(buf'.head + k - 1) % Capacity])]
  BY <1>2 DEF Contents
<1>7. Append(Contents, x) = [k \in 1 .. buf.size + 1 |->
                               IF k = buf.size + 1 THEN x ELSE Contents[k]]
  <2> DEFINE s == Append(Contents, x)
  <2>1. /\ s \in Seq(Item) /\ Len(s) = buf.size + 1 /\ s[buf.size + 1] = x
        /\ \A k \in 1 .. buf.size : s[k] = Contents[k]
    BY <1>5, AppendProperties
  <2>2. s = [k \in 1 .. buf.size + 1 |-> s[k]]
    BY <2>1, SequenceAsFunction
  <2>. HIDE DEF s
  <2>3. \A k \in 1 .. buf.size + 1 : s[k] = IF k = buf.size + 1 THEN x ELSE Contents[k]
    BY <1>1, <2>1
  <2>4. s = [k \in 1 .. buf.size + 1 |-> IF k = buf.size + 1 THEN x ELSE Contents[k]]
    BY <2>2, <2>3
  <2>5. QED BY <2>4 DEF s
<1>8. \A k \in 1 .. buf.size : Contents[k] = The(buf.data[(buf.head + k - 1) % Capacity])
  BY DEF Contents
<1>9. \A k \in 1 .. buf.size + 1 :
        The(buf'.data[(buf'.head + k - 1) % Capacity])
        = IF k = buf.size + 1 THEN x ELSE Contents[k]
  BY <1>1, <1>3, <1>4, <1>8
<1>10. QED BY <1>6, <1>7, <1>9

LEMMA PopDropsFirst ==
  ASSUME RingInv, DoPop
  PROVE  Contents # <<>> /\ Contents' = Tail(Contents)
<1>1. /\ buf.size \in 1 .. Capacity /\ buf.head \in 0 .. Capacity - 1
      /\ buf.data \in [Slots(Capacity) -> Option(Item)]
  BY RingAssumption DEF RingInv, TypeOK, BufferOf, Slots, DoPop, IsEmpty
<1>2. /\ buf'.size = buf.size - 1 /\ buf'.head = (buf.head + 1) % Capacity
      /\ buf'.data = [buf.data EXCEPT ![buf.head] = {}]
  BY DEF DoPop, Pop
<1>3. buf'.head = IF buf.head + 1 = Capacity THEN 0 ELSE buf.head + 1
  BY <1>1, <1>2, RingAssumption, NextIndex DEF Slots
<1>4. ASSUME NEW k \in 1 .. buf.size - 1
      PROVE  The(buf'.data[(buf'.head + k - 1) % Capacity]) = Contents[k + 1]
  <2>1. k \in 1 .. Capacity /\ k + 1 \in 1 .. Capacity /\ k + 1 \in 1 .. buf.size
    BY <1>1, RingAssumption
  <2>2. buf' \in BufferOf(Capacity, Item)
    BY RingAssumption, PopSound DEF DoPop, RingInv, TypeOK, Window
  <2>3. SlotOf(Capacity, buf', k) = SlotOf(Capacity, buf, k + 1)
    <3>1. SlotOf(Capacity, buf', k) = IF buf'.head + k - 1 < Capacity THEN buf'.head + k - 1
                                      ELSE buf'.head + k - 1 - Capacity
      BY <2>1, <2>2, SlotOfIndex, RingAssumption
    <3>2. SlotOf(Capacity, buf, k + 1) = IF buf.head + k < Capacity THEN buf.head + k
                                         ELSE buf.head + k - Capacity
      BY <1>1, <2>1, SlotOfIndex, RingAssumption DEF RingInv, TypeOK
    <3>3. QED BY <1>1, <1>3, <2>1, <3>1, <3>2, RingAssumption
  <2>4. /\ SlotOf(Capacity, buf, k + 1) \in Slots(Capacity)
        /\ SlotOf(Capacity, buf, k + 1) # buf.head
    BY <1>1, <2>1, SlotOfIndex, RingAssumption DEF RingInv, TypeOK
  <2>5. Contents[k + 1] = The(buf.data[SlotOf(Capacity, buf, k + 1)])
    BY <2>1 DEF Contents, SlotOf
  <2>6. QED BY <1>1, <1>2, <2>3, <2>4, <2>5 DEF SlotOf
<1>5. Contents \in Seq(Item) /\ Len(Contents) = buf.size
  BY <1>1, ContentsInItem
<1>6. Contents # <<>>
  BY <1>1, <1>5
<1>7. Tail(Contents) = [k \in 1 .. buf.size - 1 |-> Contents[k + 1]]
  <2> DEFINE s == Tail(Contents)
  <2>1. /\ s \in Seq(Item) /\ Len(s) = buf.size - 1
        /\ \A k \in 1 .. buf.size - 1 : s[k] = Contents[k + 1]
    BY <1>5, <1>6, HeadTailProperties
  <2>2. s = [k \in 1 .. buf.size - 1 |-> s[k]]
    BY <2>1, SequenceAsFunction
  <2>. HIDE DEF s
  <2>3. s = [k \in 1 .. buf.size - 1 |-> Contents[k + 1]]
    BY <2>1, <2>2
  <2>4. QED BY <2>3 DEF s
<1>8. Contents' = [k \in 1 .. buf.size - 1 |->
                     The(buf'.data[(buf'.head + k - 1) % Capacity])]
  BY <1>2 DEF Contents
<1>9. QED BY <1>4, <1>6, <1>7, <1>8

LEMMA AccessReplaces ==
  ASSUME RingInv, NEW t \in Tag, NEW x \in Item, DoAccess(t, x)
  PROVE  \E k \in DOMAIN Contents : Contents' = [Contents EXCEPT ![k] = x]
<1>1. /\ buf.size \in 0 .. Capacity /\ buf.head \in 0 .. Capacity - 1
      /\ buf.data \in [Slots(Capacity) -> Option(Item)] /\ t \in 0 .. Capacity - 1
  BY RingAssumption DEF RingInv, TypeOK, BufferOf, Slots, Tag
<1>2. /\ buf'.size = buf.size /\ buf'.head = buf.head
      /\ buf'.data = [buf.data EXCEPT ![t] = {x}]
  BY DEF DoAccess, Access
<1>3. InWindow(Capacity, buf, t)
  BY <1>1 DEF DoAccess, RingInv, Window, WindowInv, Slots
<1>4. PICK k \in 1 .. buf.size : SlotOf(Capacity, buf, k) = t
  <2> DEFINE d == IF t >= buf.head THEN t - buf.head + 1 ELSE t - buf.head + 1 + Capacity
  <2>1. d \in 1 .. buf.size /\ d \in 1 .. Capacity
    BY <1>1, <1>3, RingAssumption DEF InWindow
  <2>2. SlotOf(Capacity, buf, d) = t
    BY <1>1, <2>1, RingAssumption, SlotOfIndex DEF RingInv, TypeOK
  <2>3. QED BY <2>1, <2>2
<1>5. DOMAIN Contents = 1 .. buf.size
  BY DEF Contents
<1>6. Contents' = [j \in 1 .. buf.size |-> The(buf'.data[(buf.head + j - 1) % Capacity])]
  BY <1>2 DEF Contents
<1>7. ASSUME NEW j \in 1 .. buf.size
      PROVE  The(buf'.data[(buf.head + j - 1) % Capacity])
             = IF j = k THEN x ELSE Contents[j]
  <2>1. j \in 1 .. Capacity
    BY <1>1, RingAssumption
  <2>2. SlotOf(Capacity, buf, j) \in Slots(Capacity)
    BY <2>1, SlotOfIndex, RingAssumption DEF RingInv, TypeOK
  <2>3. j # k => SlotOf(Capacity, buf, j) # t
    BY <1>4, SlotOfInjective
  <2>4. Contents[j] = The(buf.data[SlotOf(Capacity, buf, j)])
    BY DEF Contents, SlotOf
  <2>5. QED BY <1>1, <1>2, <1>4, <2>2, <2>3, <2>4, OptionOfOne DEF SlotOf
<1>8. [Contents EXCEPT ![k] = x] = [j \in 1 .. buf.size |-> IF j = k THEN x ELSE Contents[j]]
  BY <1>5
<1>9. QED BY <1>4, <1>5, <1>6, <1>7, <1>8

\* Whatever the sequence of calls, the occupied slots are those between head and tail:
\* no push overwrites an element and no pop unwraps an empty slot.
THEOREM RingSound == Spec => []TypeOK /\ []Window
<1>1. RingInv => TypeOK /\ Window
  BY DEF RingInv
<1>2. QED BY <1>1, RingInvariant, PTL

\* The ring implements the bounded first-in first-out queue.
THEOREM RingIsQueue == Spec => IsQueue
<1>1. Init => Queue!Init
  BY DEF Init, EmptyBuffer, Contents, Queue!Init
<1>2. RingInv /\ [Next]_buf => [Queue!Next]_Contents
  <2>. SUFFICES ASSUME RingInv, [Next]_buf PROVE [Queue!Next]_Contents
    OBVIOUS
  <2>1. ASSUME NEW x \in Item, DoPush(x) PROVE Queue!Next
    <3>1. Len(Contents) < Capacity
      BY <2>1, ContentsInItem, RingAssumption DEF DoPush, IsFull
    <3>2. Queue!Enqueue(x)
      BY <2>1, <3>1, PushAppends DEF Queue!Enqueue
    <3>3. QED BY <3>2 DEF Queue!Next
  <2>2. CASE DoPop
    BY <2>2, PopDropsFirst DEF Queue!Next, Queue!Dequeue
  <2>3. ASSUME NEW t \in Tag, NEW x \in Item, DoAccess(t, x) PROVE Queue!Next
    BY <2>3, AccessReplaces DEF Queue!Next, Queue!Replace
  <2>4. CASE UNCHANGED buf
    BY <2>4 DEF Contents
  <2>5. QED BY <2>1, <2>2, <2>3, <2>4 DEF Next
<1>3. QED BY <1>1, <1>2, RingInvariant, PTL DEF Spec, IsQueue, Queue!Spec

-----------------------------------------------------------------------------
(* The tree: division *)

LEMMA DivMod ==
  ASSUME NEW v \in Nat, NEW p \in Nat \ {0}
  PROVE  v % p \in 0 .. p - 1 /\ v \div p \in Nat /\ v = p * (v \div p) + (v % p)
OBVIOUS

\* Quotient and remainder are determined.
LEMMA DivModUnique ==
  ASSUME NEW p \in Nat \ {0}, NEW q \in Nat, NEW r \in 0 .. p - 1, NEW v \in Nat, v = p * q + r
  PROVE  v \div p = q /\ v % p = r
<1>. DEFINE a == v \div p
            b == v % p
<1>1. a \in Nat /\ b \in 0 .. p - 1 /\ v = p * a + b
  BY DivMod
<1>. HIDE DEF a, b
<1>2. p * a + b = p * q + r
  BY <1>1
<1>3. CASE a < q
  <2>1. p * (q - a) >= p
    BY <1>1, <1>3
  <2>2. p * (q - a) = p * q - p * a
    BY <1>1
  <2>3. QED BY <1>1, <1>2, <2>1, <2>2
<1>4. CASE q < a
  <2>1. p * (a - q) >= p
    BY <1>1, <1>4
  <2>2. p * (a - q) = p * a - p * q
    BY <1>1
  <2>3. QED BY <1>1, <1>2, <2>1, <2>2
<1>5. CASE q = a
  BY <1>1, <1>2, <1>5 DEF a, b
<1>6. QED BY <1>1, <1>3, <1>4, <1>5

\* The remainder of a division by 2p adds the next bit to that of a division by p.
LEMMA ModSplit ==
  ASSUME NEW v \in Nat, NEW p \in Nat \ {0}
  PROVE  v % (2 * p) = (v % p) + (IF (v \div p) % 2 = 1 THEN p ELSE 0)
<1>. DEFINE q == v \div p
            r == v % p
            h == q \div 2
            t == 2 * p
<1>1. r \in 0 .. p - 1 /\ q \in Nat /\ v = p * q + r
  BY DivMod
<1>2. h \in Nat /\ (q = 2 * h \/ q = 2 * h + 1) /\ (q % 2 = 1 <=> q = 2 * h + 1)
  BY <1>1
<1>3. t \in Nat \ {0} /\ r \in 0 .. t - 1 /\ r + p \in 0 .. t - 1
  BY <1>1
<1>. HIDE DEF q, r, h
<1>6. \A x \in 0 .. t - 1 : v = t * h + x => v % t = x
  <2>. HIDE DEF t
  <2>1. QED BY <1>2, <1>3, DivModUnique
<1>4. CASE q = 2 * h
  <2>1. v = t * h + r
    BY <1>1, <1>2, <1>4
  <2>2. v % t = r
    BY <1>2, <1>3, <1>6, <2>1
  <2>3. QED BY <1>2, <1>4, <2>2 DEF q, r
<1>5. CASE q = 2 * h + 1
  <2>1. v = t * h + (r + p)
    BY <1>1, <1>2, <1>5
  <2>2. v % t = r + p
    BY <1>3, <1>6, <2>1
  <2>3. QED BY <1>2, <1>5, <2>2 DEF q, r
<1>7. QED BY <1>2, <1>4, <1>5

\* How many numbers below n are c modulo p.
Count(n, c, p) == (n + (p - 1 - c)) \div p

LEMMA CountStep ==
  ASSUME NEW n \in Nat, NEW p \in Nat \ {0}, NEW c \in 0 .. p - 1
  PROVE  /\ Count(n, c, p) \in Nat
         /\ n % p = c => Count(n, c, p) = n \div p /\ Count(n + 1, c, p) = Count(n, c, p) + 1
         /\ n % p # c => Count(n + 1, c, p) = Count(n, c, p)
         /\ Count(0, c, p) = 0
<1>. DEFINE d == p - 1 - c
            q == n \div p
            r == n % p
<1>1. q \in Nat /\ r \in 0 .. p - 1 /\ n = p * q + r
  BY DivMod
<1>2. d \in 0 .. p - 1
  OBVIOUS
<1>. HIDE DEF q, r
<1>3. \A v \in Nat, a \in Nat, b \in 0 .. p - 1 : v = p * a + b => v \div p = a
  BY DivModUnique
<1>4. \A a \in Nat : p * (a + 1) = p * a + p /\ p * a \in Nat
  OBVIOUS
<1>6. Count(0, c, p) = 0
  <2>1. p * 0 + d = d
    OBVIOUS
  <2>2. d \div p = 0
    BY <1>2, <1>3, <2>1
  <2>3. QED BY <2>2 DEF Count
<1>5. CASE r = c
  <2>1. n + d = p * q + (p - 1) /\ n + 1 + d = p * (q + 1) + 0
    BY <1>1, <1>4, <1>5
  <2>2. (n + d) \div p = q /\ (n + 1 + d) \div p = q + 1
    BY <1>1, <1>2, <1>3, <2>1
  <2>3. QED BY <1>1, <1>5, <1>6, <2>2 DEF Count, q, r
<1>7. CASE r < c
  <2>1. n + d = p * q + (r + d) /\ n + 1 + d = p * q + (r + 1 + d)
    BY <1>1, <1>4
  <2>2. r + d \in 0 .. p - 1 /\ r + 1 + d \in 0 .. p - 1
    BY <1>1, <1>7
  <2>3. (n + d) \div p = q /\ (n + 1 + d) \div p = q
    BY <1>1, <1>2, <1>3, <2>1, <2>2
  <2>4. QED BY <1>1, <1>6, <1>7, <2>3 DEF Count, r
<1>8. CASE r > c
  <2>1. n + d = p * (q + 1) + (r - c - 1) /\ n + 1 + d = p * (q + 1) + (r - c)
    BY <1>1, <1>4
  <2>2. r - c - 1 \in 0 .. p - 1 /\ r - c \in 0 .. p - 1
    BY <1>1, <1>8
  <2>3. (n + d) \div p = q + 1 /\ (n + 1 + d) \div p = q + 1
    BY <1>1, <1>2, <1>3, <2>1, <2>2
  <2>4. QED BY <1>1, <1>6, <1>8, <2>3 DEF Count, r
<1>9. QED BY <1>1, <1>5, <1>7, <1>8

-----------------------------------------------------------------------------
(* The tree: its recursive definitions *)

\* 1 << n doubles with n.
LEMMA PowerSteps ==
  /\ Power[0] = 1
  /\ \A l \in Level : Power[l + 1] = 2 * Power[l]
  /\ \A l \in 0 .. LogAssoc : Power[l] \in Nat \ {0}
<1>. DEFINE D == Nat \ {0}
            g == [p \in (0 .. LogAssoc - 1) \X D |-> 2 * p[2]]
            Body(f) == [n \in 0 .. LogAssoc |-> IF n = 0 THEN 1 ELSE 2 * f[n - 1]]
<1>1. LogAssoc \in Nat
  BY LruAssumption
<1>2. g \in [(0 .. LogAssoc - 1) \X D -> D] /\ 1 \in D
  OBVIOUS
<1>3. PICK f : Iterates(f, D, LogAssoc, 1, g)
  <2>. HIDE DEF g, D
  <2>1. QED BY <1>1, <1>2, IterationExists
<1>4. f \in [0 .. LogAssoc -> D] /\ f[0] = 1
  BY <1>3, Zenon DEF Iterates
<1>5. ASSUME NEW l \in 0 .. LogAssoc - 1 PROVE f[l + 1] = 2 * f[l]
  <2>1. f[l] \in D
    BY <1>1, <1>4
  <2>2. f[l + 1] = g[<<l, f[l]>>]
    BY <1>3 DEF Iterates
  <2>3. QED BY <2>1, <2>2
<1>. HIDE DEF g
<1>6. f = Body(f)
  <2>1. ASSUME NEW n \in 0 .. LogAssoc, n # 0 PROVE f[n] = 2 * f[n - 1]
    <3>1. n - 1 \in 0 .. LogAssoc - 1 /\ n - 1 + 1 = n
      BY <1>1, <2>1
    <3>2. QED BY <1>5, <3>1
  <2>2. QED BY <1>4, <2>1
<1>7. Power = CHOOSE h : h = Body(h)
  BY Zenon DEF Power
<1>8. Power = Body(Power)
  <2>. HIDE DEF Body
  <2>1. QED BY <1>6, <1>7, Zenon
<1>9. Power[0] = 1
  BY <1>1, <1>8
<1>10. \A l \in Level : Power[l + 1] = 2 * Power[l]
  BY <1>1, <1>8 DEF Level
<1>11. \A l \in 0 .. LogAssoc : Power[l] \in D
  <2>. DEFINE S == {l \in 0 .. LogAssoc : Power[l] \in D}
  <2>1. 0 \in S /\ \A l \in 0 .. LogAssoc - 1 : l \in S => l + 1 \in S
    BY <1>1, <1>9, <1>10 DEF Level
  <2>. HIDE DEF S
  <2>2. 0 .. LogAssoc \subseteq S
    BY <1>1, <2>1, BoundedInduction
  <2>3. QED BY <2>2 DEF S
<1>12. QED BY <1>9, <1>10, <1>11

LEMMA PowerMonotone ==
  ASSUME NEW l \in 0 .. LogAssoc, NEW k \in 0 .. l
  PROVE  Power[k] <= Power[l]
<1>. DEFINE S == {d \in 0 .. l - k : Power[k] <= Power[k + d]}
<1>1. LogAssoc \in Nat /\ l - k \in Nat
  BY LruAssumption
<1>2. 0 \in S
  BY <1>1, PowerSteps
<1>3. ASSUME NEW d \in 0 .. l - k - 1, d \in S PROVE d + 1 \in S
  <2>1. k + d \in Level /\ k + d + 1 = k + (d + 1) /\ k + d \in 0 .. LogAssoc
    BY <1>1, <1>3 DEF Level
  <2>2. Power[k + (d + 1)] = 2 * Power[k + d] /\ Power[k + d] \in Nat /\ Power[k] \in Nat
    BY <1>1, <2>1, PowerSteps
  <2>3. QED BY <1>1, <1>3, <2>2
<1>4. 0 .. l - k \subseteq S
  <2>. HIDE DEF S
  <2>1. QED BY <1>1, <1>2, <1>3, BoundedInduction
<1>5. l - k \in S /\ k + (l - k) = l
  BY <1>1, <1>4
<1>6. QED BY <1>5

\* log_hit() goes from a node of the path to the child on the side of the bit.
LEMMA PathSteps ==
  ASSUME NEW w
  PROVE  /\ PathTo(w)[0] = 0
         /\ \A l \in Level : PathTo(w)[l + 1] = Child(PathTo(w)[l], BitAt(w, l))
         /\ \A l \in 0 .. LogAssoc : PathTo(w)[l] \in Nat
<1>. DEFINE g == [p \in (0 .. LogAssoc - 1) \X Nat |-> Child(p[2], BitAt(w, p[1]))]
            Body(f) == [l \in 0 .. LogAssoc |->
                          IF l = 0 THEN 0 ELSE Child(f[l - 1], BitAt(w, l - 1))]
            P == PathTo(w)
<1>1. LogAssoc \in Nat
  BY LruAssumption
<1>2. \A n \in Nat : \A b : Child(n, b) \in Nat
  BY DEF Child
<1>3. g \in [(0 .. LogAssoc - 1) \X Nat -> Nat]
  BY <1>2
<1>4. PICK f : Iterates(f, Nat, LogAssoc, 0, g)
  <2>. HIDE DEF g
  <2>1. QED BY <1>1, <1>3, IterationExists
<1>5. f \in [0 .. LogAssoc -> Nat] /\ f[0] = 0
  BY <1>4, Zenon DEF Iterates
<1>6. ASSUME NEW l \in 0 .. LogAssoc - 1 PROVE f[l + 1] = Child(f[l], BitAt(w, l))
  <2>1. f[l] \in Nat
    BY <1>1, <1>5
  <2>2. f[l + 1] = g[<<l, f[l]>>]
    BY <1>4 DEF Iterates
  <2>3. QED BY <2>1, <2>2
<1>. HIDE DEF g
<1>7. f = Body(f)
  <2>1. ASSUME NEW n \in 0 .. LogAssoc, n # 0 PROVE f[n] = Child(f[n - 1], BitAt(w, n - 1))
    <3>1. n - 1 \in 0 .. LogAssoc - 1 /\ n - 1 + 1 = n
      BY <1>1, <2>1
    <3>2. QED BY <1>6, <3>1
  <2>2. QED BY <1>5, <2>1
<1>8. P = CHOOSE h : h = Body(h)
  BY Zenon DEF PathTo
<1>9. P = Body(P)
  <2>. HIDE DEF Body
  <2>1. QED BY <1>7, <1>8, Zenon
<1>10. P[0] = 0
  <2>. HIDE DEF P
  <2>1. QED BY <1>1, <1>9
<1>11. ASSUME NEW l \in Level PROVE P[l + 1] = Child(P[l], BitAt(w, l))
  <2>1. l + 1 \in 0 .. LogAssoc /\ l + 1 # 0 /\ (l + 1) - 1 = l
    BY <1>1 DEF Level
  <2>. HIDE DEF P
  <2>2. \A n \in 0 .. LogAssoc : n # 0 => P[n] = Child(P[n - 1], BitAt(w, n - 1))
    BY <1>9
  <2>3. \A n \in 0 .. LogAssoc : \A k : n # 0 /\ n - 1 = k => P[n] = Child(P[k], BitAt(w, k))
    BY <2>2, Zenon
  <2>4. QED BY <2>1, <2>3, Zenon
<1>12. \A l \in 0 .. LogAssoc : P[l] \in Nat
  <2>. DEFINE S == {l \in 0 .. LogAssoc : P[l] \in Nat}
  <2>. HIDE DEF P
  <2>1. 0 \in S /\ \A l \in 0 .. LogAssoc - 1 : l \in S => l + 1 \in S
    BY <1>1, <1>2, <1>10, <1>11 DEF Level
  <2>. HIDE DEF S
  <2>2. 0 .. LogAssoc \subseteq S
    BY <1>1, <2>1, BoundedInduction
  <2>3. QED BY <2>2 DEF S
<1>13. QED BY <1>10, <1>11, <1>12

\* get_eviction_id() goes from a node to the child on the side of its bit.
LEMMA DescentSteps ==
  ASSUME NEW B
  PROVE  /\ Descent(B)[0].node = 0 /\ Descent(B)[0].way = 0
         /\ \A l \in Level :
              /\ Descent(B)[l + 1].node = Child(Descent(B)[l].node, B[Descent(B)[l].node])
              /\ Descent(B)[l + 1].way = Descent(B)[l].way
                                          + (IF B[Descent(B)[l].node] THEN Power[l] ELSE 0)
<1>. DEFINE D == [node : Nat, way : Nat]
            StepOf(l, up) == [node |-> Child(up.node, B[up.node]),
                            way  |-> up.way + (IF B[up.node] THEN Power[l] ELSE 0)]
            g == [p \in (0 .. LogAssoc - 1) \X D |-> StepOf(p[1], p[2])]
            Body(f) == [l \in 0 .. LogAssoc |->
                          IF l = 0 THEN [node |-> 0, way |-> 0] ELSE StepOf(l - 1, f[l - 1])]
            P == Descent(B)
<1>1. LogAssoc \in Nat
  BY LruAssumption
<1>2. \A n \in Nat : \A b : Child(n, b) \in Nat
  BY DEF Child
<1>3. g \in [(0 .. LogAssoc - 1) \X D -> D] /\ [node |-> 0, way |-> 0] \in D
  BY <1>1, <1>2, PowerSteps
<1>4. PICK f : Iterates(f, D, LogAssoc, [node |-> 0, way |-> 0], g)
  <2>. HIDE DEF g, D
  <2>1. QED BY <1>1, <1>3, IterationExists
<1>5. f \in [0 .. LogAssoc -> D] /\ f[0] = [node |-> 0, way |-> 0]
  BY <1>4, Zenon DEF Iterates
<1>6. ASSUME NEW l \in 0 .. LogAssoc - 1 PROVE f[l + 1] = StepOf(l, f[l])
  <2>1. f[l] \in D
    BY <1>1, <1>5
  <2>2. f[l + 1] = g[<<l, f[l]>>]
    BY <1>4 DEF Iterates
  <2>. HIDE DEF D, StepOf
  <2>3. QED BY <2>1, <2>2
<1>. HIDE DEF g, D, StepOf
<1>7. f = Body(f)
  <2>1. ASSUME NEW n \in 0 .. LogAssoc, n # 0 PROVE f[n] = StepOf(n - 1, f[n - 1])
    <3>1. n - 1 \in 0 .. LogAssoc - 1 /\ n - 1 + 1 = n
      BY <1>1, <2>1
    <3>2. QED BY <1>6, <3>1
  <2>2. QED BY <1>5, <2>1
<1>8. P = CHOOSE h : h = Body(h)
  BY Zenon DEF Descent, StepOf
<1>9. P = Body(P)
  <2>. HIDE DEF Body
  <2>1. QED BY <1>7, <1>8, Zenon
<1>10. P[0] = [node |-> 0, way |-> 0]
  <2>. HIDE DEF P
  <2>1. QED BY <1>1, <1>9
<1>11. ASSUME NEW l \in Level PROVE P[l + 1] = StepOf(l, P[l])
  <2>1. l + 1 \in 0 .. LogAssoc /\ l + 1 # 0 /\ (l + 1) - 1 = l
    BY <1>1 DEF Level
  <2>. HIDE DEF P
  <2>2. \A n \in 0 .. LogAssoc : n # 0 => P[n] = StepOf(n - 1, P[n - 1])
    BY <1>9
  <2>3. \A n \in 0 .. LogAssoc : \A k : n # 0 /\ n - 1 = k => P[n] = StepOf(k, P[k])
    BY <2>2, Zenon
  <2>4. QED BY <2>1, <2>3, Zenon
<1>12. QED
  <2>. HIDE DEF P
  <2>1. P[0].node = 0 /\ P[0].way = 0
    BY <1>10
  <2>2. \A l \in Level : /\ P[l + 1].node = Child(P[l].node, B[P[l].node])
                          /\ P[l + 1].way = P[l].way + (IF B[P[l].node] THEN Power[l] ELSE 0)
    <3>1. SUFFICES ASSUME NEW l \in Level
                   PROVE  /\ P[l + 1].node = Child(P[l].node, B[P[l].node])
                          /\ P[l + 1].way = P[l].way + (IF B[P[l].node] THEN Power[l] ELSE 0)
      OBVIOUS
    <3>. DEFINE n == Child(P[l].node, B[P[l].node])
                v == P[l].way + (IF B[P[l].node] THEN Power[l] ELSE 0)
    <3>2. P[l + 1] = [node |-> n, way |-> v]
      BY <1>11, Zenon DEF StepOf
    <3>. HIDE DEF n, v
    <3>3. P[l + 1].node = n /\ P[l + 1].way = v
      BY <3>2
    <3>4. QED BY <3>3 DEF n, v
  <2>3. QED BY <2>1, <2>2 DEF P

-----------------------------------------------------------------------------
(* The tree: paths *)

LEMMA Levels ==
  ASSUME NEW l \in Level
  PROVE  LogAssoc \in Nat /\ l \in Nat /\ l \in 0 .. LogAssoc /\ l + 1 \in 0 .. LogAssoc
BY LruAssumption DEF Level

LEMMA ChildFacts ==
  ASSUME NEW m \in Nat, NEW n \in Nat, NEW a \in BOOLEAN, NEW b \in BOOLEAN
  PROVE  /\ Child(m, a) \in Nat /\ Child(m, a) > 0
         /\ Child(m, a) = Child(n, b) => m = n /\ a = b
BY DEF Child

\* A node on the path of a way is a node of the tree.
LEMMA PathInTree ==
  ASSUME NEW w, NEW l \in Level
  PROVE  PathTo(w)[l] \in Node
<1>. DEFINE P == PathTo(w)
            S == {k \in 0 .. LogAssoc : P[k] \in Nat /\ P[k] + 2 <= 2 * Power[k]}
<1>1. LogAssoc \in Nat
  BY LruAssumption
<1>2. 0 \in S
  BY <1>1, PathSteps, PowerSteps
<1>3. ASSUME NEW k \in 0 .. LogAssoc - 1, k \in S PROVE k + 1 \in S
  <2>1. k \in Level /\ k + 1 \in 0 .. LogAssoc
    BY <1>1 DEF Level
  <2>2. P[k + 1] = Child(P[k], BitAt(w, k)) /\ Power[k + 1] = 2 * Power[k] /\ Power[k] \in Nat
    BY <1>1, <2>1, PathSteps, PowerSteps
  <2>. HIDE DEF P
  <2>3. Child(P[k], BitAt(w, k)) <= 2 * P[k] + 2 /\ Child(P[k], BitAt(w, k)) \in Nat
    BY <1>3 DEF Child
  <2>4. QED BY <1>3, <2>1, <2>2, <2>3
<1>4. 0 .. LogAssoc \subseteq S
  <2>. HIDE DEF S
  <2>1. QED BY <1>1, <1>2, <1>3, BoundedInduction
<1>5. P[l] \in Nat /\ P[l] + 2 <= Power[l + 1]
  BY <1>4, Levels, PowerSteps
<1>6. Power[l + 1] <= Power[LogAssoc]
  BY Levels, PowerMonotone
<1>7. QED BY <1>5, <1>6, Levels, PowerSteps DEF Node

\* The paths to v and w are the same on the way to level l.
TogetherTo(v, w, l) ==
  \A j \in 0 .. l - 1 : PathTo(v)[j] = PathTo(w)[j] /\ BitAt(v, j) = BitAt(w, j)

\* Paths that meet are at the same level, and have been the same up to there.
LEMMA PathsMeet ==
  ASSUME NEW v, NEW w, NEW k \in 0 .. LogAssoc, NEW l \in 0 .. LogAssoc,
         PathTo(v)[k] = PathTo(w)[l]
  PROVE  k = l /\ TogetherTo(v, w, k)
<1>. DEFINE P == PathTo(v)
            Q == PathTo(w)
            Same(n) == \A j \in 0 .. n - 1 : P[j] = Q[j] /\ BitAt(v, j) = BitAt(w, j)
            S == {n \in 0 .. LogAssoc : \A m \in 0 .. LogAssoc : P[n] = Q[m] => n = m /\ Same(n)}
<1>1. LogAssoc \in Nat
  BY LruAssumption
<1>2. P[0] = 0 /\ Q[0] = 0 /\ \A n \in 0 .. LogAssoc : P[n] \in Nat /\ Q[n] \in Nat
  BY PathSteps
<1>3. \A n \in 0 .. LogAssoc - 1 : /\ P[n + 1] = Child(P[n], BitAt(v, n))
                                   /\ Q[n + 1] = Child(Q[n], BitAt(w, n))
  BY PathSteps DEF Level
<1>4. \A n : BitAt(v, n) \in BOOLEAN /\ BitAt(w, n) \in BOOLEAN
  BY DEF BitAt
<1>. HIDE DEF P, Q
<1>5. 0 \in S
  <2>1. SUFFICES ASSUME NEW m \in 0 .. LogAssoc, P[0] = Q[m] PROVE m = 0
    BY <1>1
  <2>2. SUFFICES ASSUME m # 0 PROVE FALSE
    OBVIOUS
  <2>3. m - 1 \in 0 .. LogAssoc - 1 /\ (m - 1) + 1 = m /\ m - 1 \in 0 .. LogAssoc
    BY <1>1, <2>2
  <2>4. Q[m] = Child(Q[m - 1], BitAt(w, m - 1))
    BY <1>3, <2>3, Zenon
  <2>5. QED BY <1>2, <1>4, <2>1, <2>3, <2>4, ChildFacts
<1>6. ASSUME NEW n \in 0 .. LogAssoc - 1, n \in S PROVE n + 1 \in S
  <2>1. n \in 0 .. LogAssoc /\ n + 1 \in 0 .. LogAssoc
    BY <1>1
  <2>2. ASSUME NEW m \in 0 .. LogAssoc, P[n + 1] = Q[m] PROVE n + 1 = m /\ Same(n + 1)
    <3>1. P[n + 1] = Child(P[n], BitAt(v, n)) /\ P[n] \in Nat
      BY <1>2, <1>3, <2>1
    <3>2. m # 0
      <4>1. P[n + 1] > 0
        BY <3>1 DEF Child
      <4>2. m = 0 => P[n + 1] = 0
        BY <1>2, <2>2
      <4>3. QED BY <4>1, <4>2
    <3>3. m - 1 \in 0 .. LogAssoc - 1 /\ (m - 1) + 1 = m /\ m - 1 \in 0 .. LogAssoc
      BY <1>1, <3>2
    <3>4. Q[m] = Child(Q[m - 1], BitAt(w, m - 1)) /\ Q[m - 1] \in Nat
      BY <1>2, <1>3, <3>3, Zenon
    <3>5. P[n] = Q[m - 1] /\ BitAt(v, n) = BitAt(w, m - 1)
      <4>. DEFINE a == BitAt(v, n)
                  b == BitAt(w, m - 1)
                  x == P[n]
                  y == Q[m - 1]
      <4>1. a \in BOOLEAN /\ b \in BOOLEAN /\ x \in Nat /\ y \in Nat /\ Child(x, a) = Child(y, b)
        BY <1>4, <2>2, <3>1, <3>4
      <4>. HIDE DEF a, b, x, y
      <4>2. x = y /\ a = b
        BY <4>1, ChildFacts
      <4>3. QED BY <4>2 DEF a, b, x, y
    <3>6. n = m - 1 /\ Same(n)
      BY <1>6, <3>3, <3>5
    <3>7. \A j \in 0 .. (n + 1) - 1 : j = n \/ j \in 0 .. n - 1
      BY <2>1
    <3>8. Same(n + 1)
      BY <3>5, <3>6, <3>7
    <3>9. QED BY <3>3, <3>6, <3>8
  <2>3. QED BY <2>1, <2>2
<1>7. 0 .. LogAssoc \subseteq S
  <2>. HIDE DEF S
  <2>1. QED BY <1>1, <1>5, <1>6, BoundedInduction
<1>8. P[k] = Q[l]
  BY DEF P, Q
<1>9. QED BY <1>7, <1>8 DEF P, Q, TogetherTo

\* log_hit() turns the nodes on a way's path away from it, and no other.
LEMMA LoggedFacts ==
  ASSUME NEW B \in Bits, NEW w
  PROVE  /\ Logged(B, w) \in Bits
         /\ \A l \in Level : Logged(B, w)[PathTo(w)[l]] = ~BitAt(w, l)
         /\ \A n \in Node : (\A l \in Level : PathTo(w)[l] # n) => Logged(B, w)[n] = B[n]
<1>. DEFINE P == PathTo(w)
<1>1. Logged(B, w) = [n \in Node |-> IF \E l \in Level : P[l] = n
                                       THEN \E l \in Level : P[l] = n /\ ~BitAt(w, l)
                                       ELSE B[n]]
  BY DEF Logged
<1>2. ASSUME NEW k \in Level, NEW l \in Level, P[k] = P[l] PROVE k = l
  <2>1. k \in 0 .. LogAssoc /\ l \in 0 .. LogAssoc
    BY Levels
  <2>2. QED BY <1>2, <2>1, PathsMeet, Zenon
<1>3. \A l \in Level : P[l] \in Node
  BY PathInTree
<1>4. \A l : BitAt(w, l) \in BOOLEAN
  BY DEF BitAt
<1>. HIDE DEF P
<1>5. Logged(B, w) \in Bits
  BY <1>1 DEF Bits
<1>6. ASSUME NEW l \in Level PROVE Logged(B, w)[P[l]] = ~BitAt(w, l)
  <2>1. (\E k \in Level : P[k] = P[l] /\ ~BitAt(w, k)) = ~BitAt(w, l)
    BY <1>2, <1>4
  <2>2. Logged(B, w)[P[l]] = \E k \in Level : P[k] = P[l] /\ ~BitAt(w, k)
    BY <1>1, <1>3
  <2>3. QED BY <2>1, <2>2
<1>7. \A n \in Node : (\A l \in Level : P[l] # n) => Logged(B, w)[n] = B[n]
  BY <1>1
<1>8. QED BY <1>5, <1>6, <1>7 DEF P

\* The descent along the bits is on a way's path as long as it has the way's bits.
LEMMA DescentMeetsPath ==
  ASSUME NEW B \in Bits, NEW w \in Nat, NEW l \in 0 .. LogAssoc
  PROVE  /\ l \in Level => Descent(B)[l].node \in Node
         /\ Descent(B)[l].way \in 0 .. Power[l] - 1
         /\ Descent(B)[l].node = PathTo(w)[l] <=> Descent(B)[l].way = w % Power[l]
<1>. DEFINE P == PathTo(w)
            At(k) == Descent(B)[k]
            S == {k \in 0 .. LogAssoc :
                    /\ At(k).node \in Nat /\ At(k).node + 2 <= 2 * Power[k]
                    /\ At(k).way \in 0 .. Power[k] - 1
                    /\ At(k).node = P[k] <=> At(k).way = w % Power[k]}
<1>1. LogAssoc \in Nat
  BY LruAssumption
<1>2. 0 \in S
  <2>1. w % 1 = 0
    OBVIOUS
  <2>2. QED BY <1>1, <2>1, PathSteps, PowerSteps, DescentSteps
<1>3. ASSUME NEW k \in Level, At(k).node \in Nat, At(k).node + 2 <= 2 * Power[k]
      PROVE  At(k).node \in Node
  <2>1. Power[k + 1] = 2 * Power[k] /\ Power[k + 1] <= Power[LogAssoc]
    BY Levels, PowerSteps, PowerMonotone
  <2>2. Power[k] \in Nat /\ Power[LogAssoc] \in Nat
    BY <1>1, Levels, PowerSteps
  <2>3. QED BY <1>3, <2>1, <2>2 DEF Node
<1>4. ASSUME NEW k \in 0 .. LogAssoc - 1, k \in S PROVE k + 1 \in S
  <2>. DEFINE n == At(k).node
              u == At(k).way
              p == Power[k]
              b == BitAt(w, k)
              a == B[n]
              r == w % p
  <2>1. k \in Level /\ k + 1 \in 0 .. LogAssoc
    BY <1>1 DEF Level
  <2>2. n \in Nat /\ n + 2 <= 2 * p /\ u \in 0 .. p - 1 /\ (n = P[k] <=> u = r)
    BY <1>4
  <2>3. p \in Nat \ {0} /\ P[k] \in Nat
    BY <1>1, PowerSteps, PathSteps
  <2>4. b \in BOOLEAN /\ a \in BOOLEAN
    BY <1>3, <2>1, <2>2 DEF BitAt, Bits
  <2>5. At(k + 1).node = Child(n, a) /\ At(k + 1).way = u + (IF a THEN p ELSE 0)
    BY <2>1, DescentSteps
  <2>6. P[k + 1] = Child(P[k], b) /\ Power[k + 1] = 2 * p
    BY <2>1, PathSteps, PowerSteps
  <2>7. w % (2 * p) = r + (IF b THEN p ELSE 0) /\ r \in 0 .. p - 1
    BY <2>3, ModSplit, DivMod DEF BitAt
  <2>. HIDE DEF n, u, p, b, a, r, P, At
  <2>8. At(k + 1).way \in 0 .. 2 * p - 1 /\ (At(k + 1).way = w % (2 * p) <=> u = r /\ a = b)
    BY <2>2, <2>3, <2>4, <2>5, <2>7
  <2>9. At(k + 1).node \in Nat /\ At(k + 1).node + 2 <= 2 * (2 * p)
    BY <2>2, <2>3, <2>4, <2>5 DEF Child
  <2>10. At(k + 1).node = P[k + 1] <=> n = P[k] /\ a = b
    BY <2>2, <2>3, <2>4, <2>5, <2>6, ChildFacts
  <2>11. QED BY <2>1, <2>2, <2>6, <2>8, <2>9, <2>10
<1>5. 0 .. LogAssoc \subseteq S
  <2>. HIDE DEF S
  <2>1. QED BY <1>1, <1>2, <1>4, BoundedInduction
<1>6. QED BY <1>3, <1>5

\* On the way to level k, the descent along the bits has followed the path to w.
Followed(B, w, k) ==
  \A l \in 0 .. k - 1 :
    Descent(B)[l].node = PathTo(w)[l] /\ B[PathTo(w)[l]] = BitAt(w, l)

\* A descent that meets the path to w has followed it.
LEMMA MeetingFollowed ==
  ASSUME NEW B \in Bits, NEW w \in Nat, NEW k \in 0 .. LogAssoc,
         Descent(B)[k].node = PathTo(w)[k]
  PROVE  Followed(B, w, k)
<1>. DEFINE P == PathTo(w)
            N(l) == Descent(B)[l].node
            S == {l \in 0 .. LogAssoc : N(l) = P[l] => Followed(B, w, l)}
<1>1. LogAssoc \in Nat
  BY LruAssumption
<1>2. 0 \in S
  BY <1>1 DEF Followed
<1>3. ASSUME NEW l \in 0 .. LogAssoc - 1, l \in S PROVE l + 1 \in S
  <2>. DEFINE a == B[N(l)]
              b == BitAt(w, l)
  <2>1. l \in Level /\ l \in 0 .. LogAssoc /\ l + 1 \in 0 .. LogAssoc
    BY <1>1 DEF Level
  <2>2. N(l) \in Node /\ N(l) \in Nat /\ P[l] \in Nat /\ a \in BOOLEAN /\ b \in BOOLEAN
    BY <2>1, DescentMeetsPath, PathSteps DEF Bits, Node, BitAt
  <2>3. N(l + 1) = Child(N(l), a) /\ P[l + 1] = Child(P[l], b)
    BY <2>1, DescentSteps, PathSteps
  <2>4. SUFFICES ASSUME N(l + 1) = P[l + 1] PROVE Followed(B, w, l + 1)
    BY <2>1
  <2>5. N(l) = P[l] /\ a = b
    <3>. HIDE DEF N, P, a, b
    <3>1. QED BY <2>2, <2>3, <2>4, ChildFacts
  <2>6. Followed(B, w, l)
    BY <1>3, <2>5
  <2>7. \A j \in 0 .. (l + 1) - 1 : j = l \/ j \in 0 .. l - 1
    BY <1>1
  <2>8. QED BY <2>5, <2>6, <2>7 DEF Followed
<1>4. 0 .. LogAssoc \subseteq S
  <2>. HIDE DEF S
  <2>1. QED BY <1>1, <1>2, <1>3, BoundedInduction
<1>5. QED BY <1>4

\* get_eviction_id() names a way, and every bit on its path points to it.
LEMMA VictimFacts ==
  ASSUME NEW B \in Bits
  PROVE  Victim(B) \in Way /\ Followed(B, Victim(B), LogAssoc)
<1>. DEFINE v == Victim(B)
            p == Power[LogAssoc]
<1>1. LogAssoc \in Nat /\ LogAssoc \in 0 .. LogAssoc
  BY LruAssumption
<1>2. p \in Nat \ {0}
  BY <1>1, PowerSteps
<1>3. v \in 0 .. p - 1
  BY <1>1, DescentMeetsPath DEF Victim
<1>4. v \in Nat /\ v = p * 0 + v
  BY <1>2, <1>3
<1>5. v % p = v
  BY <1>2, <1>3, <1>4, DivModUnique
<1>6. Descent(B)[LogAssoc].node = PathTo(v)[LogAssoc]
  <2>1. Descent(B)[LogAssoc].way = v % p
    BY <1>5 DEF Victim
  <2>. HIDE DEF v, p
  <2>2. QED BY <1>1, <1>4, <2>1, DescentMeetsPath DEF p
<1>7. QED BY <1>1, <1>3, <1>4, <1>6, MeetingFollowed DEF Way

\* TreeLRUPolicy, a tree for each line, is a policy as SimpleCache assumes one: its
\* states stay what they are, and a victim is a way.
THEOREM TreeIsAPolicy ==
  ASSUME NEW Index
  PROVE  /\ [i \in Index |-> Cold] \in [Index -> Bits]
         /\ \A p \in [Index -> Bits], i \in Index :
              /\ Victim(p[i]) \in Way
              /\ \A w \in Way : [p EXCEPT ![i] = Logged(@, w)] \in [Index -> Bits]
<1>1. Cold \in Bits
  BY DEF Cold, Bits
<1>2. \A B \in Bits : Victim(B) \in Way /\ \A w \in Way : Logged(B, w) \in Bits
  BY VictimFacts, LoggedFacts
<1>3. QED BY <1>1, <1>2

-----------------------------------------------------------------------------
(* The tree: the ways used last *)

\* The levels at which the bits point towards a way.
Toward(B, w) == {l \in Level : B[PathTo(w)[l]] = BitAt(w, l)}

\* Using w turns every level of its path away, and of any other way's path at
\* most one level towards that way: the one where the two paths part.
LEMMA TowardAfterUse ==
  ASSUME NEW B \in Bits, NEW v, NEW w
  PROVE  /\ Toward(Logged(B, w), w) = {}
         /\ \E d : Toward(Logged(B, w), v) \subseteq Toward(B, v) \cup {d}
<1>. DEFINE C == Logged(B, w)
            New == Toward(C, v) \ Toward(B, v)
<1>1. \A l : BitAt(w, l) \in BOOLEAN /\ BitAt(v, l) \in BOOLEAN
  BY DEF BitAt
<1>2. \A l \in Level : C[PathTo(w)[l]] = ~BitAt(w, l)
  BY LoggedFacts
<1>3. Toward(C, w) = {}
  <2>. HIDE DEF C
  <2>1. QED BY <1>1, <1>2 DEF Toward
<1>4. ASSUME NEW l \in New
      PROVE  l \in Level /\ TogetherTo(v, w, l) /\ BitAt(v, l) # BitAt(w, l)
  <2>1. /\ l \in Level /\ l \in 0 .. LogAssoc
        /\ C[PathTo(v)[l]] = BitAt(v, l) /\ B[PathTo(v)[l]] # BitAt(v, l)
    BY Levels DEF Toward
  <2>2. PICK k \in Level : PathTo(w)[k] = PathTo(v)[l]
    BY <2>1, PathInTree, LoggedFacts
  <2>3. k \in 0 .. LogAssoc
    BY Levels
  <2>4. l = k /\ TogetherTo(v, w, l)
    BY <2>1, <2>2, <2>3, PathsMeet, Zenon
  <2>5. C[PathTo(v)[l]] = ~BitAt(w, l)
    BY <1>2, <2>1, <2>2, <2>4
  <2>. HIDE DEF C
  <2>6. QED BY <1>1, <2>1, <2>4, <2>5
<1>5. ASSUME NEW k \in New, NEW l \in New PROVE ~(k < l)
  BY <1>4, Levels DEF TogetherTo, Level
<1>6. \A k, l \in New : k = l
  BY <1>4, <1>5, LruAssumption DEF Level
<1>7. \E d : New \subseteq {d}
  <2>. HIDE DEF New
  <2>1. CASE New = {}
    BY <2>1
  <2>2. ASSUME NEW d \in New PROVE New \subseteq {d}
    BY <1>6
  <2>3. QED BY <2>1, <2>2
<1>8. \E d : Toward(C, v) \subseteq Toward(B, v) \cup {d}
  BY <1>7
<1>9. QED BY <1>3, <1>8

\* How many levels of its path point to w.
LevelsToward(B, w) == Cardinality(Toward(B, w))

LEMMA TowardFinite ==
  ASSUME NEW B, NEW w
  PROVE  IsFiniteSet(Toward(B, w)) /\ LevelsToward(B, w) \in Nat
<1>1. LogAssoc \in Nat /\ IsFiniteSet(Level)
  BY LruAssumption, FS_Interval DEF Level
<1>2. Toward(B, w) \in SUBSET Level
  BY DEF Toward
<1>3. IsFiniteSet(Toward(B, w))
  BY <1>1, <1>2, FS_Subset
<1>4. QED BY <1>3, FS_CardinalityType DEF LevelsToward

LEMMA CountAfterUse ==
  ASSUME NEW B \in Bits, NEW v, NEW w
  PROVE  /\ LevelsToward(Logged(B, w), w) = 0
         /\ LevelsToward(Logged(B, w), v) <= LevelsToward(B, v) + 1
<1>. DEFINE T == Toward(B, v)
            U == Toward(Logged(B, w), v)
<1>1. LevelsToward(Logged(B, w), w) = 0
  BY TowardAfterUse, FS_EmptySet DEF LevelsToward
<1>2. PICK d : U \subseteq T \cup {d}
  BY TowardAfterUse
<1>3. IsFiniteSet(T) /\ Cardinality(T) \in Nat /\ Cardinality(U) \in Nat
  BY TowardFinite DEF LevelsToward
<1>. HIDE DEF T, U
<1>4. IsFiniteSet(T \cup {d}) /\ Cardinality(T \cup {d}) <= Cardinality(T) + 1
  BY <1>3, FS_AddElement
<1>5. Cardinality(U) <= Cardinality(T \cup {d}) /\ Cardinality(T \cup {d}) \in Nat
  BY <1>2, <1>4, FS_Subset, FS_CardinalityType
<1>6. Cardinality(U) <= Cardinality(T) + 1
  BY <1>3, <1>4, <1>5
<1>7. QED BY <1>1, <1>6 DEF LevelsToward, T, U

\* The way used i-th last: at most i - 1 levels of its path have been turned back
\* towards it since.
LruInv ==
  /\ bits \in Bits
  /\ recent \in Seq(Way) /\ Len(recent) <= LogAssoc
  /\ \A i \in 1 .. Len(recent) : LevelsToward(bits, recent[i]) <= i - 1

LEMMA UsePreservesLruInv ==
  ASSUME LruInv, NEW w \in Way, Use(w)
  PROVE  LruInv'
<1>. DEFINE all == <<w>> \o recent
            n == IF Len(all) < LogAssoc THEN Len(all) ELSE LogAssoc
<1>1. LogAssoc \in Nat /\ recent \in Seq(Way) /\ Len(recent) \in Nat /\ bits \in Bits
  BY LruAssumption DEF LruInv
<1>2. bits' = Logged(bits, w) /\ recent' = SubSeq(all, 1, n)
  BY DEF Use, Remembered
<1>3. all \in Seq(Way) /\ Len(all) = Len(recent) + 1 /\ all[1] = w
  BY <1>1
<1>4. \A i \in 1 .. Len(recent) : all[i + 1] = recent[i]
  BY <1>1
<1>. HIDE DEF all
<1>5. n \in 0 .. Len(all) /\ n <= LogAssoc
  BY <1>1, <1>3
<1>. HIDE DEF n
<1>6. recent' \in Seq(Way) /\ Len(recent') = n /\ \A i \in 1 .. n : recent'[i] = all[i]
  BY <1>2, <1>3, <1>5
<1>7. bits' \in Bits
  BY <1>1, <1>2, LoggedFacts
<1>8. ASSUME NEW i \in 1 .. n PROVE LevelsToward(bits', recent'[i]) <= i - 1
  <2>1. CASE i = 1
    BY <1>1, <1>2, <1>3, <1>6, <2>1, CountAfterUse
  <2>2. CASE i # 1
    <3>1. i - 1 \in 1 .. Len(recent) /\ (i - 1) + 1 = i
      BY <1>1, <1>3, <1>5, <2>2
    <3>. DEFINE v == recent[i - 1]
    <3>2. recent'[i] = v
      BY <1>4, <1>6, <3>1
    <3>3. LevelsToward(bits, v) <= (i - 1) - 1
      BY <3>1 DEF LruInv
    <3>. HIDE DEF v
    <3>4. LevelsToward(bits', v) <= LevelsToward(bits, v) + 1
      BY <1>1, <1>2, CountAfterUse
    <3>5. LevelsToward(bits, v) \in Nat /\ LevelsToward(bits', v) \in Nat
      BY TowardFinite
    <3>6. QED BY <3>2, <3>3, <3>4, <3>5
  <2>3. QED BY <2>1, <2>2
<1>9. QED BY <1>5, <1>6, <1>7, <1>8 DEF LruInv

LEMMA LruInvHolds == LruSpec => []LruInv
<1>1. LruInit => LruInv
  BY LruAssumption DEF LruInit, LruInv, Bits, Cold
<1>2. LruInv /\ [LruNext]_lruVars => LruInv'
  <2>1. SUFFICES ASSUME LruInv, [LruNext]_lruVars PROVE LruInv'
    OBVIOUS
  <2>2. CASE UNCHANGED lruVars
    BY <2>1, <2>2 DEF lruVars, LruInv
  <2>3. CASE Hit
    BY <2>1, <2>3, UsePreservesLruInv DEF Hit
  <2>4. CASE Fill
    BY <2>1, <2>4, UsePreservesLruInv, VictimFacts DEF Fill, LruInv
  <2>5. QED BY <2>1, <2>2, <2>3, <2>4 DEF LruNext
<1>3. QED BY <1>1, <1>2, PTL DEF LruSpec

\* get_eviction_id() names none of the last LogAssoc ways given to log_hit(), on lines
\* of any size: all LogAssoc levels of the victim's path point to it, and of the path
\* of one of those ways, fewer do.
THEOREM VictimsAreNotRecent == LruSpec => []RecentlyUsedSurvive
<1>1. LruInv => RecentlyUsedSurvive
  <2>1. SUFFICES ASSUME LruInv, NEW i \in 1 .. Len(recent), recent[i] = Victim(bits) PROVE FALSE
    BY DEF RecentlyUsedSurvive, LruInv
  <2>2. LogAssoc \in Nat /\ Len(recent) \in Nat /\ Len(recent) <= LogAssoc /\ bits \in Bits
    BY <2>1, LruAssumption DEF LruInv
  <2>3. Toward(bits, Victim(bits)) = 0 .. LogAssoc - 1
    BY <2>2, VictimFacts DEF Toward, Followed, Level
  <2>4. LevelsToward(bits, Victim(bits)) = LogAssoc
    BY <2>2, <2>3, FS_Interval DEF LevelsToward
  <2>5. QED BY <2>1, <2>2, <2>4 DEF LruInv
<1>2. QED BY <1>1, LruInvHolds, PTL

-----------------------------------------------------------------------------
(* The tree: a series of fills *)

\* The states of the line in a series of fills.
LEMMA FilledSteps ==
  ASSUME bits \in Bits
  PROVE  /\ Filled[0] = bits
         /\ \A n \in Way : Filled[n] \in Bits
         /\ \A n \in 0 .. Power[LogAssoc] - 2 :
              Filled[n + 1] = Logged(Filled[n], Victim(Filled[n]))
<1>. DEFINE m == Power[LogAssoc] - 1
            StepOf(B) == Logged(B, Victim(B))
            g == [p \in (0 .. m - 1) \X Bits |-> StepOf(p[2])]
            Body(f) == [n \in Way |-> IF n = 0 THEN bits ELSE StepOf(f[n - 1])]
<1>1. m \in Nat /\ Way = 0 .. m /\ m - 1 = Power[LogAssoc] - 2
  BY PowerSteps, LruAssumption DEF Way
<1>2. \A B \in Bits : StepOf(B) \in Bits
  BY LoggedFacts
<1>. HIDE DEF m, StepOf
<1>3. g \in [(0 .. m - 1) \X Bits -> Bits]
  BY <1>2
<1>4. PICK f : Iterates(f, Bits, m, bits, g)
  <2>. HIDE DEF g
  <2>1. QED BY <1>1, <1>3, IterationExists
<1>5. f \in [0 .. m -> Bits] /\ f[0] = bits
  BY <1>4, Zenon DEF Iterates
<1>6. ASSUME NEW n \in 0 .. m - 1 PROVE f[n + 1] = StepOf(f[n])
  <2>1. f[n] \in Bits
    BY <1>1, <1>5
  <2>2. f[n + 1] = g[<<n, f[n]>>]
    BY <1>4 DEF Iterates
  <2>3. QED BY <2>1, <2>2
<1>. HIDE DEF g
<1>7. f = Body(f)
  <2>1. ASSUME NEW n \in 0 .. m, n # 0 PROVE f[n] = StepOf(f[n - 1])
    <3>1. n - 1 \in 0 .. m - 1 /\ (n - 1) + 1 = n
      BY <1>1, <2>1
    <3>2. QED BY <1>6, <3>1, Zenon
  <2>2. QED BY <1>1, <1>5, <2>1
<1>8. Filled = CHOOSE h : h = Body(h)
  BY Zenon DEF Filled, StepOf
<1>9. Filled = Body(Filled)
  <2>. HIDE DEF Body
  <2>1. QED BY <1>7, <1>8, Zenon
<1>10. Filled[0] = bits
  BY <1>1, <1>9
<1>11. ASSUME NEW n \in 0 .. m - 1 PROVE Filled[n + 1] = StepOf(Filled[n])
  <2>1. n + 1 \in Way /\ n + 1 # 0 /\ (n + 1) - 1 = n
    BY <1>1
  <2>2. \A k \in Way : k # 0 => Filled[k] = StepOf(Filled[k - 1])
    BY <1>9
  <2>3. \A k \in Way : \A j : k # 0 /\ k - 1 = j => Filled[k] = StepOf(Filled[j])
    BY <2>2, Zenon
  <2>4. QED BY <2>1, <2>3, Zenon
<1>12. \A n \in Way : Filled[n] \in Bits
  <2>. DEFINE S == {n \in Way : Filled[n] \in Bits}
  <2>1. 0 \in S /\ \A n \in 0 .. m - 1 : n \in S => n + 1 \in S
    BY <1>1, <1>2, <1>10, <1>11
  <2>. HIDE DEF S
  <2>2. 0 .. m \subseteq S
    BY <1>1, <2>1, BoundedInduction
  <2>3. QED BY <1>1, <2>2 DEF S
<1>13. QED BY <1>1, <1>10, <1>11, <1>12 DEF StepOf

\* A fill of the victim turns the nodes the descent went through, and no other.
LEMMA FillTurns ==
  ASSUME NEW B \in Bits, NEW w \in Nat, NEW l \in Level
  PROVE  Logged(B, Victim(B))[PathTo(w)[l]] =
           IF Descent(B)[l].node = PathTo(w)[l] THEN ~B[PathTo(w)[l]] ELSE B[PathTo(w)[l]]
<1>. DEFINE v == Victim(B)
            x == PathTo(w)[l]
<1>1. x \in Node
  BY PathInTree
<1>2. \A k \in Level : Descent(B)[k].node = PathTo(v)[k] /\ B[PathTo(v)[k]] = BitAt(v, k)
  BY VictimFacts DEF Followed, Level
<1>. HIDE DEF v
<1>3. CASE Descent(B)[l].node = x
  <2>1. PathTo(v)[l] = x /\ B[x] = BitAt(v, l)
    BY <1>2, <1>3
  <2>2. Logged(B, v)[PathTo(v)[l]] = ~BitAt(v, l)
    BY LoggedFacts
  <2>3. Logged(B, v)[x] = ~B[x]
    BY <2>1, <2>2
  <2>4. QED BY <1>3, <2>3 DEF v
<1>4. CASE Descent(B)[l].node # x
  <2>1. ASSUME NEW k \in Level, PathTo(v)[k] = x PROVE FALSE
    <3>1. k \in 0 .. LogAssoc /\ l \in 0 .. LogAssoc
      BY Levels
    <3>. HIDE DEF x
    <3>2. k = l /\ TogetherTo(v, w, k)
      <4>1. PathTo(v)[k] = PathTo(w)[l]
        BY <2>1 DEF x
      <4>2. QED BY <3>1, <4>1, PathsMeet, Zenon
    <3>3. QED BY <1>2, <1>4, <2>1, <3>2
  <2>2. Logged(B, v)[x] = B[x]
    BY <1>1, <2>1, LoggedFacts
  <2>3. QED BY <1>4, <2>2 DEF v
<1>5. QED BY <1>3, <1>4

\* The fill after n others goes through the node at level l of the path to w.
Passes(n, w, l) == Descent(Filled[n])[l].node = PathTo(w)[l]

\* A node's bit changes with each fill that goes through it.
LEMMA BitsCount ==
  ASSUME bits \in Bits, NEW w \in Nat, NEW l \in Level, NEW c \in 0 .. Power[l] - 1,
         \A n \in Way : Passes(n, w, l) <=> n % Power[l] = c,
         NEW n \in Way
  PROVE  Filled[n][PathTo(w)[l]] = IF Count(n, c, Power[l]) % 2 = 1
                                     THEN ~bits[PathTo(w)[l]] ELSE bits[PathTo(w)[l]]
<1>. DEFINE p == Power[l]
            x == PathTo(w)[l]
            m == Power[LogAssoc] - 1
            S == {k \in Way : Filled[k][x] = IF Count(k, c, p) % 2 = 1 THEN ~bits[x] ELSE bits[x]}
<1>1. m \in Nat /\ Way = 0 .. m /\ m - 1 = Power[LogAssoc] - 2
  BY PowerSteps, LruAssumption DEF Way
<1>2. p \in Nat \ {0} /\ x \in Node
  BY Levels, PowerSteps, PathInTree
<1>3. \A k \in Way : Filled[k][x] \in BOOLEAN
  BY <1>2, FilledSteps DEF Bits
<1>4. 0 \in S
  <2>1. Count(0, c, p) = 0
    BY <1>2, CountStep
  <2>2. QED BY <1>1, <2>1, FilledSteps
<1>5. ASSUME NEW k \in 0 .. m - 1, k \in S PROVE k + 1 \in S
  <2>1. k \in Way /\ k \in Nat /\ k + 1 \in Way
    BY <1>1
  <2>2. Filled[k + 1][x] = IF k % p = c THEN ~Filled[k][x] ELSE Filled[k][x]
    <3>1. Filled[k + 1] = Logged(Filled[k], Victim(Filled[k])) /\ Filled[k] \in Bits
      BY <1>1, <2>1, FilledSteps
    <3>2. Logged(Filled[k], Victim(Filled[k]))[x] =
            IF Descent(Filled[k])[l].node = x THEN ~Filled[k][x] ELSE Filled[k][x]
      BY <3>1, FillTurns
    <3>3. Descent(Filled[k])[l].node = x <=> k % p = c
      BY <2>1 DEF Passes
    <3>4. QED BY <3>1, <3>2, <3>3
  <2>3. /\ Count(k, c, p) \in Nat
        /\ Count(k + 1, c, p) = IF k % p = c THEN Count(k, c, p) + 1 ELSE Count(k, c, p)
    BY <1>2, <2>1, CountStep
  <2>. DEFINE a == Count(k, c, p)
              b == Count(k + 1, c, p)
              y == Filled[k][x]
              z == Filled[k + 1][x]
              e == k % p = c
              s == bits[x]
  <2>4. a \in Nat /\ b = (IF e THEN a + 1 ELSE a) /\ z = (IF e THEN ~y ELSE y)
    BY <2>2, <2>3
  <2>5. y = IF a % 2 = 1 THEN ~s ELSE s
    BY <1>5
  <2>6. s \in BOOLEAN /\ e \in BOOLEAN
    BY <1>2 DEF Bits
  <2>. HIDE DEF a, b, y, z, e, s
  <2>7. (a + 1) % 2 = 1 <=> ~(a % 2 = 1)
    BY <2>4
  <2>8. z = IF b % 2 = 1 THEN ~s ELSE s
    BY <2>4, <2>5, <2>6, <2>7
  <2>9. QED BY <2>1, <2>8 DEF b, z, s
<1>6. 0 .. m \subseteq S
  <2>. HIDE DEF S, m
  <2>1. QED BY <1>1, <1>4, <1>5, BoundedInduction
<1>7. QED BY <1>1, <1>6

\* A node at level l is passed by every Power[l]-th fill.
LEMMA EveryNodeInTurn ==
  ASSUME bits \in Bits, NEW w \in Nat, NEW l \in 0 .. LogAssoc
  PROVE  \E c \in 0 .. Power[l] - 1 : \A n \in Way : Passes(n, w, l) <=> n % Power[l] = c
<1>. DEFINE Turn(k, c) == \A n \in Way : Passes(n, w, k) <=> n % Power[k] = c
            S == {k \in 0 .. LogAssoc : \E c \in 0 .. Power[k] - 1 : Turn(k, c)}
<1>1. LogAssoc \in Nat /\ Way \subseteq Nat
  BY LruAssumption DEF Way
<1>2. 0 \in S
  <2>1. 0 \in 0 .. Power[0] - 1
    BY PowerSteps
  <2>2. ASSUME NEW n \in Way PROVE Passes(n, w, 0) /\ n % Power[0] = 0
    <3>1. n % 1 = 0
      BY <1>1
    <3>2. QED BY <3>1, DescentSteps, PathSteps, PowerSteps DEF Passes
  <2>3. Turn(0, 0)
    BY <2>2
  <2>. HIDE DEF Turn
  <2>4. QED BY <1>1, <2>1, <2>3
<1>3. ASSUME NEW k \in 0 .. LogAssoc - 1, k \in S PROVE k + 1 \in S
  <2>. DEFINE p == Power[k]
              x == PathTo(w)[k]
              b == BitAt(w, k)
              s == bits[x]
  <2>1. k \in Level /\ k \in 0 .. LogAssoc /\ k + 1 \in 0 .. LogAssoc
    BY <1>1 DEF Level
  <2>2. PICK c \in 0 .. p - 1 : Turn(k, c)
    BY <1>3
  <2>3. p \in Nat \ {0} /\ Power[k + 1] = 2 * p /\ x \in Node /\ x \in Nat
    BY <2>1, PowerSteps, PathInTree, PathSteps
  <2>4. b \in BOOLEAN /\ s \in BOOLEAN
    BY <2>3 DEF BitAt, Bits
  <2>. DEFINE d == c + (IF b = s THEN 0 ELSE p)
  <2>5. d \in 0 .. 2 * p - 1
    BY <2>3
  <2>6. ASSUME NEW n \in Way PROVE Passes(n, w, k + 1) <=> n % (2 * p) = d
    <3>. DEFINE B == Filled[n]
                y == Descent(B)[k].node
                a == B[y]
                q == n \div p
                r == n % p
    <3>1. n \in Nat /\ B \in Bits
      BY <1>1, FilledSteps
    <3>2. y \in Node /\ y \in Nat /\ a \in BOOLEAN
      <4>. HIDE DEF B
      <4>1. y \in Node
        BY <2>1, <3>1, DescentMeetsPath
      <4>2. QED BY <3>1, <4>1 DEF Node, Bits
    <3>3. Descent(B)[k + 1].node = Child(y, a) /\ PathTo(w)[k + 1] = Child(x, b)
      BY <2>1, DescentSteps, PathSteps
    <3>4. y = x <=> r = c
      BY <2>2 DEF Passes
    <3>5. B[x] = IF Count(n, c, p) % 2 = 1 THEN ~s ELSE s
      BY <2>1, <2>2, BitsCount
    <3>6. r = c => Count(n, c, p) = q
      BY <2>3, <3>1, CountStep
    <3>7. n % (2 * p) = r + (IF q % 2 = 1 THEN p ELSE 0) /\ r \in 0 .. p - 1
      BY <2>3, <3>1, ModSplit, DivMod
    <3>8. Passes(n, w, k + 1) <=> Child(y, a) = Child(x, b)
      BY <3>3 DEF Passes
    <3>9. y = x => a = B[x]
      OBVIOUS
    <3>. HIDE DEF B, y, a, q, r, x, b, s, p
    <3>10. Child(y, a) = Child(x, b) <=> y = x /\ a = b
      BY <2>3, <2>4, <3>2, ChildFacts
    <3>11. n % (2 * p) = d <=> r = c /\ (q % 2 = 1 <=> b # s)
      BY <2>2, <2>3, <2>4, <3>7
    <3>12. r = c => (a = b <=> (q % 2 = 1 <=> b # s))
      BY <2>4, <3>2, <3>4, <3>5, <3>6, <3>9
    <3>13. QED BY <3>4, <3>8, <3>10, <3>11, <3>12
  <2>7. Turn(k + 1, d)
    BY <2>3, <2>6
  <2>. HIDE DEF Turn, d
  <2>8. QED BY <2>1, <2>3, <2>5, <2>7
<1>4. 0 .. LogAssoc \subseteq S
  <2>. HIDE DEF S
  <2>1. QED BY <1>1, <1>2, <1>3, BoundedInduction
<1>5. QED BY <1>4

\* As many fills of the victim as there are ways use every way, from every state that
\* log_hit() and get_eviction_id() can reach, on lines of any size: a node at level l
\* is passed by every Power[l]-th fill, so each leaf by exactly one.
THEOREM FillsUseEveryWay == LruSpec => []FillsSweepTheLine
<1>1. LruInv => FillsSweepTheLine
  <2>. DEFINE p == Power[LogAssoc]
  <2>1. SUFFICES ASSUME bits \in Bits, NEW w \in Way PROVE \E n \in Way : Victim(Filled[n]) = w
    BY DEF LruInv, FillsSweepTheLine
  <2>2. LogAssoc \in Nat /\ LogAssoc \in 0 .. LogAssoc /\ p \in Nat \ {0} /\ Way = 0 .. p - 1
    BY LruAssumption, PowerSteps DEF Way
  <2>3. w \in Nat
    BY <2>2
  <2>4. PICK c \in Way : \A n \in Way : Passes(n, w, LogAssoc) <=> n % p = c
    BY <2>1, <2>2, <2>3, EveryNodeInTurn
  <2>5. \A v \in Way : v % p = v
    <3>1. SUFFICES ASSUME NEW v \in Way PROVE v % p = v
      OBVIOUS
    <3>2. v \in 0 .. p - 1 /\ v \in Nat /\ v = p * 0 + v
      BY <2>2
    <3>. HIDE DEF p
    <3>3. QED BY <2>2, <3>2, DivModUnique
  <2>6. Descent(Filled[c])[LogAssoc].node = PathTo(w)[LogAssoc]
    BY <2>4, <2>5 DEF Passes
  <2>7. Descent(Filled[c])[LogAssoc].way = w % p
    BY <2>1, <2>2, <2>3, <2>6, FilledSteps, DescentMeetsPath
  <2>8. QED BY <2>4, <2>5, <2>7 DEF Victim
<1>2. QED BY <1>1, LruInvHolds, PTL
=============================================================================
