------------------------- MODULE OooRefinementProofs -------------------------
(***************************************************************************)
(* The out-of-order core implements the sequential machine (IsaMachine) on *)
(* data: whatever the program, the capacities and the pipes, an            *)
(* instruction commits with the result it would have had if the            *)
(* instructions before it, and no other, had been executed one by one.     *)
(*                                                                         *)
(* The core does not compare the addresses of loads and stores, so this is *)
(* a theorem of programs that keep the cells they store into to themselves:*)
(* C is the set of these cells, Separated(C) what is asked of the program, *)
(* and m below the part of memory outside of C, which never changes.       *)
(*                                                                         *)
(* The invariant relates each copy of an instruction in flight to the word *)
(* of m it was fetched from, and each operand to the value the last older  *)
(* writer of its register gives it.                                        *)
(*                                                                         *)
(* On straight-line code and loops (OneLoop) which instruction commits is  *)
(* right too: the reorder buffer holds the instructions that control flow  *)
(* leads through from the program counter of the sequential machine on,    *)
(* and the frontend the words behind them, or nothing that decodes while   *)
(* the youngest instruction is a branch whose target is not known.         *)
(*                                                                         *)
(* Memory itself is right once no store is on its way, if two stores to    *)
(* one cell are executed in the order of the program (StoresInOrder).      *)
(***************************************************************************)
EXTENDS OooRefinement, SimpleOOOProofs

-----------------------------------------------------------------------------
(* The program *)

\* No word fetched from C is an instruction, stores go to C and loads read elsewhere.
Separated(C) ==
  /\ \A f \in ifId.staged \cup ifId.active : f.pc \in C => Decode[f.word] = {}
  /\ \A x \in aluMem.staged \cup aluMem.active :
       /\ IsStore(x.instr.op) => x.result \in C
       /\ IsLoad(x.instr.op) => x.result \notin C

\* What is left of a memory outside of C.
Rom(C, am) == [a \in Addr \ C |-> am[a]]

-----------------------------------------------------------------------------
(* What an instruction reads, against a reorder buffer b and registers g *)

\* How many instructions in flight are older than the one with tag t.
Age(b, t) == AgeRank(RobSize, b, t)

\* The instructions in flight that write r, and those older than t.
WritersIn(b, r) == {t \in Tag : \E e \in b.data[t] : WritesTo(e, r)}
Older(b, t, r)  == {u \in WritersIn(b, r) : Age(b, u) < Age(b, t)}

\* u is the last instruction before t that writes r.
Source(b, u, t, r) == u \in Older(b, t, r) /\ \A w \in Older(b, t, r) : Age(b, w) <= Age(b, u)

\* v is the value of r just before t.
Before(b, g, v, t, r) ==
  \/ Older(b, t, r) = {} /\ v = g[r]
  \/ \E u \in Tag : Source(b, u, t, r) /\ v \in TagResult(b, u)

\* The operand x of t is that value, or waits for the instruction that will give it.
ReadsReg(b, g, x, t, r) ==
  \/ x.wait = {} /\ Before(b, g, x.val, t, r)
  \/ \E u \in Tag : x.wait = {u} /\ Source(b, u, t, r)

-----------------------------------------------------------------------------
(* What is in flight is right *)

\* The station or ALU entry x is the instruction its tag says, with its operands.
Carries(b, g, m, x) ==
  \E e \in b.data[x.tag] : \E i \in Decode[m[e.pc]] :
    /\ x.op = i.op /\ x.pc = e.pc /\ x.imm = i.imm
    /\ ReadsReg(b, g, x.rs1, x.tag, i.rs1)
    /\ ReadsReg(b, g, x.rs2, x.tag, i.rs2)

\* v is the result of instruction i at p on the operands x and y.
Yields(C, m, i, p, x, y, v) ==
  LET a == Wrap(x + i.imm)
  IN /\ IsStore(i.op) => a \in C /\ v = a
     /\ IsLoad(i.op) => a \in Addr \ C /\ v = m[a]
     /\ ~AccessesMemory(i.op) => v = Compute(i.op, p, x, y, i.imm)

\* v is the result of i, at p and with tag t, on the operands it has to read.
Computed(C, b, g, m, i, p, t, v) ==
  \E x, y \in Word : Before(b, g, x, t, i.rs1) /\ Before(b, g, y, t, i.rs2) /\ Yields(C, m, i, p, x, y, v)

\* Slot t holds an instruction of the program and, once it has one, its result.
EntryRight(C, b, g, m, t) ==
  \A e \in b.data[t] :
    /\ e.pc \in Addr \ C
    /\ \E i \in Decode[m[e.pc]] :
         /\ e.format = FormatOf(i.op) /\ e.rd = i.rd
         /\ \A v \in e.result : Computed(C, b, g, m, i, e.pc, t, v)

\* A load on its way to memory has its address, one on its way back the word there.
LoadAddr(x) == Wrap(x.instr.rs1.val + x.instr.imm)
Addressed(b, g, m, x) ==
  /\ x.instr.tag = x.tag /\ Waits(x.instr) = {} /\ Carries(b, g, m, x.instr)
  /\ x.result = LoadAddr(x)
Loaded(C, b, g, m, x) ==
  /\ x.instr.tag = x.tag /\ Waits(x.instr) = {} /\ Carries(b, g, m, x.instr)
  /\ LoadAddr(x) \in Addr \ C /\ x.result = m[LoadAddr(x)]

FrontRight(C, m) ==
  /\ \A f \in ifId.staged \cup ifId.active : f.pc \in Addr /\ (f.pc \notin C => f.word = m[f.pc])
  /\ \A d \in idRs.staged \cup idRs.active : d.pc \in Addr \ C /\ d.instr \in Decode[m[d.pc]]
RobRight(C, m)  == \A t \in Tag : EntryRight(C, rob, regs, m, t)
StationRight(m) == \A j \in DOMAIN rs : Carries(rob, regs, m, rs[j])
AluRight(m)     == \A j \in DOMAIN alu.inProgress : Carries(rob, regs, m, alu.inProgress[j].instr)
LoadsRight(C, m) ==
  /\ \A x \in aluMem.staged \cup aluMem.active : IsLoad(x.instr.op) => Addressed(rob, regs, m, x)
  /\ \A x \in memRob.staged \cup memRob.active : IsLoad(x.instr.op) => Loaded(C, rob, regs, m, x)

InFlight(C, m) ==
  Rom(C, mem) = m /\ FrontRight(C, m) /\ RobRight(C, m) /\ StationRight(m) /\ AluRight(m)
  /\ LoadsRight(C, m)

DataInv(C) ==
  amem \in [Addr -> Word] /\ \E m \in {Rom(C, amem)} : InFlight(C, m)

-----------------------------------------------------------------------------
(* The age order of tags, in any buffer *)

RobBuffer == BufferOf(RobSize, RobEntry)

LEMMA AgeFacts ==
  ASSUME NEW b, b.head \in Tag, NEW t \in Tag
  PROVE  /\ Age(b, t) \in 0 .. RobSize - 1
         /\ Age(b, t) = 0 <=> t = b.head
         /\ \A u \in Tag : Age(b, t) = Age(b, u) => t = u
<1>1. /\ RobSize \in Nat \ {0} /\ Tag = 0 .. RobSize - 1
      /\ b.head \in 0 .. RobSize - 1 /\ t \in 0 .. RobSize - 1
  BY OooAssumption DEF Tag, Slots
<1>2. Age(b, t) \in 0 .. RobSize - 1 /\ (Age(b, t) = 0 <=> t = b.head)
  BY <1>1 DEF Age, AgeRank
<1>3. ASSUME NEW u \in 0 .. RobSize - 1, Age(b, t) = Age(b, u) PROVE t = u
  BY <1>1, <1>3 DEF Age, AgeRank
<1>4. QED BY <1>1, <1>2, <1>3

\* A set of numbers below a bound has a largest: the one whose interval up to the
\* bound holds no other of them.
LEMMA LargestExists ==
  ASSUME NEW n \in Nat, NEW S \in SUBSET (0 .. n), S # {}
  PROVE  \E x \in S : \A y \in S : y <= x
<1> DEFINE U  == 0 .. n
           up == {x .. n : x \in S}
<1>1. up \subseteq FiniteSubsetsOf(U) /\ up # {}
  <2>1. IsFiniteSet(U)
    BY FS_Interval
  <2>2. ASSUME NEW p \in S PROVE p .. n \in SUBSET U
    OBVIOUS
  <2>3. FiniteSubsetsOf(U) = SUBSET U
    BY <2>1, FS_FiniteSubsetsOfFinite
  <2>4. up # {}
    OBVIOUS
  <2>5. up \subseteq SUBSET U
    BY <2>2
  <2>. HIDE DEF U, up
  <2>6. QED BY <2>3, <2>4, <2>5
<1>2. IsWellFoundedOn(StrictSubsetOrdering(U), FiniteSubsetsOf(U))
  BY FS_StrictSubsetOrderingWellFounded
<1>3. PICK z \in up : \A y \in up : <<y, z>> \notin StrictSubsetOrdering(U)
  <2>. HIDE DEF up, U
  <2>1. QED BY <1>1, <1>2, WFMin
<1>4. PICK x \in S : z = x .. n
  OBVIOUS
<1>5. ASSUME NEW y \in S PROVE y <= x
  <2>1. x \in Nat /\ y \in Nat /\ x <= n /\ y <= n /\ x .. n \in SUBSET U /\ y .. n \in SUBSET U
    OBVIOUS
  <2>2. <<y .. n, x .. n>> \notin StrictSubsetOrdering(U)
    BY <1>3, <1>4
  <2>3. ~(y .. n \subseteq x .. n /\ y .. n # x .. n)
    BY <2>1, <2>2 DEF StrictSubsetOrdering
  <2>4. CASE x < y
    <3>1. y .. n \subseteq x .. n
      BY <2>1, <2>4
    <3>2. x \in x .. n /\ x \notin y .. n
      BY <2>1, <2>4
    <3>3. QED BY <2>3, <3>1, <3>2
  <2>5. QED BY <2>1, <2>4
<1>6. QED BY <1>5

\* Where there are writers, there is a youngest one.
LEMMA YoungestExists ==
  ASSUME NEW b, b.head \in Tag, NEW W \in SUBSET Tag, W # {}
  PROVE  \E u \in W : \A w \in W : Age(b, w) <= Age(b, u)
<1>. DEFINE S == {Age(b, u) : u \in W}
<1>1. RobSize - 1 \in Nat
  BY OooAssumption
<1>2. S \in SUBSET (0 .. RobSize - 1) /\ S # {}
  BY AgeFacts
<1>. HIDE DEF S
<1>3. PICK x \in S : \A y \in S : y <= x
  BY <1>1, <1>2, LargestExists
<1>4. PICK u \in W : x = Age(b, u)
  BY DEF S
<1>5. \A w \in W : Age(b, w) \in S
  BY DEF S
<1>6. QED BY <1>3, <1>4, <1>5

-----------------------------------------------------------------------------
(* What a step on the reorder buffer leaves of what is read *)

\* Whatever value was read before t, from buffer b and registers g, still is, from c and
\* h, and a producer waited for is still the one to wait for.
KeepsReads(b, g, c, h, t) ==
  /\ \A r \in Reg : \A v \in Word : Before(b, g, v, t, r) => Before(c, h, v, t, r)
  /\ \A r \in Reg : \A u \in Tag : Source(b, u, t, r) /\ TagResult(b, u) = {} => Source(c, u, t, r)

LEMMA SameSources ==
  ASSUME NEW b, NEW c, NEW g, NEW t \in Tag,
         \A u \in Tag : Age(c, u) = Age(b, u),
         \A r \in Reg : Older(c, t, r) = Older(b, t, r),
         \A r \in Reg : \A u \in Older(b, t, r) :
           TagResult(b, u) = {} \/ TagResult(c, u) = TagResult(b, u)
  PROVE  KeepsReads(b, g, c, g, t)
<1>1. ASSUME NEW r \in Reg, NEW u \in Tag, Source(b, u, t, r)
      PROVE  Source(c, u, t, r)
  <2>1. u \in Older(c, t, r)
    BY <1>1 DEF Source
  <2>2. \A w \in Older(b, t, r) : w \in Tag /\ Age(b, w) <= Age(b, u)
    BY <1>1 DEF Source, Older, WritersIn
  <2>3. \A w \in Older(c, t, r) : Age(c, w) <= Age(c, u)
    BY <1>1, <2>2
  <2>4. QED BY <2>1, <2>3 DEF Source
<1>2. ASSUME NEW r \in Reg, NEW v \in Word, Before(b, g, v, t, r)
      PROVE  Before(c, g, v, t, r)
  <2>1. CASE Older(b, t, r) = {} /\ v = g[r]
    BY <2>1 DEF Before
  <2>2. ASSUME NEW u \in Tag, Source(b, u, t, r), v \in TagResult(b, u)
        PROVE  Before(c, g, v, t, r)
    <3>1. Source(c, u, t, r)
      BY <1>1, <2>2
    <3>2. u \in Older(b, t, r)
      BY <2>2 DEF Source
    <3>3. v \in TagResult(c, u)
      BY <2>2, <3>2
    <3>4. QED BY <3>1, <3>3 DEF Before
  <2>3. QED BY <1>2, <2>1, <2>2 DEF Before
<1>3. QED BY <1>1, <1>2 DEF KeepsReads

\* push(): the new instruction is younger than every instruction in the buffer.
LEMMA YoungestIsPushed ==
  ASSUME NEW b \in RobBuffer, WindowInv(RobSize, b), ~IsFull(RobSize, b),
         NEW t \in Tag, b.data[t] # {}
  PROVE  Age(b, t) < Age(b, b.tail)
<1>1. InWindow(RobSize, b, t)
  BY DEF WindowInv, Tag
<1>2. RobSize \in Nat \ {0} /\ b.head \in 0 .. RobSize - 1 /\ t \in 0 .. RobSize - 1
      /\ b.size \in 0 .. RobSize /\ b.size # RobSize
  BY OooAssumption DEF RobBuffer, BufferOf, Tag, Slots, IsFull
<1>3. b.tail = IF b.head + b.size < RobSize THEN b.head + b.size
                                              ELSE b.head + b.size - RobSize
  BY DEF WindowInv
<1>4. Age(b, b.tail) = b.size
  BY <1>2, <1>3 DEF Age, AgeRank
<1>5. Age(b, t) < b.size
  BY <1>1, <1>2 DEF Age, AgeRank, InWindow
<1>6. QED BY <1>4, <1>5

LEMMA PushFacts ==
  ASSUME NEW b \in RobBuffer, NEW x, NEW c, c = Push(RobSize, b, x)
  PROVE  /\ b.tail \in Tag /\ b.head \in Tag /\ c.head = b.head /\ c.data[b.tail] = {x}
         /\ \A u \in Tag : u # b.tail => c.data[u] = b.data[u]
         /\ \A u \in Tag : Age(c, u) = Age(b, u)
<1>1. b.tail \in Tag /\ b.head \in Tag /\ c.head = b.head
  BY DEF RobBuffer, BufferOf, Push, Tag
<1>2. c.data = [b.data EXCEPT ![b.tail] = {x}] /\ DOMAIN b.data = Tag
  BY DEF RobBuffer, BufferOf, Push, Tag
<1>3. \A u \in Tag : Age(c, u) = Age(b, u)
  BY <1>1 DEF Age, AgeRank
<1>4. QED BY <1>1, <1>2, <1>3

LEMMA PushKeepsReads ==
  ASSUME NEW b \in RobBuffer, WindowInv(RobSize, b), ~IsFull(RobSize, b), NEW g,
         NEW x, NEW c, c = Push(RobSize, b, x), b.data[b.tail] = {},
         NEW t \in Tag, b.data[t] # {}
  PROVE  KeepsReads(b, g, c, g, t)
<1>1. /\ b.tail \in Tag /\ b.head \in Tag
      /\ \A u \in Tag : u # b.tail => c.data[u] = b.data[u]
      /\ \A u \in Tag : Age(c, u) = Age(b, u)
  BY PushFacts
<1>2. Age(b, t) < Age(b, b.tail) /\ Age(b, t) \in Int /\ Age(b, b.tail) \in Int
  BY <1>1, YoungestIsPushed, AgeFacts
<1>3. \A r \in Reg : \A u \in Tag : u # b.tail => (u \in WritersIn(c, r) <=> u \in WritersIn(b, r))
  BY <1>1 DEF WritersIn
<1>4. \A r \in Reg : b.tail \notin WritersIn(b, r)
  BY DEF WritersIn
<1>5. ASSUME NEW r \in Reg PROVE Older(c, t, r) = Older(b, t, r)
  <2>1. b.tail \notin Older(c, t, r) /\ b.tail \notin Older(b, t, r)
    <3>1. ~(Age(c, b.tail) < Age(c, t))
      BY <1>1, <1>2
    <3>2. QED BY <1>4, <3>1 DEF Older
  <2>2. ASSUME NEW u \in Tag, u # b.tail PROVE u \in Older(c, t, r) <=> u \in Older(b, t, r)
    BY <1>1, <1>3, <2>2 DEF Older
  <2>3. Older(c, t, r) \subseteq Tag /\ Older(b, t, r) \subseteq Tag
    BY DEF Older, WritersIn
  <2>4. QED BY <2>1, <2>2, <2>3
<1>6. ASSUME NEW r \in Reg, NEW u \in Older(b, t, r)
      PROVE  TagResult(c, u) = TagResult(b, u)
  <2>1. u \in Tag /\ u # b.tail
    BY <1>4 DEF Older, WritersIn
  <2>2. QED BY <1>1, <2>1 DEF TagResult
<1>7. QED BY <1>1, <1>5, <1>6, SameSources

\* update(): the result v of s appears in its slot, and nothing else changes.
SameInstr(e, f) == e.pc = f.pc /\ e.format = f.format /\ e.rd = f.rd

Delivers(b, c, s, v) ==
  /\ c.head = b.head
  /\ \A u \in Tag : u # s => c.data[u] = b.data[u]
  /\ \A e \in b.data[s] : \E f \in c.data[s] : SameInstr(e, f)
  /\ \A f \in c.data[s] : f.result = {v} /\ \E e \in b.data[s] : SameInstr(e, f)

LEMMA RobDelivers ==
  ASSUME TypeOK, NEW s \in Tag, NEW v \in Word, NEW c, c = RobUpdated(s, v)
  PROVE  Delivers(rob, c, s, v)
<1> DEFINE upd(e) == [e EXCEPT !.result = {v}, !.ready = TRUE]
           o      == {upd(e) : e \in rob.data[s]}
<1>1. c.head = rob.head /\ \A u \in Tag : u # s => c.data[u] = rob.data[u]
  BY RobUpdatedFacts
<1>2. rob \in BufferOf(RobSize, RobEntry) /\ rob.data[s] \in Option(RobEntry)
  BY DEF TypeOK, BufferOf, Tag
<1>3. ASSUME NEW e \in rob.data[s] PROVE upd(e).result = {v} /\ SameInstr(e, upd(e))
  <2>1. e \in RobEntry
    BY <1>2, OptionMember
  <2>2. QED BY <2>1 DEF RobEntry, SameInstr
<1>. HIDE DEF upd
<1>4. c.data[s] = o
  <2>1. c = [rob EXCEPT !.data = [rob.data EXCEPT ![s] = o]]
    BY <1>2 DEF RobUpdated, upd
  <2>. HIDE DEF o
  <2>2. QED BY <1>2, <2>1 DEF BufferOf, Tag
<1>5. \A e \in rob.data[s] : \E f \in c.data[s] : SameInstr(e, f)
  BY <1>3, <1>4
<1>6. \A f \in c.data[s] : f.result = {v} /\ \E e \in rob.data[s] : SameInstr(e, f)
  BY <1>3, <1>4
<1>7. QED BY <1>1, <1>5, <1>6 DEF Delivers

LEMMA DeliveryKeepsWriters ==
  ASSUME NEW b, NEW c, NEW s \in Tag, NEW v, Delivers(b, c, s, v)
  PROVE  /\ \A u \in Tag : Age(c, u) = Age(b, u)
         /\ \A r \in Reg : WritersIn(c, r) = WritersIn(b, r)
<1>1. \A u \in Tag : Age(c, u) = Age(b, u)
  BY DEF Delivers, Age, AgeRank
<1>2. ASSUME NEW r \in Reg, NEW u \in Tag
      PROVE  (\E e \in c.data[u] : WritesTo(e, r)) <=> (\E e \in b.data[u] : WritesTo(e, r))
  <2>1. CASE u # s
    BY <2>1 DEF Delivers
  <2>2. CASE u = s
    <3>1. \A e, f : SameInstr(e, f) => (WritesTo(e, r) <=> WritesTo(f, r))
      BY DEF SameInstr, WritesTo
    <3>2. QED BY <2>2, <3>1 DEF Delivers
  <2>3. QED BY <2>1, <2>2
<1>3. QED BY <1>1, <1>2 DEF WritersIn

LEMMA DeliveryKeepsReads ==
  ASSUME NEW b, NEW c, NEW g, NEW s \in Tag, NEW v, Delivers(b, c, s, v), TagResult(b, s) = {},
         NEW t \in Tag
  PROVE  KeepsReads(b, g, c, g, t)
<1>1. /\ \A u \in Tag : Age(c, u) = Age(b, u)
      /\ \A r \in Reg : WritersIn(c, r) = WritersIn(b, r)
  BY DeliveryKeepsWriters
<1>2. ASSUME NEW r \in Reg PROVE Older(c, t, r) = Older(b, t, r)
  <2>1. \A u \in WritersIn(b, r) : u \in Tag
    BY DEF WritersIn
  <2>2. QED BY <1>1, <2>1 DEF Older
<1>3. ASSUME NEW r \in Reg, NEW u \in Older(b, t, r)
      PROVE  TagResult(b, u) = {} \/ TagResult(c, u) = TagResult(b, u)
  <2>1. u \in Tag
    BY DEF Older, WritersIn
  <2>2. CASE u # s
    BY <2>1, <2>2 DEF TagResult, Delivers
  <2>3. QED BY <2>2
<1>4. QED BY <1>1, <1>2, <1>3, SameSources

\* pop(): the oldest instruction leaves, its result in the register it writes.
Committed(g, e, w) == IF WritesRd(e.format) /\ e.rd # 0 THEN [g EXCEPT ![e.rd] = w] ELSE g

LEMMA PopFacts ==
  ASSUME NEW b \in RobBuffer, NEW c, c = Pop(RobSize, b)
  PROVE  /\ b.head \in Tag /\ c.head \in Tag /\ c.data[b.head] = {}
         /\ \A u \in Tag : u # b.head => c.data[u] = b.data[u] /\ Age(c, u) = Age(b, u) - 1
<1>1. RobSize \in Nat \ {0} /\ b.head \in Slots(RobSize)
  BY OooAssumption DEF RobBuffer, BufferOf
<1>2. c.head = IF b.head + 1 = RobSize THEN 0 ELSE b.head + 1
  BY <1>1, NextIndex DEF Pop
<1>3. c.data = [b.data EXCEPT ![b.head] = {}] /\ DOMAIN b.data = Tag
  BY DEF RobBuffer, BufferOf, Pop, Tag
<1>4. ASSUME NEW u \in Tag, u # b.head PROVE Age(c, u) = Age(b, u) - 1
  BY <1>1, <1>2, <1>4 DEF Age, AgeRank, Slots, Tag
<1>5. b.head \in Tag /\ c.head \in Tag
  BY <1>1, <1>2 DEF Slots, Tag
<1>6. c.data[b.head] = {} /\ \A u \in Tag : u # b.head => c.data[u] = b.data[u]
  BY <1>3, <1>5
<1>7. ASSUME NEW u \in Tag, u # b.head PROVE c.data[u] = b.data[u] /\ Age(c, u) = Age(b, u) - 1
  BY <1>4, <1>6, <1>7, Zenon
<1>8. QED BY <1>5, <1>6, <1>7, Zenon

LEMMA PopKeepsReads ==
  ASSUME NEW b \in RobBuffer, NEW c, c = Pop(RobSize, b), NEW g \in [Reg -> Word],
         NEW e, NEW w \in Word, b.data[b.head] = {e}, e.result = {w},
         NEW h, h = Committed(g, e, w), NEW t \in Tag, t # b.head
  PROVE  KeepsReads(b, g, c, h, t)
<1>1. /\ b.head \in Tag /\ c.head \in Tag /\ c.data[b.head] = {}
      /\ \A u \in Tag : u # b.head => c.data[u] = b.data[u] /\ Age(c, u) = Age(b, u) - 1
  BY PopFacts
<1>2. /\ \A u \in Tag : Age(b, u) \in Nat
      /\ \A u \in Tag : Age(b, u) <= 0 => u = b.head
      /\ Age(b, b.head) = 0
  BY <1>1, AgeFacts
<1>3. TagResult(b, b.head) = {w}
  BY DEF TagResult
<1>4. ASSUME NEW r \in Reg PROVE b.head \in WritersIn(b, r) <=> WritesTo(e, r)
  BY <1>1 DEF WritersIn
<1>5. ASSUME NEW r \in Reg PROVE Older(c, t, r) = Older(b, t, r) \ {b.head}
  <2>1. Older(c, t, r) \subseteq Tag /\ Older(b, t, r) \subseteq Tag
    BY DEF Older, WritersIn
  <2>2. b.head \notin Older(c, t, r)
    BY <1>1 DEF Older, WritersIn
  <2>3. ASSUME NEW u \in Tag, u # b.head PROVE u \in Older(c, t, r) <=> u \in Older(b, t, r)
    <3>1. u \in WritersIn(c, r) <=> u \in WritersIn(b, r)
      BY <1>1, <2>3 DEF WritersIn
    <3>2. Age(c, u) < Age(c, t) <=> Age(b, u) < Age(b, t)
      BY <1>1, <1>2, <2>3
    <3>3. QED BY <3>1, <3>2 DEF Older
  <2>4. QED BY <2>1, <2>2, <2>3
<1>6. ASSUME NEW r \in Reg, NEW u \in Tag, u # b.head, Source(b, u, t, r)
      PROVE  Source(c, u, t, r)
  <2>1. u \in Older(c, t, r)
    BY <1>5, <1>6 DEF Source
  <2>2. ASSUME NEW x \in Older(c, t, r) PROVE Age(c, x) <= Age(c, u)
    <3>1. x \in Older(b, t, r) /\ x # b.head /\ x \in Tag
      BY <1>5 DEF Older, WritersIn
    <3>2. Age(b, x) <= Age(b, u)
      BY <1>6, <3>1 DEF Source
    <3>3. QED BY <1>1, <1>2, <1>6, <3>1, <3>2
  <2>3. QED BY <2>1, <2>2 DEF Source
<1>7. ASSUME NEW r \in Reg, NEW v \in Word, Before(b, g, v, t, r)
      PROVE  Before(c, h, v, t, r)
  <2>1. CASE Older(b, t, r) = {} /\ v = g[r]
    <3>1. 0 < Age(b, t)
      BY <1>2
    <3>2. ~WritesTo(e, r)
      BY <1>2, <1>4, <2>1, <3>1 DEF Older
    <3>3. h[r] = g[r]
      BY <3>2 DEF Committed, WritesTo
    <3>4. QED BY <1>5, <2>1, <3>3 DEF Before
  <2>2. ASSUME NEW u \in Tag, Source(b, u, t, r), v \in TagResult(b, u), u # b.head
        PROVE  Before(c, h, v, t, r)
    <3>1. v \in TagResult(c, u)
      BY <1>1, <2>2 DEF TagResult
    <3>2. QED BY <1>6, <2>2, <3>1 DEF Before
  <2>3. ASSUME Source(b, b.head, t, r), v \in TagResult(b, b.head)
        PROVE  Before(c, h, v, t, r)
    <3>1. \A x \in Older(b, t, r) : x \in Tag /\ Age(b, x) <= 0
      BY <1>2, <2>3 DEF Source, Older, WritersIn
    <3>2. Older(c, t, r) = {}
      BY <1>2, <1>5, <3>1
    <3>3. WritesTo(e, r)
      BY <1>4, <2>3 DEF Source, Older
    <3>4. v = w /\ h[r] = w
      BY <1>3, <2>3, <3>3 DEF Committed, WritesTo
    <3>5. QED BY <3>2, <3>4 DEF Before
  <2>4. QED BY <1>7, <2>1, <2>2, <2>3 DEF Before
<1>8. ASSUME NEW r \in Reg, NEW u \in Tag, Source(b, u, t, r), TagResult(b, u) = {}
      PROVE  Source(c, u, t, r)
  <2>1. u # b.head
    BY <1>3, <1>8
  <2>2. QED BY <1>6, <1>8, <2>1
<1>9. QED BY <1>7, <1>8 DEF KeepsReads

-----------------------------------------------------------------------------
(* Instructions in flight stay right *)

\* A word of the program decodes to one instruction at most.
LEMMA DecodedAt ==
  ASSUME NEW C \in SUBSET Addr, NEW m \in [Addr \ C -> Word], NEW p \in Addr \ C,
         NEW i \in Decode[m[p]]
  PROVE  /\ i \in Instr /\ Decode[m[p]] = {i}
         /\ i.op \in Opcode /\ i.rd \in Reg /\ i.rs1 \in Reg /\ i.rs2 \in Reg /\ i.imm \in Word
<1>1. Decode[m[p]] \in Option(Instr)
  BY IsaAssumption
<1>2. i \in Instr /\ Decode[m[p]] = {i}
  BY <1>1, OptionMember
<1>3. QED BY <1>2 DEF Instr

DecodesOnce(C, m) ==
  \A p \in Addr \ C : \A i \in Decode[m[p]] :
    Decode[m[p]] = {i} /\ i.op \in Opcode /\ i.rs1 \in Reg /\ i.rs2 \in Reg

LEMMA Decodings ==
  ASSUME NEW C \in SUBSET Addr, NEW m \in [Addr \ C -> Word]
  PROVE  DecodesOnce(C, m)
BY DecodedAt DEF DecodesOnce

LEMMA OperandKept ==
  ASSUME NEW b, NEW g, NEW c, NEW h, NEW t \in Tag, NEW r \in Reg, NEW x \in Operand,
         KeepsReads(b, g, c, h, t), ReadsReg(b, g, x, t, r),
         \A u \in x.wait : TagResult(b, u) = {}
  PROVE  ReadsReg(c, h, x, t, r)
<1>1. x.val \in Word
  BY DEF Operand
<1>2. CASE x.wait = {} /\ Before(b, g, x.val, t, r)
  BY <1>1, <1>2 DEF KeepsReads, ReadsReg
<1>3. ASSUME NEW u \in Tag, x.wait = {u}, Source(b, u, t, r) PROVE ReadsReg(c, h, x, t, r)
  <2>1. Source(c, u, t, r)
    BY <1>3 DEF KeepsReads
  <2>2. QED BY <1>3, <2>1 DEF ReadsReg
<1>4. QED BY <1>2, <1>3 DEF ReadsReg

LEMMA CarriedKept ==
  ASSUME NEW C \in SUBSET Addr, NEW m \in [Addr \ C -> Word], NEW b, NEW g, NEW c, NEW h,
         NEW x \in RsEntry, Carries(b, g, m, x), EntryRight(C, b, g, m, x.tag),
         KeepsReads(b, g, c, h, x.tag),
         \A e \in b.data[x.tag] : \E f \in c.data[x.tag] : SameInstr(e, f),
         \A u \in Waits(x) : TagResult(b, u) = {}
  PROVE  Carries(c, h, m, x)
<1>1. PICK e \in b.data[x.tag] : \E i \in Decode[m[e.pc]] :
        /\ x.op = i.op /\ x.pc = e.pc /\ x.imm = i.imm
        /\ ReadsReg(b, g, x.rs1, x.tag, i.rs1)
        /\ ReadsReg(b, g, x.rs2, x.tag, i.rs2)
  BY DEF Carries
<1>2. PICK i \in Decode[m[e.pc]] :
        /\ x.op = i.op /\ x.pc = e.pc /\ x.imm = i.imm
        /\ ReadsReg(b, g, x.rs1, x.tag, i.rs1)
        /\ ReadsReg(b, g, x.rs2, x.tag, i.rs2)
  BY <1>1
<1>3. e.pc \in Addr \ C
  BY <1>1 DEF EntryRight
<1>4. i.rs1 \in Reg /\ i.rs2 \in Reg
  BY <1>2, <1>3, DecodedAt
<1>5. x.tag \in Tag /\ x.rs1 \in Operand /\ x.rs2 \in Operand
  BY DEF RsEntry
<1>6. ReadsReg(c, h, x.rs1, x.tag, i.rs1)
  BY <1>2, <1>4, <1>5, OperandKept DEF Waits
<1>7. ReadsReg(c, h, x.rs2, x.tag, i.rs2)
  BY <1>2, <1>4, <1>5, OperandKept DEF Waits
<1>8. PICK f \in c.data[x.tag] : f.pc = e.pc
  BY <1>1 DEF SameInstr
<1>9. QED BY <1>2, <1>6, <1>7, <1>8 DEF Carries

LEMMA ComputedKept ==
  ASSUME NEW C, NEW m, NEW b, NEW g, NEW c, NEW h, NEW t, NEW i, NEW p, NEW v,
         i.rs1 \in Reg, i.rs2 \in Reg, KeepsReads(b, g, c, h, t), Computed(C, b, g, m, i, p, t, v)
  PROVE  Computed(C, c, h, m, i, p, t, v)
<1>1. PICK x \in Word, y \in Word :
        Before(b, g, x, t, i.rs1) /\ Before(b, g, y, t, i.rs2) /\ Yields(C, m, i, p, x, y, v)
  BY DEF Computed
<1>2. Before(c, h, x, t, i.rs1) /\ Before(c, h, y, t, i.rs2)
  BY <1>1 DEF KeepsReads
<1>3. QED BY <1>1, <1>2 DEF Computed

LEMMA EntryKept ==
  ASSUME NEW C \in SUBSET Addr, NEW m \in [Addr \ C -> Word], NEW b, NEW g, NEW c, NEW h,
         NEW t \in Tag, EntryRight(C, b, g, m, t), KeepsReads(b, g, c, h, t),
         \A f \in c.data[t] : \E e \in b.data[t] : SameInstr(e, f) /\ f.result \subseteq e.result
  PROVE  EntryRight(C, c, h, m, t)
<1>1. ASSUME NEW f \in c.data[t]
      PROVE  /\ f.pc \in Addr \ C
             /\ \E i \in Decode[m[f.pc]] :
                  /\ f.format = FormatOf(i.op) /\ f.rd = i.rd
                  /\ \A v \in f.result : Computed(C, c, h, m, i, f.pc, t, v)
  <2>1. PICK e \in b.data[t] : SameInstr(e, f) /\ f.result \subseteq e.result
    OBVIOUS
  <2>2. f.pc = e.pc /\ f.format = e.format /\ f.rd = e.rd
    BY <2>1 DEF SameInstr
  <2>3. e.pc \in Addr \ C
    BY DEF EntryRight
  <2>4. PICK i \in Decode[m[e.pc]] :
          /\ e.format = FormatOf(i.op) /\ e.rd = i.rd
          /\ \A v \in e.result : Computed(C, b, g, m, i, e.pc, t, v)
    BY DEF EntryRight
  <2>5. i.rs1 \in Reg /\ i.rs2 \in Reg
    BY <2>3, DecodedAt
  <2>6. \A v \in f.result : Computed(C, c, h, m, i, f.pc, t, v)
    BY <2>1, <2>2, <2>4, <2>5, ComputedKept
  <2>7. QED BY <2>2, <2>3, <2>4, <2>6
<1>2. QED BY <1>1 DEF EntryRight

\* A station entry takes the result it waited for.
LEMMA OperandDelivered ==
  ASSUME NEW b, NEW c, NEW g, NEW s \in Tag, NEW v \in Word, Delivers(b, c, s, v),
         TagResult(b, s) = {}, b.data[s] # {}, NEW t \in Tag, NEW r \in Reg, NEW x \in Operand,
         ReadsReg(b, g, x, t, r), \A u \in x.wait : TagResult(b, u) = {}
  PROVE  ReadsReg(c, g, Delivered(x, s, v), t, r)
<1>1. KeepsReads(b, g, c, g, t)
  BY DeliveryKeepsReads
<1>2. CASE s \notin x.wait
  BY <1>1, <1>2, OperandKept DEF Delivered
<1>3. CASE s \in x.wait
  <2>1. Source(b, s, t, r)
    BY <1>3 DEF ReadsReg
  <2>2. Source(c, s, t, r)
    BY <1>1, <2>1 DEF KeepsReads
  <2>3. v \in TagResult(c, s)
    BY DEF Delivers, TagResult
  <2>4. Delivered(x, s, v).wait = {} /\ Delivered(x, s, v).val = v
    BY <1>3 DEF Delivered, Ready
  <2>5. Before(c, g, v, t, r)
    BY <2>2, <2>3 DEF Before
  <2>6. QED BY <2>4, <2>5 DEF ReadsReg
<1>4. QED BY <1>2, <1>3

LEMMA CarriedDelivered ==
  ASSUME NEW C \in SUBSET Addr, NEW m \in [Addr \ C -> Word], NEW b, NEW g, NEW c,
         NEW s \in Tag, NEW v \in Word, Delivers(b, c, s, v), TagResult(b, s) = {},
         b.data[s] # {},
         NEW x \in RsEntry, Carries(b, g, m, x), EntryRight(C, b, g, m, x.tag),
         \A u \in Waits(x) : TagResult(b, u) = {},
         NEW y, y = Woken(x, s, v)
  PROVE  Carries(c, g, m, y)
<1>1. PICK e \in b.data[x.tag] : \E i \in Decode[m[e.pc]] :
        /\ x.op = i.op /\ x.pc = e.pc /\ x.imm = i.imm
        /\ ReadsReg(b, g, x.rs1, x.tag, i.rs1)
        /\ ReadsReg(b, g, x.rs2, x.tag, i.rs2)
  BY DEF Carries
<1>2. PICK i \in Decode[m[e.pc]] :
        /\ x.op = i.op /\ x.pc = e.pc /\ x.imm = i.imm
        /\ ReadsReg(b, g, x.rs1, x.tag, i.rs1)
        /\ ReadsReg(b, g, x.rs2, x.tag, i.rs2)
  BY <1>1
<1>3. e.pc \in Addr \ C
  BY <1>1 DEF EntryRight
<1>4. i.rs1 \in Reg /\ i.rs2 \in Reg
  BY <1>2, <1>3, DecodedAt
<1>5. x.tag \in Tag /\ x.rs1 \in Operand /\ x.rs2 \in Operand
  BY DEF RsEntry
<1>6. ReadsReg(c, g, Delivered(x.rs1, s, v), x.tag, i.rs1)
  BY <1>2, <1>4, <1>5, OperandDelivered DEF Waits
<1>7. ReadsReg(c, g, Delivered(x.rs2, s, v), x.tag, i.rs2)
  BY <1>2, <1>4, <1>5, OperandDelivered DEF Waits
<1>8. PICK f \in c.data[x.tag] : f.pc = e.pc
  <2>1. CASE x.tag = s
    BY <1>1, <2>1 DEF Delivers, SameInstr
  <2>2. CASE x.tag # s
    BY <1>1, <1>5, <2>2 DEF Delivers
  <2>3. QED BY <2>1, <2>2
<1>9. /\ y.tag = x.tag /\ y.op = x.op /\ y.pc = x.pc /\ y.imm = x.imm
      /\ y.rs1 = Delivered(x.rs1, s, v) /\ y.rs2 = Delivered(x.rs2, s, v)
  BY DEF Woken, RsEntry
<1>10. QED BY <1>2, <1>6, <1>7, <1>8, <1>9 DEF Carries

\* The result of an instruction whose operands have arrived is the right one.
LEMMA ResultRight ==
  ASSUME NEW C \in SUBSET Addr, NEW m \in [Addr \ C -> Word], NEW b, NEW g, NEW c,
         NEW x \in RsEntry, NEW v \in Word, Delivers(b, c, x.tag, v), TagResult(b, x.tag) = {},
         Carries(b, g, m, x), EntryRight(C, b, g, m, x.tag), Waits(x) = {},
         b.data[x.tag] \in Option(RobEntry),
         Yields(C, m, x, x.pc, x.rs1.val, x.rs2.val, v)
  PROVE  EntryRight(C, c, g, m, x.tag)
<1>1. PICK e \in b.data[x.tag] : \E i \in Decode[m[e.pc]] :
        /\ x.op = i.op /\ x.pc = e.pc /\ x.imm = i.imm
        /\ ReadsReg(b, g, x.rs1, x.tag, i.rs1)
        /\ ReadsReg(b, g, x.rs2, x.tag, i.rs2)
  BY DEF Carries
<1>2. PICK i \in Decode[m[e.pc]] :
        /\ x.op = i.op /\ x.pc = e.pc /\ x.imm = i.imm
        /\ ReadsReg(b, g, x.rs1, x.tag, i.rs1)
        /\ ReadsReg(b, g, x.rs2, x.tag, i.rs2)
  BY <1>1
<1>3. b.data[x.tag] = {e} /\ e.pc \in Addr \ C
  BY <1>1, OptionMember DEF EntryRight
<1>4. i.rs1 \in Reg /\ i.rs2 \in Reg /\ Decode[m[e.pc]] = {i}
  <2>1. DecodesOnce(C, m)
    BY Decodings
  <2>2. QED BY <1>2, <1>3, <2>1 DEF DecodesOnce
<1>5. x.tag \in Tag /\ x.rs1.val \in Word /\ x.rs2.val \in Word
  BY DEF RsEntry, Operand
<1>6. Before(b, g, x.rs1.val, x.tag, i.rs1) /\ Before(b, g, x.rs2.val, x.tag, i.rs2)
  <2>1. x.rs1.wait = {} /\ x.rs2.wait = {}
    BY DEF Waits
  <2>2. QED BY <1>2, <2>1 DEF ReadsReg
<1>7. KeepsReads(b, g, c, g, x.tag)
  BY <1>5, DeliveryKeepsReads
<1>8. Before(c, g, x.rs1.val, x.tag, i.rs1) /\ Before(c, g, x.rs2.val, x.tag, i.rs2)
  BY <1>4, <1>5, <1>6, <1>7 DEF KeepsReads
<1>9. Yields(C, m, i, e.pc, x.rs1.val, x.rs2.val, v)
  BY <1>2 DEF Yields
<1>10. Computed(C, c, g, m, i, e.pc, x.tag, v)
  BY <1>5, <1>8, <1>9 DEF Computed
<1>11. ASSUME NEW f \in c.data[x.tag]
       PROVE  /\ f.pc \in Addr \ C
              /\ \E j \in Decode[m[f.pc]] :
                  /\ f.format = FormatOf(j.op) /\ f.rd = j.rd
                  /\ \A w \in f.result : Computed(C, c, g, m, j, f.pc, x.tag, w)
  <2>1. f.result = {v} /\ f.pc = e.pc /\ f.format = e.format /\ f.rd = e.rd
    BY <1>3 DEF Delivers, SameInstr
  <2>2. e.format = FormatOf(i.op) /\ e.rd = i.rd
    BY <1>1, <1>4 DEF EntryRight
  <2>3. QED BY <1>2, <1>3, <1>10, <2>1, <2>2
<1>12. QED BY <1>11 DEF EntryRight

-----------------------------------------------------------------------------
(* What is in flight *)

\* A pending instruction is in the buffer, without a result.
LEMMA PendingSlot ==
  ASSUME TypeOK, NEW t \in Tag
  PROVE  /\ rob \in RobBuffer /\ rob.head \in Tag /\ rob.data[t] \in Option(RobEntry)
         /\ Pending(t) <=> (rob.data[t] # {} /\ TagResult(rob, t) = {})
<1>1. rob \in BufferOf(RobSize, RobEntry)
  BY DEF TypeOK
<1>2. rob.head \in Tag /\ rob.data[t] \in Option(RobEntry)
  BY <1>1 DEF BufferOf, Tag
<1>3. \A e \in rob.data[t] : rob.data[t] = {e} /\ TagResult(rob, t) = e.result
  BY <1>1, TagResultFacts
<1>4. Pending(t) <=> (rob.data[t] # {} /\ TagResult(rob, t) = {})
  BY <1>3 DEF Pending
<1>5. QED BY <1>1, <1>2, <1>4 DEF RobBuffer

LEMMA StationInFlight ==
  ASSUME HomeInv, NEW j \in DOMAIN rs, NEW x, x = rs[j]
  PROVE  /\ x \in RsEntry /\ x.tag \in Tag /\ Pending(x.tag)
         /\ \A u \in Waits(x) : TagResult(rob, u) = {}
<1>1. TypeOK /\ NoLostProducer
  BY DEF HomeInv, IInv
<1>2. x \in RsEntry /\ x.tag \in Tag
  BY <1>1, StationShape DEF RsEntry
<1>3. Pending(x.tag)
  <2>1. OnePlace(x.tag) /\ InStation(x.tag)
    BY <1>2 DEF HomeInv, InStation
  <2>2. "rs" \in Where(x.tag)
    BY <1>2, <2>1, OnlyThere
  <2>3. QED BY <1>2, <2>1, <2>2, OnlyThere
<1>4. \A u \in Waits(x) : u \in Tag /\ Pending(u)
  BY <1>1, <1>2, EntriesOkNow, WaitsAreTags DEF EntryOk
<1>5. QED BY <1>1, <1>2, <1>3, <1>4, PendingSlot

LEMMA AluInFlight ==
  ASSUME HomeInv, NEW j \in DOMAIN alu.inProgress, NEW x, x = alu.inProgress[j].instr
  PROVE  x \in RsEntry /\ x.tag \in Tag /\ Pending(x.tag) /\ Waits(x) = {}
<1>1. TypeOK /\ OperandsReadyInExecution
  BY DEF HomeInv, IInv
<1>2. x \in RsEntry /\ x.tag \in Tag
  BY <1>1, CoreAluShape DEF RsEntry
<1>3. Pending(x.tag)
  <2>1. OnePlace(x.tag) /\ InAlu(x.tag)
    BY <1>2 DEF HomeInv, InAlu
  <2>2. "alu" \in Where(x.tag)
    BY <1>2, <2>1, OnlyThere
  <2>3. QED BY <1>2, <2>1, <2>2, OnlyThere
<1>4. QED BY <1>1, <1>2, <1>3 DEF OperandsReadyInExecution

LEMMA LoadInFlight ==
  ASSUME HomeInv,
         NEW x \in aluMem.staged \cup aluMem.active \cup memRob.staged \cup memRob.active,
         IsLoad(x.instr.op)
  PROVE  x \in Result /\ x.tag \in Tag /\ x.instr \in RsEntry /\ Pending(x.tag)
<1>1. TypeOK
  BY DEF HomeInv, IInv
<1>2. x \in Result
  BY <1>1, OptionMember DEF TypeOK, LatchOf
<1>3. x.tag \in Tag /\ x.instr \in RsEntry
  BY <1>2 DEF Result
<1>4. OnePlace(x.tag)
  BY <1>3 DEF HomeInv
<1>5. \/ LoadIn(aluMem.staged, x.tag) \/ LoadIn(aluMem.active, x.tag)
      \/ LoadIn(memRob.staged, x.tag) \/ LoadIn(memRob.active, x.tag)
  BY DEF LoadIn
<1>6. \E p : p \in Where(x.tag)
  BY <1>3, <1>4, <1>5, OnlyThere
<1>7. QED BY <1>2, <1>3, <1>4, <1>6, OnlyThere

\* Nothing in flight is affected by a step that leaves its instruction in the buffer and
\* the values read before it.
LEMMA FlightKept ==
  ASSUME NEW C \in SUBSET Addr, NEW m \in [Addr \ C -> Word], HomeInv, RobRight(C, m),
         NEW x \in RsEntry, Carries(rob, regs, m, x), NEW c, NEW h,
         KeepsReads(rob, regs, c, h, x.tag),
         \A e \in rob.data[x.tag] : \E f \in c.data[x.tag] : SameInstr(e, f),
         \A u \in Waits(x) : TagResult(rob, u) = {}
  PROVE  Carries(c, h, m, x)
<1>1. x.tag \in Tag
  BY DEF RsEntry
<1>2. EntryRight(C, rob, regs, m, x.tag)
  BY <1>1 DEF RobRight
<1>3. QED BY <1>2, CarriedKept

\* A broadcast of the right result, by an instruction that has its operands.
LEMMA RobAfterBroadcast ==
  ASSUME NEW C \in SUBSET Addr, NEW m \in [Addr \ C -> Word], HomeInv, RobRight(C, m),
         NEW x \in RsEntry, Pending(x.tag), Carries(rob, regs, m, x), Waits(x) = {},
         NEW v \in Word, Yields(C, m, x, x.pc, x.rs1.val, x.rs2.val, v),
         NEW c, c = RobUpdated(x.tag, v), NEW t \in Tag
  PROVE  EntryRight(C, c, regs, m, t)
<1>1. TypeOK
  BY DEF HomeInv, IInv
<1>2. x.tag \in Tag
  BY DEF RsEntry
<1>3. TagResult(rob, x.tag) = {} /\ rob.data[x.tag] \in Option(RobEntry)
  BY <1>1, <1>2, PendingSlot
<1>4. Delivers(rob, c, x.tag, v)
  BY <1>1, <1>2, RobDelivers
<1>5. CASE t = x.tag
  <2>1. EntryRight(C, rob, regs, m, x.tag)
    BY <1>2 DEF RobRight
  <2>2. EntryRight(C, c, regs, m, x.tag)
    BY <1>3, <1>4, <2>1, ResultRight
  <2>3. QED BY <1>5, <2>2
<1>6. CASE t # x.tag
  <2>1. c.data[t] = rob.data[t]
    BY <1>4, <1>6 DEF Delivers
  <2>2. KeepsReads(rob, regs, c, regs, t)
    BY <1>2, <1>3, <1>4, DeliveryKeepsReads
  <2>3. EntryRight(C, rob, regs, m, t)
    BY DEF RobRight
  <2>4. \A f \in c.data[t] : \E e \in rob.data[t] : SameInstr(e, f) /\ f.result \subseteq e.result
    BY <2>1 DEF SameInstr
  <2>5. QED BY <2>2, <2>3, <2>4, EntryKept
<1>7. QED BY <1>5, <1>6

LEMMA CarriedAfterBroadcast ==
  ASSUME NEW C \in SUBSET Addr, NEW m \in [Addr \ C -> Word], HomeInv, RobRight(C, m),
         NEW s \in Tag, Pending(s), NEW v \in Word, NEW c, c = RobUpdated(s, v),
         NEW x \in RsEntry, Carries(rob, regs, m, x), \A u \in Waits(x) : TagResult(rob, u) = {}
  PROVE  /\ Carries(c, regs, m, Woken(x, s, v))
         /\ Carries(c, regs, m, x)
<1>1. TypeOK
  BY DEF HomeInv, IInv
<1>2. x.tag \in Tag
  BY DEF RsEntry
<1>3. TagResult(rob, s) = {} /\ rob.data[s] # {}
  BY <1>1, PendingSlot
<1>4. Delivers(rob, c, s, v)
  BY <1>1, RobDelivers
<1>5. EntryRight(C, rob, regs, m, x.tag)
  BY <1>2 DEF RobRight
<1>6. Carries(c, regs, m, Woken(x, s, v))
  BY <1>3, <1>4, <1>5, CarriedDelivered
<1>7. KeepsReads(rob, regs, c, regs, x.tag)
  BY <1>2, <1>3, <1>4, DeliveryKeepsReads
<1>8. \A e \in rob.data[x.tag] : \E f \in c.data[x.tag] : SameInstr(e, f)
  <2>1. CASE x.tag = s
    BY <1>4, <2>1 DEF Delivers
  <2>2. CASE x.tag # s
    BY <1>2, <1>4, <2>2 DEF Delivers, SameInstr
  <2>3. QED BY <2>1, <2>2
<1>9. Carries(c, regs, m, x)
  BY <1>7, <1>8, FlightKept
<1>10. QED BY <1>6, <1>9

-----------------------------------------------------------------------------
(* The steps of the core *)

\* The memories agree with the program outside C.
LEMMA RomAt ==
  ASSUME NEW C, NEW m, NEW f, Rom(C, f) = m, NEW a \in Addr \ C
  PROVE  f[a] = m[a]
BY DEF Rom

\* Only the frontend, or nothing, changes.
LEMMA FlightUnchanged ==
  ASSUME NEW C, NEW m, InFlight(C, m), FrontRight(C, m)', Rom(C, mem)' = m,
         UNCHANGED <<regs, rob, rs, aluMem, memRob>>,
         DOMAIN alu'.inProgress = DOMAIN alu.inProgress,
         \A j \in DOMAIN alu.inProgress : alu'.inProgress[j].instr = alu.inProgress[j].instr
  PROVE  InFlight(C, m)'
<1>1. RobRight(C, m)'
  BY DEF InFlight, RobRight
<1>2. StationRight(m)'
  BY DEF InFlight, StationRight
<1>3. AluRight(m)'
  BY DEF InFlight, AluRight
<1>4. LoadsRight(C, m)'
  BY DEF InFlight, LoadsRight
<1>5. QED BY <1>1, <1>2, <1>3, <1>4 DEF InFlight

LEMMA FlightAfterFront ==
  ASSUME NEW C \in SUBSET Addr, NEW m \in [Addr \ C -> Word], HomeInv, InFlight(C, m),
         Separated(C), Fetch \/ DecodeInstr \/ DecodeZero
  PROVE  InFlight(C, m)'
<1>1. UNCHANGED <<mem, regs, rob, rs, alu, aluMem, memRob>>
  BY DEF Fetch, DecodeInstr, DecodeZero, archVars, execVars, backVars
<1>2. /\ Rom(C, mem) = m
      /\ \A f \in ifId.staged \cup ifId.active : f.pc \in Addr /\ (f.pc \notin C => f.word = m[f.pc])
      /\ \A d \in idRs.staged \cup idRs.active : d.pc \in Addr \ C /\ d.instr \in Decode[m[d.pc]]
  BY DEF InFlight, FrontRight
<1>3. FrontRight(C, m)'
  <2>1. CASE Fetch
    <3>1. /\ pc \in Addr /\ ifId'.staged = {[pc |-> pc, word |-> mem[pc]]}
          /\ ifId'.active = ifId.active /\ idRs' = idRs
      BY <2>1 DEF Fetch, Staged
    <3>2. pc \notin C => mem[pc] = m[pc]
      BY <1>2, <3>1, RomAt
    <3>3. QED BY <1>2, <3>1, <3>2 DEF FrontRight
  <2>2. CASE DecodeInstr
    <3>1. PICK f \in ifId.active : \E instr \in Decode[f.word] :
            idRs' = Staged(idRs, [pc |-> f.pc, instr |-> instr])
      BY <2>2 DEF DecodeInstr
    <3>2. PICK instr \in Decode[f.word] : idRs' = Staged(idRs, [pc |-> f.pc, instr |-> instr])
      BY <3>1
    <3>3. /\ idRs'.staged = {[pc |-> f.pc, instr |-> instr]} /\ idRs'.active = idRs.active
          /\ ifId'.staged = ifId.staged /\ ifId'.active = {}
      BY <2>2, <3>2 DEF DecodeInstr, Staged, Taken
    <3>4. f.pc \in Addr \ C /\ instr \in Decode[m[f.pc]]
      BY <1>2, <3>2 DEF Separated
    <3>5. QED BY <1>2, <3>3, <3>4 DEF FrontRight
  <2>3. CASE DecodeZero
    BY <1>2, <2>3 DEF DecodeZero, Taken, FrontRight
  <2>4. QED BY <2>1, <2>2, <2>3
<1>4. Rom(C, mem)' = m
  BY <1>1, <1>2
<1>5. QED BY <1>1, <1>3, <1>4, FlightUnchanged

\* resolve_operands(): the operand is what the register holds before the instruction
\* about to be issued, or waits for the producer of that value.
LEMMA ResolvedRight ==
  ASSUME TypeOK, RobWindow, RatTracksYoungestWriter, ~IsFull(RobSize, rob), NEW r \in Reg,
         NEW x \in RobEntry, NEW b \in RobBuffer, b = Push(RobSize, rob, x)
  PROVE  ReadsReg(b, regs, Resolve(b, r), rob.tail, r)
<1>1. rob \in RobBuffer /\ rob.data[rob.tail] = {} /\ WindowInv(RobSize, rob)
  <2>1. rob \in BufferOf(RobSize, RobEntry) /\ WindowInv(RobSize, rob) /\ RobSize \in Nat \ {0}
    BY OooAssumption DEF TypeOK, RobWindow
  <2>2. rob.data[rob.tail] = {}
    BY <2>1, PushSound
  <2>3. QED BY <2>1, <2>2 DEF RobBuffer
<1>2. /\ rob.tail \in Tag /\ rob.head \in Tag /\ b.head = rob.head
      /\ \A u \in Tag : u # rob.tail => b.data[u] = rob.data[u]
      /\ \A u \in Tag : Age(b, u) = Age(rob, u)
  BY <1>1, PushFacts
<1>3. Writers(r) = WritersIn(rob, r)
  BY DEF Writers, WritersIn, WritesTo
<1>4. \A u \in Tag : Age(rob, u) \in Int
  BY <1>2, AgeFacts
<1>5. Older(b, rob.tail, r) = Writers(r)
  <2>1. ASSUME NEW u \in Older(b, rob.tail, r) PROVE u \in Writers(r)
    <3>1. u \in Tag /\ u # rob.tail /\ u \in WritersIn(b, r)
      BY <1>2, <1>4 DEF Older, WritersIn
    <3>2. QED BY <1>2, <1>3, <3>1 DEF WritersIn
  <2>2. ASSUME NEW u \in Writers(r) PROVE u \in Older(b, rob.tail, r)
    <3>1. u \in Tag /\ rob.data[u] # {} /\ u \in WritersIn(rob, r)
      BY <1>3 DEF WritersIn
    <3>2. u # rob.tail /\ Age(rob, u) < Age(rob, rob.tail)
      BY <1>1, <3>1, YoungestIsPushed
    <3>3. u \in WritersIn(b, r)
      BY <1>2, <3>1, <3>2 DEF WritersIn
    <3>4. QED BY <1>2, <3>1, <3>2, <3>3 DEF Older
  <2>3. QED BY <2>1, <2>2
<1>6. rat[r] = {t \in Writers(r) : \A u \in Writers(r) : Age(rob, u) <= Age(rob, t)}
  BY DEF RatTracksYoungestWriter, Rank, Age
<1>7. CASE rat[r] = {}
  <2>1. Writers(r) = {}
    <3>1. Writers(r) \in SUBSET Tag
      BY DEF Writers
    <3>2. QED BY <1>2, <1>6, <1>7, <3>1, YoungestExists
  <2>2. Resolve(b, r) = Ready(regs[r])
    BY <1>7 DEF Resolve
  <2>3. QED BY <1>5, <2>1, <2>2 DEF Ready, ReadsReg, Before
<1>8. CASE rat[r] # {}
  <2>. DEFINE t == The(rat[r])
  <2>1. t \in Tag /\ t \in rat[r]
    BY <1>8, TheProperties DEF TypeOK
  <2>2. t \in Writers(r) /\ \A u \in Writers(r) : u \in Tag /\ Age(rob, u) <= Age(rob, t)
    BY <1>6, <2>1 DEF Writers
  <2>. HIDE DEF t
  <2>3. Source(b, t, rob.tail, r)
    BY <1>2, <1>5, <2>1, <2>2 DEF Source
  <2>4. CASE TagResult(b, t) = {}
    <3>1. Resolve(b, r) = Waiting(t)
      BY <1>8, <2>4 DEF Resolve, t
    <3>2. QED BY <2>1, <2>3, <3>1 DEF Waiting, ReadsReg
  <2>5. CASE TagResult(b, t) # {}
    <3>1. Resolve(b, r) = Ready(The(TagResult(b, t)))
      BY <1>8, <2>5 DEF Resolve, t
    <3>2. TagResult(b, t) \in Option(Word)
      BY <2>1, TagResultFacts DEF RobBuffer
    <3>3. The(TagResult(b, t)) \in TagResult(b, t)
      BY <2>5, <3>2, TheProperties
    <3>4. Before(b, regs, The(TagResult(b, t)), rob.tail, r)
      BY <2>1, <2>3, <3>3 DEF Before
    <3>5. QED BY <3>1, <3>4 DEF Ready, ReadsReg
  <2>6. QED BY <2>4, <2>5
<1>9. QED BY <1>7, <1>8

\* Instructions that have their operands are carried on over a step to buffer c and
\* registers h.
CarriedOn(m, c, h) ==
  \A x \in RsEntry :
    Pending(x.tag) /\ Waits(x) = {} /\ Carries(rob, regs, m, x) => Carries(c, h, m, x)

LEMMA AluKept ==
  ASSUME HomeInv, NEW m, NEW c, NEW h, AluRight(m), CarriedOn(m, c, h)
  PROVE  \A j \in DOMAIN alu.inProgress : Carries(c, h, m, alu.inProgress[j].instr)
<1>1. ASSUME NEW j \in DOMAIN alu.inProgress, NEW x, x = alu.inProgress[j].instr
      PROVE  Carries(c, h, m, x)
  <2>1. x \in RsEntry /\ Pending(x.tag) /\ Waits(x) = {}
    BY <1>1, AluInFlight
  <2>2. Carries(rob, regs, m, x)
    BY <1>1 DEF AluRight
  <2>3. QED BY <2>1, <2>2 DEF CarriedOn
<1>2. QED BY <1>1

LEMMA LoadsKept ==
  ASSUME HomeInv, NEW C, NEW m, NEW c, NEW h, LoadsRight(C, m), CarriedOn(m, c, h)
  PROVE  /\ \A x \in aluMem.staged \cup aluMem.active : IsLoad(x.instr.op) => Addressed(c, h, m, x)
         /\ \A x \in memRob.staged \cup memRob.active : IsLoad(x.instr.op) => Loaded(C, c, h, m, x)
<1>1. ASSUME NEW x \in aluMem.staged \cup aluMem.active, IsLoad(x.instr.op)
      PROVE  Addressed(c, h, m, x)
  <2>1. Addressed(rob, regs, m, x)
    BY <1>1 DEF LoadsRight
  <2>2. x.instr \in RsEntry /\ Pending(x.tag)
    BY <1>1, LoadInFlight
  <2>3. QED BY <2>1, <2>2 DEF Addressed, CarriedOn
<1>2. ASSUME NEW x \in memRob.staged \cup memRob.active, IsLoad(x.instr.op)
      PROVE  Loaded(C, c, h, m, x)
  <2>1. Loaded(C, rob, regs, m, x)
    BY <1>2 DEF LoadsRight
  <2>2. x.instr \in RsEntry /\ Pending(x.tag)
    BY <1>2, LoadInFlight
  <2>3. QED BY <2>1, <2>2 DEF Loaded, CarriedOn
<1>3. QED BY <1>1, <1>2

\* An issue leaves what is in flight as it is.
LEMMA CarriedAfterPush ==
  ASSUME NEW C \in SUBSET Addr, NEW m \in [Addr \ C -> Word], HomeInv, RobRight(C, m),
         ~IsFull(RobSize, rob), NEW y \in RobEntry, NEW c, c = Push(RobSize, rob, y),
         NEW x \in RsEntry, Pending(x.tag), Carries(rob, regs, m, x),
         \A u \in Waits(x) : TagResult(rob, u) = {}
  PROVE  Carries(c, regs, m, x)
<1>1. TypeOK /\ RobWindow /\ x.tag \in Tag
  BY DEF HomeInv, IInv, RsEntry
<1>2. /\ rob \in RobBuffer /\ rob.data[rob.tail] = {} /\ WindowInv(RobSize, rob)
      /\ rob.data[x.tag] # {}
  <2>1. rob \in BufferOf(RobSize, RobEntry) /\ WindowInv(RobSize, rob) /\ RobSize \in Nat \ {0}
    BY <1>1, OooAssumption DEF TypeOK, RobWindow
  <2>2. rob.data[rob.tail] = {}
    BY <2>1, PushSound
  <2>3. rob.data[x.tag] # {}
    BY DEF Pending
  <2>4. QED BY <2>1, <2>2, <2>3 DEF RobBuffer
<1>3. KeepsReads(rob, regs, c, regs, x.tag)
  BY <1>1, <1>2, PushKeepsReads
<1>4. c.data[x.tag] = rob.data[x.tag]
  BY <1>1, <1>2, PushFacts
<1>5. \A e \in rob.data[x.tag] : \E f \in c.data[x.tag] : SameInstr(e, f)
  BY <1>4 DEF SameInstr
<1>6. QED BY <1>3, <1>5, FlightKept

LEMMA FlightAfterIssue ==
  ASSUME NEW C \in SUBSET Addr, NEW m \in [Addr \ C -> Word], HomeInv, InFlight(C, m), Issue
  PROVE  InFlight(C, m)'
<1>1. TypeOK /\ RobWindow /\ RatTracksYoungestWriter /\ ~IsFull(RobSize, rob)
  BY DEF HomeInv, IInv, Issue
<1>2. /\ Rom(C, mem) = m /\ FrontRight(C, m) /\ RobRight(C, m) /\ StationRight(m) /\ AluRight(m)
      /\ LoadsRight(C, m)
  BY DEF InFlight
<1>. DEFINE b(d) == Push(RobSize, rob, NewRobEntry(d))
            entry(d) == NewRsEntry(rob.tail, d, Resolve(b(d), d.instr.rs1),
                                                Resolve(b(d), d.instr.rs2))
<1>3. PICK d \in Decoded :
        /\ d \in idRs.active /\ rob.tail \in Tag /\ rob.data[rob.tail] = {}
        /\ NewRobEntry(d) \in RobEntry /\ b(d) \in BufferOf(RobSize, RobEntry)
        /\ entry(d) \in RsEntry /\ rob' = b(d) /\ rs' = Append(rs, entry(d))
  BY <1>1, IssueFacts
<1>4. PICK c, y, new : c = b(d) /\ y = entry(d) /\ new = NewRobEntry(d)
  OBVIOUS
<1>5. /\ new \in RobEntry /\ c \in RobBuffer /\ c = Push(RobSize, rob, new) /\ y \in RsEntry
      /\ y = NewRsEntry(rob.tail, d, Resolve(c, d.instr.rs1), Resolve(c, d.instr.rs2))
      /\ rob' = c /\ rs' = Append(rs, y)
  BY <1>3, <1>4 DEF RobBuffer
<1>. HIDE DEF b, entry
<1>6. /\ rob \in RobBuffer /\ WindowInv(RobSize, rob) /\ c.data[rob.tail] = {new}
      /\ \A u \in Tag : u # rob.tail => c.data[u] = rob.data[u]
  <2>1. rob \in RobBuffer /\ WindowInv(RobSize, rob)
    BY <1>1 DEF TypeOK, RobWindow, RobBuffer
  <2>2. QED BY <1>5, <2>1, PushFacts
<1>7. d.pc \in Addr \ C /\ d.instr \in Decode[m[d.pc]]
  BY <1>2, <1>3 DEF FrontRight
<1>8. UNCHANGED <<mem, regs, ifId, alu, aluMem, memRob>> /\ idRs' = Taken(idRs)
  BY DEF Issue, backVars
<1>9. FrontRight(C, m)' /\ Rom(C, mem)' = m
  BY <1>2, <1>8 DEF FrontRight, Taken
<1>10. ASSUME NEW t \in Tag PROVE EntryRight(C, c, regs, m, t)
  <2>1. CASE t = rob.tail
    <3>1. c.data[t] = {new} /\ new.result = {} /\ new.pc = d.pc
          /\ new.format = FormatOf(d.instr.op) /\ new.rd = d.instr.rd
      BY <1>4, <1>6, <2>1 DEF NewRobEntry
    <3>2. QED BY <1>7, <3>1 DEF EntryRight
  <2>2. CASE t # rob.tail /\ rob.data[t] = {}
    BY <1>6, <2>2 DEF EntryRight
  <2>3. CASE t # rob.tail /\ rob.data[t] # {}
    <3>1. KeepsReads(rob, regs, c, regs, t)
      BY <1>1, <1>3, <1>5, <1>6, <2>3, PushKeepsReads
    <3>2. EntryRight(C, rob, regs, m, t)
      BY <1>2 DEF RobRight
    <3>3. \A f \in c.data[t] : \E e \in rob.data[t] : SameInstr(e, f) /\ f.result \subseteq e.result
      BY <1>6, <2>3 DEF SameInstr
    <3>4. QED BY <3>1, <3>2, <3>3, EntryKept
  <2>4. QED BY <2>1, <2>2, <2>3
<1>11. RobRight(C, m)'
  BY <1>5, <1>8, <1>10 DEF RobRight, Tag
<1>12. CarriedOn(m, c, regs)
  <2>1. ASSUME NEW x \in RsEntry, Pending(x.tag), Waits(x) = {}, Carries(rob, regs, m, x)
        PROVE  Carries(c, regs, m, x)
    BY <1>1, <1>2, <1>5, <2>1, CarriedAfterPush
  <2>2. QED BY <2>1 DEF CarriedOn
<1>13. AluRight(m)'
  <2>1. \A j \in DOMAIN alu.inProgress : Carries(c, regs, m, alu.inProgress[j].instr)
    BY <1>2, <1>12, AluKept
  <2>2. QED BY <1>5, <1>8, <2>1 DEF AluRight
<1>14. LoadsRight(C, m)'
  <2>1. /\ \A x \in aluMem.staged \cup aluMem.active :
             IsLoad(x.instr.op) => Addressed(c, regs, m, x)
        /\ \A x \in memRob.staged \cup memRob.active :
             IsLoad(x.instr.op) => Loaded(C, c, regs, m, x)
    BY <1>2, <1>12, LoadsKept
  <2>2. QED BY <1>5, <1>8, <2>1 DEF LoadsRight
<1>15. Carries(c, regs, m, y)
  <2>1. /\ y.tag = rob.tail /\ y.op = d.instr.op /\ y.pc = d.pc /\ y.imm = d.instr.imm
        /\ y.rs1 = Resolve(c, d.instr.rs1) /\ y.rs2 = Resolve(c, d.instr.rs2)
    BY <1>5 DEF NewRsEntry
  <2>2. d.instr.rs1 \in Reg /\ d.instr.rs2 \in Reg
    BY <1>7, DecodedAt
  <2>3. /\ ReadsReg(c, regs, y.rs1, y.tag, d.instr.rs1)
        /\ ReadsReg(c, regs, y.rs2, y.tag, d.instr.rs2)
    BY <1>1, <1>5, <2>1, <2>2, ResolvedRight
  <2>4. new \in c.data[y.tag] /\ new.pc = d.pc
    BY <1>4, <1>6, <2>1 DEF NewRobEntry
  <2>5. QED BY <1>7, <2>1, <2>3, <2>4 DEF Carries
<1>16. StationRight(m)'
  <2>1. /\ DOMAIN rs' = 1 .. Len(rs) + 1 /\ rs'[Len(rs) + 1] = y /\ DOMAIN rs = 1 .. Len(rs)
        /\ \A j \in 1 .. Len(rs) : rs'[j] = rs[j]
    BY <1>1, <1>5, StationShape, AppendProperties
  <2>2. Len(rs) \in Nat
    BY <1>1, StationShape
  <2>3. ASSUME NEW j \in 1 .. Len(rs), NEW x, x = rs[j] PROVE Carries(c, regs, m, x)
    <3>1. x \in RsEntry /\ Pending(x.tag) /\ \A u \in Waits(x) : TagResult(rob, u) = {}
      BY <2>1, <2>3, StationInFlight
    <3>2. Carries(rob, regs, m, x)
      BY <1>2, <2>1, <2>3 DEF StationRight
    <3>3. QED BY <1>1, <1>2, <1>5, <3>1, <3>2, CarriedAfterPush
  <2>4. ASSUME NEW j \in 1 .. Len(rs) + 1 PROVE Carries(c, regs, m, rs'[j])
    <3>1. j \in 1 .. Len(rs) \/ j = Len(rs) + 1
      BY <2>2
    <3>2. QED BY <1>15, <2>1, <2>3, <3>1
  <2>5. QED BY <1>5, <1>8, <2>1, <2>4 DEF StationRight
<1>17. QED BY <1>9, <1>11, <1>13, <1>14, <1>16 DEF InFlight

\* dispatch() moves entries about.
LEMMA FlightAfterDispatch ==
  ASSUME NEW C \in SUBSET Addr, NEW m \in [Addr \ C -> Word], HomeInv, InFlight(C, m),
         DispatchSkip \/ DispatchBlocked \/ Dispatch \/ DispatchNone
  PROVE  InFlight(C, m)'
<1>1. TypeOK
  BY DEF HomeInv, IInv
<1>2. /\ Rom(C, mem) = m /\ FrontRight(C, m) /\ RobRight(C, m) /\ StationRight(m) /\ AluRight(m)
      /\ LoadsRight(C, m)
  BY DEF InFlight
<1>3. UNCHANGED <<mem, regs, ifId, idRs, rob, aluMem, memRob>>
  BY DEF DispatchSkip, DispatchBlocked, Dispatch, DispatchNone, frontVars, archVars, backVars
<1>4. Rom(C, mem)' = m /\ FrontRight(C, m)' /\ RobRight(C, m)' /\ LoadsRight(C, m)'
  BY <1>2, <1>3 DEF FrontRight, RobRight, LoadsRight
<1>5. Len(rs) \in Nat /\ DOMAIN rs = 1 .. Len(rs)
  BY <1>1, StationShape
<1>6. StationRight(m)'
  <2>1. CASE DispatchSkip \/ DispatchNone
    BY <1>2, <1>3, <2>1 DEF DispatchSkip, DispatchNone, StationRight
  <2>2. CASE DispatchBlocked
    <3>1. /\ scan \in 1 .. Len(rs) /\ DOMAIN rs' = 1 .. Len(rs)
          /\ \A j \in 1 .. Len(rs) :
               rs'[j] = IF j = 1 THEN rs[scan] ELSE IF j <= scan THEN rs[j - 1] ELSE rs[j]
      BY <1>1, <2>2, StationAfterBlocked
    <3>2. ASSUME NEW j \in 1 .. Len(rs) PROVE \E k \in 1 .. Len(rs) : rs'[j] = rs[k]
      BY <1>5, <3>1
    <3>3. QED BY <1>2, <1>3, <1>5, <3>1, <3>2 DEF StationRight
  <2>3. CASE Dispatch
    <3>1. /\ scan \in 1 .. Len(rs) /\ DOMAIN rs' = 1 .. Len(rs) - 1
          /\ \A j \in 1 .. Len(rs) - 1 : rs'[j] = rs[IF j < scan THEN j ELSE j + 1]
      BY <1>1, <2>3, StationAfterDispatch
    <3>2. ASSUME NEW j \in 1 .. Len(rs) - 1 PROVE \E k \in 1 .. Len(rs) : rs'[j] = rs[k]
      BY <1>5, <3>1
    <3>3. QED BY <1>2, <1>3, <1>5, <3>1, <3>2 DEF StationRight
  <2>4. QED BY <2>1, <2>2, <2>3
<1>7. AluRight(m)'
  <2>1. CASE DispatchSkip \/ DispatchBlocked \/ DispatchNone
    BY <1>2, <1>3, <2>1 DEF DispatchSkip, DispatchBlocked, DispatchNone, AluRight
  <2>2. CASE Dispatch
    <3>1. /\ DOMAIN alu'.inProgress = 1 .. Len(alu.inProgress) + 1
          /\ \A j \in 1 .. Len(alu.inProgress) :
               alu'.inProgress[j].instr = alu.inProgress[j].instr
          /\ alu'.inProgress[Len(alu.inProgress) + 1].instr = rs[scan]
      BY <1>1, <2>2, AluAfterDispatch
    <3>2. Len(alu.inProgress) \in Nat /\ DOMAIN alu.inProgress = 1 .. Len(alu.inProgress)
      BY <1>1, CoreAluShape
    <3>3. Carries(rob, regs, m, rs[scan])
      BY <1>2, <2>2 DEF Dispatch, StationRight
    <3>4. ASSUME NEW j \in 1 .. Len(alu.inProgress) + 1
          PROVE  Carries(rob, regs, m, alu'.inProgress[j].instr)
      <4>1. j \in 1 .. Len(alu.inProgress) \/ j = Len(alu.inProgress) + 1
        BY <3>2
      <4>2. QED BY <1>2, <3>1, <3>2, <3>3, <4>1 DEF AluRight
    <3>5. QED BY <1>3, <3>1, <3>4 DEF AluRight
  <2>3. QED BY <2>1, <2>2
<1>8. QED BY <1>4, <1>6, <1>7 DEF InFlight

\* A broadcast of the right result, and what is in flight.
LEMMA FlightAfterBroadcast ==
  ASSUME NEW C \in SUBSET Addr, NEW m \in [Addr \ C -> Word], HomeInv, InFlight(C, m),
         NEW x \in RsEntry, Pending(x.tag), Carries(rob, regs, m, x), Waits(x) = {},
         NEW v \in Word, Yields(C, m, x, x.pc, x.rs1.val, x.rs2.val, v),
         Broadcast(x.tag, v), regs' = regs
  PROVE  RobRight(C, m)' /\ StationRight(m)' /\ CarriedOn(m, rob', regs')
<1>1. TypeOK /\ RobRight(C, m) /\ StationRight(m)
  BY DEF HomeInv, IInv, InFlight
<1>2. x.tag \in Tag
  BY DEF RsEntry
<1>3. PICK c : c = RobUpdated(x.tag, v)
  OBVIOUS
<1>4. rob' = c /\ rs' = RsUpdated(x.tag, v)
  BY <1>3 DEF Broadcast
<1>5. \A t \in Tag : EntryRight(C, c, regs, m, t)
  BY <1>1, <1>3, RobAfterBroadcast
<1>6. RobRight(C, m)'
  BY <1>4, <1>5 DEF RobRight, Tag
<1>7. ASSUME NEW y \in RsEntry, Carries(rob, regs, m, y), \A u \in Waits(y) : TagResult(rob, u) = {}
      PROVE  Carries(c, regs, m, Woken(y, x.tag, v)) /\ Carries(c, regs, m, y)
  BY <1>1, <1>2, <1>3, <1>7, CarriedAfterBroadcast
<1>8. CarriedOn(m, c, regs)
  BY <1>7 DEF CarriedOn
<1>9. /\ DOMAIN rs = 1 .. Len(rs) /\ DOMAIN rs' = 1 .. Len(rs)
      /\ \A j \in 1 .. Len(rs) : rs'[j] = Woken(rs[j], x.tag, v)
  <2>1. /\ RsUpdated(x.tag, v) \in Seq(RsEntry) /\ Len(RsUpdated(x.tag, v)) = Len(rs)
        /\ \A j \in 1 .. Len(rs) : RsUpdated(x.tag, v)[j] = Woken(rs[j], x.tag, v)
    BY <1>1, <1>2, BroadcastType
  <2>2. DOMAIN rs = 1 .. Len(rs)
    BY <1>1, StationShape
  <2>3. QED BY <1>4, <2>1, <2>2
<1>10. ASSUME NEW j \in 1 .. Len(rs), NEW y, y = rs[j]
       PROVE  Carries(c, regs, m, Woken(y, x.tag, v))
  <2>1. y \in RsEntry /\ \A u \in Waits(y) : TagResult(rob, u) = {}
    BY <1>9, <1>10, StationInFlight
  <2>2. Carries(rob, regs, m, y)
    BY <1>1, <1>9, <1>10 DEF StationRight
  <2>3. QED BY <1>7, <2>1, <2>2
<1>11. StationRight(m)'
  BY <1>4, <1>9, <1>10 DEF StationRight
<1>12. CarriedOn(m, rob', regs')
  BY <1>4, <1>8
<1>13. QED BY <1>6, <1>11, <1>12

\* EX: what leaves the ALU has the right result, or the address of a load.
LEMMA FlightAfterExecute ==
  ASSUME NEW C \in SUBSET Addr, NEW m \in [Addr \ C -> Word], HomeInv, InFlight(C, m),
         Separated(C)', Execute
  PROVE  InFlight(C, m)'
<1>1. TypeOK
  BY DEF HomeInv, IInv
<1>2. /\ Rom(C, mem) = m /\ FrontRight(C, m) /\ RobRight(C, m) /\ StationRight(m) /\ AluRight(m)
      /\ LoadsRight(C, m)
  BY DEF InFlight
<1>3. PICK i \in DOMAIN alu.inProgress :
        LET res == AluResult(alu.inProgress[i].instr)
        IN /\ alu' = TickFinish(alu, i)
           /\ IF IsLoad(res.instr.op) THEN UNCHANGED <<rs, rob>>
                ELSE Broadcast(res.tag, res.result)
           /\ aluMem' = Staged(aluMem, res)
  BY DEF Execute
<1>4. PICK x, v : x = alu.inProgress[i].instr
                  /\ v = Compute(x.op, x.pc, x.rs1.val, x.rs2.val, x.imm)
  OBVIOUS
<1>5. PICK res : res = AluResult(x)
  OBVIOUS
<1>6. res = [tag |-> x.tag, instr |-> x, result |-> v]
  BY <1>4, <1>5 DEF AluResult
<1>7. res.tag = x.tag /\ res.instr = x /\ res.result = v
  BY <1>6
<1>8. /\ alu' = TickFinish(alu, i)
      /\ IF IsLoad(x.op) THEN UNCHANGED <<rs, rob>> ELSE Broadcast(x.tag, v)
      /\ aluMem'.staged = {res} /\ aluMem'.active = aluMem.active
  BY <1>3, <1>4, <1>5, <1>7 DEF Staged
<1>9. x \in RsEntry /\ x.tag \in Tag /\ Pending(x.tag) /\ Waits(x) = {}
  BY <1>4, AluInFlight
<1>10. Carries(rob, regs, m, x)
  BY <1>2, <1>4 DEF AluRight
<1>11. v \in Word
  <2>1. AluResult(x) \in Result
    BY <1>9, AluResultType
  <2>2. QED BY <1>5, <1>7, <2>1 DEF Result
<1>12. UNCHANGED <<mem, regs, ifId, idRs, memRob>>
  BY DEF Execute, archVars
<1>13. RobRight(C, m)' /\ StationRight(m)' /\ CarriedOn(m, rob', regs')
  <2>1. CASE IsLoad(x.op)
    <3>1. UNCHANGED <<rs, rob, regs>>
      BY <1>8, <1>12, <2>1
    <3>2. QED BY <1>2, <3>1 DEF RobRight, StationRight, CarriedOn
  <2>2. CASE ~IsLoad(x.op)
    <3>1. Broadcast(x.tag, v)
      BY <1>8, <2>2
    <3>2. IsStore(x.op) => v \in C
      <4>1. \A y \in aluMem'.staged : IsStore(y.instr.op) => y.result \in C
        BY DEF Separated
      <4>2. QED BY <1>7, <1>8, <4>1
    <3>3. IsStore(x.op) => v = Wrap(x.rs1.val + x.imm)
      BY <1>4 DEF Compute, IsStore, StoreOps
    <3>4. Yields(C, m, x, x.pc, x.rs1.val, x.rs2.val, v)
      BY <1>4, <2>2, <3>2, <3>3 DEF Yields, AccessesMemory
    <3>5. QED BY <1>9, <1>10, <1>11, <1>12, <3>1, <3>4, FlightAfterBroadcast
  <2>3. QED BY <2>1, <2>2
<1>14. AluRight(m)'
  <2>1. \A j \in DOMAIN alu.inProgress : Carries(rob', regs', m, alu.inProgress[j].instr)
    BY <1>2, <1>13, AluKept
  <2>2. /\ DOMAIN alu.inProgress = 1 .. Len(alu.inProgress) /\ Len(alu.inProgress) \in Nat
        /\ DOMAIN alu'.inProgress = 1 .. Len(alu.inProgress) - 1
        /\ \A j \in 1 .. Len(alu.inProgress) - 1 :
             alu'.inProgress[j].instr = alu.inProgress[IF j < i THEN j ELSE j + 1].instr
    BY <1>1, <1>8, CoreAluShape, AluAfterFinish
  <2>3. \A j \in 1 .. Len(alu.inProgress) - 1 :
          (IF j < i THEN j ELSE j + 1) \in 1 .. Len(alu.inProgress)
    BY <2>2
  <2>4. QED BY <2>1, <2>2, <2>3 DEF AluRight
<1>15. LoadsRight(C, m)'
  <2>1. /\ \A y \in aluMem.staged \cup aluMem.active :
             IsLoad(y.instr.op) => Addressed(rob', regs', m, y)
        /\ \A y \in memRob.staged \cup memRob.active :
             IsLoad(y.instr.op) => Loaded(C, rob', regs', m, y)
    BY <1>2, <1>13, LoadsKept
  <2>2. IsLoad(x.op) => Addressed(rob', regs', m, res)
    <3>1. SUFFICES ASSUME IsLoad(x.op) PROVE Addressed(rob', regs', m, res)
      OBVIOUS
    <3>2. Carries(rob', regs', m, x)
      BY <1>9, <1>10, <1>13 DEF CarriedOn
    <3>3. v = Wrap(x.rs1.val + x.imm)
      BY <1>4, <3>1 DEF Compute, IsLoad, LoadOps
    <3>4. QED BY <1>7, <1>9, <3>2, <3>3 DEF Addressed, LoadAddr
  <2>3. QED BY <1>7, <1>8, <1>12, <2>1, <2>2 DEF LoadsRight
<1>16. FrontRight(C, m)' /\ Rom(C, mem)' = m
  BY <1>2, <1>12 DEF FrontRight
<1>17. QED BY <1>13, <1>14, <1>15, <1>16 DEF InFlight

\* MEM: a load reads the word of the program at its address; a store writes into C.
LEMMA FlightAfterMem ==
  ASSUME NEW C \in SUBSET Addr, NEW m \in [Addr \ C -> Word], HomeInv, InFlight(C, m),
         Separated(C), MemStage
  PROVE  InFlight(C, m)'
<1>1. TypeOK
  BY DEF HomeInv, IInv
<1>2. /\ Rom(C, mem) = m /\ FrontRight(C, m) /\ RobRight(C, m) /\ StationRight(m) /\ AluRight(m)
      /\ LoadsRight(C, m)
  BY DEF InFlight
<1>3. PICK r \in aluMem.active :
        /\ AccessesMemory(r.instr.op) => r.result \in Addr
        /\ memRob' = Staged(memRob, [r EXCEPT !.result =
                       CASE IsLoad(r.instr.op)  -> mem[r.result]
                         [] IsStore(r.instr.op) -> 0
                         [] OTHER               -> r.result])
        /\ mem' = MemAfter(r)
  BY DEF MemStage
<1>4. r \in Result
  BY <1>1, OptionMember DEF TypeOK, LatchOf
<1>5. UNCHANGED <<regs, ifId, idRs, rs, rob, alu>> /\ aluMem' = Taken(aluMem)
  BY DEF MemStage, frontVars, execVars
<1>6. FrontRight(C, m)' /\ RobRight(C, m)' /\ StationRight(m)' /\ AluRight(m)'
  BY <1>2, <1>5 DEF FrontRight, RobRight, StationRight, AluRight
<1>7. Rom(C, mem)' = m
  <2>1. CASE IsStore(r.instr.op)
    <3>1. r.result \in C
      BY <2>1 DEF Separated
    <3>2. mem' = [mem EXCEPT ![r.result] = r.instr.rs2.val]
      BY <1>3, <2>1 DEF MemAfter
    <3>3. \A a \in Addr \ C : mem'[a] = mem[a]
      BY <1>1, <3>1, <3>2 DEF TypeOK
    <3>4. QED BY <1>2, <3>3 DEF Rom
  <2>2. CASE ~IsStore(r.instr.op)
    BY <1>2, <1>3, <2>2 DEF MemAfter
  <2>3. QED BY <2>1, <2>2
<1>8. PICK w : w = CASE IsLoad(r.instr.op)  -> mem[r.result]
                     [] IsStore(r.instr.op) -> 0
                     [] OTHER               -> r.result
  OBVIOUS
<1>9. PICK z : z = [r EXCEPT !.result = w]
  OBVIOUS
<1>10. z.tag = r.tag /\ z.instr = r.instr /\ z.result = w
  BY <1>4, <1>9 DEF Result
<1>11. memRob'.staged = {z} /\ memRob'.active = memRob.active
  BY <1>3, <1>8, <1>9 DEF Staged
<1>12. IsLoad(z.instr.op) => Loaded(C, rob, regs, m, z)
  <2>1. SUFFICES ASSUME IsLoad(r.instr.op) PROVE Loaded(C, rob, regs, m, z)
    BY <1>10
  <2>2. Addressed(rob, regs, m, r)
    BY <1>2, <2>1 DEF LoadsRight
  <2>3. r.result \in Addr \ C
    BY <1>3, <2>1 DEF Separated, AccessesMemory
  <2>4. w = m[r.result]
    <3>1. w = mem[r.result]
      BY <1>8, <2>1 DEF IsLoad, IsStore, LoadOps, StoreOps
    <3>2. QED BY <1>2, <2>3, <3>1, RomAt
  <2>5. LoadAddr(z) = LoadAddr(r)
    BY <1>10 DEF LoadAddr
  <2>6. QED BY <1>10, <2>2, <2>3, <2>4, <2>5 DEF Addressed, Loaded
<1>13. LoadsRight(C, m)'
  BY <1>2, <1>5, <1>11, <1>12 DEF LoadsRight, Taken
<1>14. QED BY <1>6, <1>7, <1>13 DEF InFlight

\* WB: the word loaded is the result.
LEMMA FlightAfterWriteBack ==
  ASSUME NEW C \in SUBSET Addr, NEW m \in [Addr \ C -> Word], HomeInv, InFlight(C, m),
         WriteBackLoad \/ WriteBackOther
  PROVE  InFlight(C, m)'
<1>1. TypeOK
  BY DEF HomeInv, IInv
<1>2. /\ Rom(C, mem) = m /\ FrontRight(C, m) /\ RobRight(C, m) /\ StationRight(m) /\ AluRight(m)
      /\ LoadsRight(C, m)
  BY DEF InFlight
<1>3. UNCHANGED <<mem, regs, ifId, idRs, alu, aluMem>> /\ memRob' = Taken(memRob)
  BY DEF WriteBackLoad, WriteBackOther, frontVars, archVars, execVars
<1>4. RobRight(C, m)' /\ StationRight(m)' /\ CarriedOn(m, rob', regs')
  <2>1. CASE WriteBackOther
    <3>1. UNCHANGED <<rs, rob, regs>>
      BY <2>1 DEF WriteBackOther, archVars, execVars
    <3>2. QED BY <1>2, <3>1 DEF RobRight, StationRight, CarriedOn
  <2>2. CASE WriteBackLoad
    <3>1. PICK r \in memRob.active : IsLoad(r.instr.op) /\ Broadcast(r.tag, r.result)
      BY <2>2 DEF WriteBackLoad
    <3>2. r \in Result /\ r.instr \in RsEntry /\ Pending(r.tag)
      BY <3>1, LoadInFlight
    <3>3. Loaded(C, rob, regs, m, r)
      BY <1>2, <3>1 DEF LoadsRight
    <3>4. PICK x, v : x = r.instr /\ v = r.result
      OBVIOUS
    <3>5. /\ x \in RsEntry /\ x.tag = r.tag /\ Waits(x) = {} /\ Carries(rob, regs, m, x)
          /\ v \in Word /\ IsLoad(x.op)
          /\ Wrap(x.rs1.val + x.imm) \in Addr \ C /\ v = m[Wrap(x.rs1.val + x.imm)]
      BY <3>1, <3>2, <3>3, <3>4 DEF Loaded, LoadAddr, Result
    <3>6. Yields(C, m, x, x.pc, x.rs1.val, x.rs2.val, v)
      BY <3>5 DEF Yields, AccessesMemory, IsLoad, IsStore, LoadOps, StoreOps
    <3>7. Pending(x.tag) /\ Broadcast(x.tag, v)
      BY <3>1, <3>2, <3>4, <3>5
    <3>8. QED BY <1>3, <3>5, <3>6, <3>7, FlightAfterBroadcast
  <2>3. QED BY <2>1, <2>2
<1>5. AluRight(m)'
  <2>1. \A j \in DOMAIN alu.inProgress : Carries(rob', regs', m, alu.inProgress[j].instr)
    BY <1>2, <1>4, AluKept
  <2>2. QED BY <1>3, <2>1 DEF AluRight
<1>6. LoadsRight(C, m)'
  <2>1. /\ \A y \in aluMem.staged \cup aluMem.active :
             IsLoad(y.instr.op) => Addressed(rob', regs', m, y)
        /\ \A y \in memRob.staged \cup memRob.active :
             IsLoad(y.instr.op) => Loaded(C, rob', regs', m, y)
    BY <1>2, <1>4, LoadsKept
  <2>2. QED BY <1>3, <2>1 DEF LoadsRight, Taken
<1>7. FrontRight(C, m)' /\ Rom(C, mem)' = m
  BY <1>2, <1>3 DEF FrontRight
<1>8. QED BY <1>4, <1>5, <1>6, <1>7 DEF InFlight

\* CM: whoever reads the released result now finds it in the register file.
LEMMA FlightAfterCommit ==
  ASSUME NEW C \in SUBSET Addr, NEW m \in [Addr \ C -> Word], HomeInv, InFlight(C, m), Commit
  PROVE  InFlight(C, m)'
<1>1. TypeOK /\ RobWindow
  BY DEF HomeInv, IInv
<1>2. /\ Rom(C, mem) = m /\ FrontRight(C, m) /\ RobRight(C, m) /\ StationRight(m) /\ AluRight(m)
      /\ LoadsRight(C, m)
  BY DEF InFlight
<1>3. UNCHANGED <<mem, ifId, idRs, rs, alu, aluMem, memRob>>
  BY DEF Commit, frontVars, backVars
<1>4. PICK e \in RobEntry :
        /\ rob.head \in Tag /\ rob.data[rob.head] = {e} /\ e.result # {}
        /\ The(e.result) \in Word
        /\ IF WritesRd(e.format) /\ e.rd # 0
             THEN /\ regs' = [regs EXCEPT ![e.rd] = The(e.result)]
                  /\ rat' = [rat EXCEPT ![e.rd] = AliasAfterCommit(e.rd, rob.head)]
             ELSE UNCHANGED <<regs, rat>>
        /\ rob' = Pop(RobSize, rob)
  BY <1>1, CommitFacts
<1>5. PICK c, h, w : c = Pop(RobSize, rob) /\ w = The(e.result) /\ h = Committed(regs, e, w)
  OBVIOUS
<1>6. rob' = c /\ regs' = h
  BY <1>4, <1>5 DEF Committed
<1>7. e.result = {w} /\ w \in Word
  <2>1. e.result \in Option(Word)
    BY DEF RobEntry
  <2>2. QED BY <1>4, <1>5, <2>1, TheProperties
<1>8. rob \in RobBuffer /\ regs \in [Reg -> Word]
  BY <1>1 DEF TypeOK, RobBuffer
<1>9. ASSUME NEW t \in Tag, t # rob.head PROVE KeepsReads(rob, regs, c, h, t)
  BY <1>4, <1>5, <1>7, <1>8, <1>9, PopKeepsReads
<1>10. c.data[rob.head] = {} /\ \A u \in Tag : u # rob.head => c.data[u] = rob.data[u]
  <2>1. /\ rob.head \in Tag /\ c.head \in Tag /\ c.data[rob.head] = {}
        /\ \A u \in Tag : u # rob.head => c.data[u] = rob.data[u] /\ Age(c, u) = Age(rob, u) - 1
    BY <1>5, <1>8, PopFacts
  <2>2. QED BY <2>1
<1>11. ~Pending(rob.head)
  BY <1>4 DEF Pending
<1>12. ASSUME NEW t \in Tag PROVE EntryRight(C, c, h, m, t)
  <2>1. CASE t = rob.head
    BY <1>10, <2>1 DEF EntryRight
  <2>2. CASE t # rob.head
    <3>1. EntryRight(C, rob, regs, m, t) /\ KeepsReads(rob, regs, c, h, t)
      BY <1>2, <1>9, <2>2 DEF RobRight
    <3>2. \A f \in c.data[t] : \E x \in rob.data[t] : SameInstr(x, f) /\ f.result \subseteq x.result
      BY <1>10, <2>2 DEF SameInstr
    <3>3. QED BY <3>1, <3>2, EntryKept
  <2>3. QED BY <2>1, <2>2
<1>13. RobRight(C, m)'
  BY <1>6, <1>12 DEF RobRight, Tag
<1>14. ASSUME NEW x \in RsEntry, Pending(x.tag), Carries(rob, regs, m, x),
              \A u \in Waits(x) : TagResult(rob, u) = {}
       PROVE  Carries(c, h, m, x)
  <2>1. x.tag \in Tag /\ x.tag # rob.head
    BY <1>11, <1>14 DEF RsEntry
  <2>2. KeepsReads(rob, regs, c, h, x.tag)
    BY <1>9, <2>1
  <2>3. \A y \in rob.data[x.tag] : \E f \in c.data[x.tag] : SameInstr(y, f)
    BY <1>10, <2>1 DEF SameInstr
  <2>4. QED BY <1>2, <1>14, <2>2, <2>3, FlightKept
<1>15. CarriedOn(m, c, h)
  BY <1>14 DEF CarriedOn
<1>16. StationRight(m)'
  <2>1. ASSUME NEW j \in DOMAIN rs, NEW x, x = rs[j] PROVE Carries(c, h, m, x)
    <3>1. x \in RsEntry /\ Pending(x.tag) /\ \A u \in Waits(x) : TagResult(rob, u) = {}
      BY <2>1, StationInFlight
    <3>2. Carries(rob, regs, m, x)
      BY <1>2, <2>1 DEF StationRight
    <3>3. QED BY <1>14, <3>1, <3>2
  <2>2. QED BY <1>3, <1>6, <2>1 DEF StationRight
<1>17. AluRight(m)'
  <2>1. \A j \in DOMAIN alu.inProgress : Carries(c, h, m, alu.inProgress[j].instr)
    BY <1>2, <1>15, AluKept
  <2>2. QED BY <1>3, <1>6, <2>1 DEF AluRight
<1>18. LoadsRight(C, m)'
  <2>1. /\ \A y \in aluMem.staged \cup aluMem.active :
             IsLoad(y.instr.op) => Addressed(c, h, m, y)
        /\ \A y \in memRob.staged \cup memRob.active :
             IsLoad(y.instr.op) => Loaded(C, c, h, m, y)
    BY <1>2, <1>15, LoadsKept
  <2>2. QED BY <1>3, <1>6, <2>1 DEF LoadsRight
<1>19. FrontRight(C, m)' /\ Rom(C, mem)' = m
  BY <1>2, <1>3 DEF FrontRight
<1>20. QED BY <1>13, <1>16, <1>17, <1>18, <1>19 DEF InFlight

LEMMA FlightAfterAdvance ==
  ASSUME NEW C, NEW m, InFlight(C, m), AdvanceLatches
  PROVE  InFlight(C, m)'
<1>1. /\ ifId'.staged = {} /\ ifId'.active = ifId.staged /\ idRs'.staged = {}
      /\ idRs'.active = idRs.staged /\ aluMem'.staged = {} /\ aluMem'.active = aluMem.staged
      /\ memRob'.staged = {} /\ memRob'.active = memRob.staged
      /\ UNCHANGED <<mem, regs, rs, rob, alu>>
  BY DEF AdvanceLatches, Advanced, archVars, execVars
<1>2. FrontRight(C, m)' /\ Rom(C, mem)' = m
  BY <1>1 DEF InFlight, FrontRight
<1>3. RobRight(C, m)' /\ StationRight(m)' /\ AluRight(m)'
  BY <1>1 DEF InFlight, RobRight, StationRight, AluRight
<1>4. LoadsRight(C, m)'
  BY <1>1 DEF InFlight, LoadsRight
<1>5. QED BY <1>2, <1>3, <1>4 DEF InFlight

LEMMA FlightStep ==
  ASSUME NEW C \in SUBSET Addr, NEW m \in [Addr \ C -> Word], HomeInv, InFlight(C, m),
         Separated(C), Separated(C)', [Next]_vars
  PROVE  InFlight(C, m)'
<1>1. TypeOK
  BY DEF HomeInv, IInv
<1>2. CASE MovesOn \/ UNCHANGED vars
  <2>1. UNCHANGED <<mem, regs, ifId, idRs, rs, rob, alu, aluMem, memRob>>
    BY <1>1, <1>2, MovesOnFacts DEF frontVars, archVars, execVars, backVars
  <2>2. FrontRight(C, m)' /\ Rom(C, mem)' = m
    BY <2>1 DEF InFlight, FrontRight
  <2>3. QED BY <2>1, <2>2, FlightUnchanged
<1>3. CASE ExecuteNone
  <2>1. UNCHANGED <<mem, regs, ifId, idRs, rs, rob, aluMem, memRob>>
    BY <1>3 DEF ExecuteNone, frontVars, archVars, backVars
  <2>2. FrontRight(C, m)' /\ Rom(C, mem)' = m
    BY <2>1 DEF InFlight, FrontRight
  <2>3. /\ DOMAIN alu'.inProgress = DOMAIN alu.inProgress
        /\ \A j \in DOMAIN alu.inProgress : alu'.inProgress[j].instr = alu.inProgress[j].instr
    BY <1>1, <1>3, AluAfterIdle
  <2>4. QED BY <2>1, <2>2, <2>3, FlightUnchanged
<1>4. QED
  BY <1>2, <1>3, FlightAfterFront, FlightAfterIssue, FlightAfterDispatch, FlightAfterExecute,
     FlightAfterMem, FlightAfterWriteBack, FlightAfterCommit, FlightAfterAdvance DEF Next, MovesOn

-----------------------------------------------------------------------------
(* The refinement: a commit is an instruction of the sequential machine *)

\* The instance names the same instruction set.
LEMMA SameIsa ==
  /\ Sequential!Addr = Addr
  /\ \A op : /\ Sequential!IsLoad(op) <=> IsLoad(op)
             /\ Sequential!IsStore(op) <=> IsStore(op)
             /\ Sequential!FormatOf(op) = FormatOf(op)
  /\ \A f : Sequential!WritesRd(f) <=> WritesRd(f)
  /\ \A x : Sequential!Wrap(x) = Wrap(x)
  /\ \A op, p, a, b, imm : Sequential!Compute(op, p, a, b, imm) = Compute(op, p, a, b, imm)
<1>1. Sequential!Addr = Addr
  BY DEF Sequential!Addr, Addr
<1>2. ASSUME NEW op
      PROVE  /\ Sequential!IsLoad(op) <=> IsLoad(op)
             /\ Sequential!IsStore(op) <=> IsStore(op)
             /\ Sequential!FormatOf(op) = FormatOf(op)
  BY DEF Sequential!IsLoad, IsLoad, Sequential!LoadOps, LoadOps, Sequential!IsStore, IsStore,
     Sequential!StoreOps, StoreOps, Sequential!FormatOf, FormatOf
<1>3. \A f : Sequential!WritesRd(f) <=> WritesRd(f)
  BY DEF Sequential!WritesRd, WritesRd
<1>4. \A x : Sequential!Wrap(x) = Wrap(x)
  BY DEF Sequential!Wrap, Wrap
<1>5. ASSUME NEW op, NEW p, NEW a, NEW b, NEW imm
      PROVE  Sequential!Compute(op, p, a, b, imm) = Compute(op, p, a, b, imm)
  BY DEF Sequential!Compute, Compute, Sequential!Wrap, Wrap, Sequential!Bit, Bit, Sequential!Holds,
     Holds, Sequential!Signed, Signed
<1>6. QED BY <1>1, <1>2, <1>3, <1>4, <1>5

\* Nothing in flight is older than the head: what it read is in the register file.
LEMMA HeadReadsRegisters ==
  ASSUME NEW b, b.head \in Tag, NEW g, NEW v, NEW r, Before(b, g, v, b.head, r)
  PROVE  v = g[r]
<1>1. Older(b, b.head, r) = {}
  <2>1. ASSUME NEW u \in Older(b, b.head, r) PROVE FALSE
    <3>1. u \in Tag /\ Age(b, u) < Age(b, b.head)
      BY <2>1 DEF Older, WritersIn
    <3>2. Age(b, u) \in 0 .. RobSize - 1 /\ Age(b, b.head) = 0
      BY <3>1, AgeFacts
    <3>3. QED BY <3>1, <3>2
  <2>2. QED BY <2>1
<1>2. \A u \in Tag : ~Source(b, u, b.head, r)
  BY <1>1 DEF Source
<1>3. QED BY <1>1, <1>2 DEF Before

\* The instruction i at p, executed by the sequential machine with result v.
LEMMA CommitExecutes ==
  ASSUME NEW C \in SUBSET Addr, amem \in [Addr -> Word], NEW m, m = Rom(C, amem),
         NEW p \in Addr \ C, NEW i \in Decode[m[p]], NEW v,
         Yields(C, m, i, p, regs[i.rs1], regs[i.rs2], v),
         regs' = Committed(regs, [rd |-> i.rd, format |-> FormatOf(i.op)], v),
         Observe(i, p)
  PROVE  Sequential!ExecuteAt(p)
<1>1. m[p] = amem[p] /\ p \in Sequential!Addr
  BY RomAt, SameIsa
<1>2. PICK a : a = Wrap(regs[i.rs1] + i.imm)
  OBVIOUS
<1>3. Sequential!EffectiveAddr(i) = a
  BY <1>2, SameIsa DEF Sequential!EffectiveAddr
<1>4. /\ IsStore(i.op) => a \in C
      /\ IsLoad(i.op) => a \in Addr \ C /\ v = m[a]
      /\ ~AccessesMemory(i.op) => v = Compute(i.op, p, regs[i.rs1], regs[i.rs2], i.imm)
  BY <1>2 DEF Yields
<1>5. Sequential!IsLoad(i.op) \/ Sequential!IsStore(i.op)
        => Sequential!EffectiveAddr(i) \in Sequential!Addr
  BY <1>3, <1>4, SameIsa
<1>6. WritesRd(FormatOf(i.op)) => v = Sequential!RdValue(i, p)
  <2>1. CASE IsLoad(i.op)
    <3>1. a \in Addr \ C /\ v = amem[a]
      BY <1>4, <2>1, RomAt
    <3>2. QED BY <1>3, <2>1, <3>1, SameIsa DEF Sequential!RdValue
  <2>2. CASE IsStore(i.op)
    BY <2>2 DEF IsStore, StoreOps, FormatOf, WritesRd
  <2>3. CASE ~IsLoad(i.op) /\ ~IsStore(i.op)
    <3>1. v = Compute(i.op, p, regs[i.rs1], regs[i.rs2], i.imm)
      BY <1>4, <2>3 DEF AccessesMemory
    <3>2. QED BY <2>3, <3>1, SameIsa DEF Sequential!RdValue
  <2>4. QED BY <2>1, <2>2, <2>3
<1>7. regs' = IF Sequential!WritesRd(Sequential!FormatOf(i.op)) /\ i.rd # 0
                THEN [regs EXCEPT ![i.rd] = Sequential!RdValue(i, p)] ELSE regs
  BY <1>6, SameIsa DEF Committed
<1>8. amem' = IF Sequential!IsStore(i.op)
                THEN [amem EXCEPT ![Sequential!EffectiveAddr(i)] = regs[i.rs2]] ELSE amem
  BY <1>3, <1>4, SameIsa DEF Observe
<1>9. apc' = Sequential!Target(i, p)
  BY DEF Observe
<1>10. QED BY <1>1, <1>5, <1>7, <1>8, <1>9 DEF Sequential!ExecuteAt

\* The program stays; only cells of C are written.
LEMMA StoresIntoC ==
  ASSUME NEW C \in SUBSET Addr, amem \in [Addr -> Word], regs \in [Reg -> Word],
         NEW i, i.rs2 \in Reg, NEW p,
         IsStore(i.op) => Wrap(regs[i.rs1] + i.imm) \in C, Observe(i, p)
  PROVE  amem' \in [Addr -> Word] /\ Rom(C, amem') = Rom(C, amem)
<1>1. PICK a : a = Sequential!EffectiveAddr(i) /\ a = Wrap(regs[i.rs1] + i.imm)
  BY SameIsa DEF Sequential!EffectiveAddr
<1>2. CASE ~IsStore(i.op)
  <2>1. amem' = amem
    BY <1>2 DEF Observe
  <2>2. QED BY <2>1
<1>3. CASE IsStore(i.op)
  <2>1. a \in C /\ amem' = [amem EXCEPT ![a] = regs[i.rs2]]
    BY <1>1, <1>3 DEF Observe
  <2>2. QED BY <2>1 DEF Rom
<1>4. QED BY <1>2, <1>3

\* The head holds instruction i of the program and its result v, which is the one i has
\* on the registers.
CommitsAs(C, m, e, i, v) ==
  /\ rob.data[rob.head] = {e} /\ e.pc \in Addr \ C /\ e.result = {v} /\ i \in Decode[m[e.pc]]
  /\ Yields(C, m, i, e.pc, regs[i.rs1], regs[i.rs2], v) /\ Observe(i, e.pc)

\* A commit, seen through the refinement mapping.
LEMMA CommitIsSequential ==
  ASSUME NEW C \in SUBSET Addr, HomeInv, DataInv(C), NEW m, m = Rom(C, amem), Commit,
         \E e \in HeadSlot(rob) : \E i \in Decode[amem[e.pc]] : Observe(i, e.pc)
  PROVE  /\ \E e, i, v : CommitsAs(C, m, e, i, v) /\ Sequential!ExecuteAt(e.pc)
         /\ amem' \in [Addr -> Word] /\ Rom(C, amem') = m
<1>1. TypeOK /\ RobWindow
  BY DEF HomeInv, IInv
<1>2. m = Rom(C, amem) /\ InFlight(C, m)
  BY DEF DataInv
<1>3. amem \in [Addr -> Word] /\ m \in [Addr \ C -> Word]
  BY <1>2 DEF DataInv, Rom
<1>4. PICK e \in RobEntry :
        /\ rob.head \in Tag /\ rob.data[rob.head] = {e} /\ e.result # {}
        /\ The(e.result) \in Word
        /\ IF WritesRd(e.format) /\ e.rd # 0
             THEN /\ regs' = [regs EXCEPT ![e.rd] = The(e.result)]
                  /\ rat' = [rat EXCEPT ![e.rd] = AliasAfterCommit(e.rd, rob.head)]
             ELSE UNCHANGED <<regs, rat>>
        /\ rob' = Pop(RobSize, rob)
  BY <1>1, CommitFacts
<1>5. PICK v : v = The(e.result)
  OBVIOUS
<1>6. e.result = {v}
  <2>1. e.result \in Option(Word)
    BY DEF RobEntry
  <2>2. QED BY <1>4, <1>5, <2>1, TheProperties
<1>7. PICK i \in Decode[amem[e.pc]] : Observe(i, e.pc)
  BY <1>4 DEF HeadSlot
<1>8. EntryRight(C, rob, regs, m, rob.head)
  BY <1>2, <1>4 DEF InFlight, RobRight
<1>9. e.pc \in Addr \ C
  BY <1>4, <1>8 DEF EntryRight
<1>10. amem[e.pc] = m[e.pc]
  BY <1>2, <1>9, RomAt
<1>11. /\ i \in Instr /\ Decode[m[e.pc]] = {i}
       /\ i.op \in Opcode /\ i.rd \in Reg /\ i.rs1 \in Reg /\ i.rs2 \in Reg /\ i.imm \in Word
  BY <1>3, <1>7, <1>9, <1>10, DecodedAt, SMTT(30)
<1>12. /\ e.format = FormatOf(i.op) /\ e.rd = i.rd
       /\ Computed(C, rob, regs, m, i, e.pc, rob.head, v)
  BY <1>4, <1>6, <1>8, <1>11 DEF EntryRight
<1>13. PICK x \in Word, y \in Word :
         /\ Before(rob, regs, x, rob.head, i.rs1) /\ Before(rob, regs, y, rob.head, i.rs2)
         /\ Yields(C, m, i, e.pc, x, y, v)
  BY <1>12 DEF Computed
<1>14. x = regs[i.rs1] /\ y = regs[i.rs2]
  BY <1>4, <1>13, HeadReadsRegisters
<1>15. Yields(C, m, i, e.pc, regs[i.rs1], regs[i.rs2], v)
  BY <1>13, <1>14
<1>16. regs' = Committed(regs, [rd |-> i.rd, format |-> FormatOf(i.op)], v)
  BY <1>4, <1>5, <1>12 DEF Committed
<1>17. Sequential!ExecuteAt(e.pc)
  BY <1>2, <1>3, <1>7, <1>9, <1>11, <1>15, <1>16, CommitExecutes
<1>18. regs \in [Reg -> Word] /\ (IsStore(i.op) => Wrap(regs[i.rs1] + i.imm) \in C)
  BY <1>1, <1>15 DEF TypeOK, Yields
<1>19. amem' \in [Addr -> Word] /\ Rom(C, amem') = m
  BY <1>2, <1>3, <1>7, <1>11, <1>18, StoresIntoC
<1>20. CommitsAs(C, m, e, i, v)
  BY <1>4, <1>6, <1>7, <1>9, <1>11, <1>15 DEF CommitsAs
<1>21. QED BY <1>17, <1>19, <1>20

\* Only a commit writes a register.
LEMMA RegistersKept ==
  ASSUME TypeOK, [Next]_vars, ~Commit
  PROVE  regs' = regs
<1>1. CASE MovesOn \/ UNCHANGED vars
  BY <1>1, MovesOnFacts DEF archVars
<1>2. CASE \/ Fetch \/ DecodeInstr \/ DecodeZero \/ Issue
           \/ DispatchSkip \/ DispatchBlocked \/ Dispatch \/ DispatchNone
  BY <1>2 DEF Fetch, DecodeInstr, DecodeZero, Issue, DispatchSkip, DispatchBlocked, Dispatch,
     DispatchNone, archVars
<1>3. CASE ExecuteNone \/ Execute \/ MemStage \/ WriteBackLoad \/ WriteBackOther \/ AdvanceLatches
  BY <1>3 DEF ExecuteNone, Execute, MemStage, WriteBackLoad, WriteBackOther, AdvanceLatches, archVars
<1>4. QED BY <1>1, <1>2, <1>3 DEF Next, MovesOn

\* A step of the core, as the sequential machine sees it.
LEMMA StepOnData ==
  ASSUME NEW C \in SUBSET Addr, HomeInv, DataInv(C), Separated(C), Separated(C)',
         NEW m, m = Rom(C, amem), [RefNext]_refVars
  PROVE  /\ HomeInv' /\ DataInv(C)' /\ Rom(C, amem') = m /\ follows' = follows
         /\ InFlight(C, m) /\ InFlight(C, m)'
         /\ \/ [Next]_vars /\ ~Commit /\ UNCHANGED <<amem, regs, apc>>
            \/ Commit /\ \E e, i, v : CommitsAs(C, m, e, i, v) /\ Sequential!ExecuteAt(e.pc)
<1>1. [Next]_vars
  BY DEF RefNext, refVars, Next
<1>2. HomeInv' /\ TypeOK
  BY <1>1, HomeStep DEF HomeInv, IInv
<1>3. follows' = follows
  BY DEF RefNext, refVars
<1>4. InFlight(C, m) /\ amem \in [Addr -> Word] /\ m \in [Addr \ C -> Word]
  BY DEF DataInv, Rom
<1>5. InFlight(C, m)'
  BY <1>1, <1>4, FlightStep
<1>6. /\ amem' \in [Addr -> Word] /\ Rom(C, amem') = m
      /\ \/ [Next]_vars /\ ~Commit /\ UNCHANGED <<amem, regs, apc>>
         \/ Commit /\ \E e, i, v : CommitsAs(C, m, e, i, v) /\ Sequential!ExecuteAt(e.pc)
  <2>1. CASE Commit /\ \E e \in HeadSlot(rob) : \E i \in Decode[amem[e.pc]] : Observe(i, e.pc)
    <3>1. /\ \E e, i, v : CommitsAs(C, m, e, i, v) /\ Sequential!ExecuteAt(e.pc)
          /\ amem' \in [Addr -> Word] /\ Rom(C, amem') = m
      BY <2>1, CommitIsSequential
    <3>2. QED BY <2>1, <3>1
  <2>2. CASE ~Committing /\ Next /\ UNCHANGED <<amem, apc, follows>>
    <3>1. ~Commit
      BY <2>2 DEF Commit, Committing, HeadIsReady
    <3>2. UNCHANGED <<amem, regs, apc>>
      BY <1>1, <1>2, <2>2, <3>1, RegistersKept
    <3>3. QED BY <1>1, <1>4, <3>1, <3>2
  <2>3. CASE UNCHANGED refVars
    <3>1. UNCHANGED <<amem, regs, apc, stage>>
      BY <2>3 DEF refVars, vars, archVars
    <3>2. ~Commit
      BY <3>1 DEF Commit
    <3>3. QED BY <1>1, <1>4, <3>1, <3>2
  <2>4. QED BY <2>1, <2>2, <2>3 DEF RefNext
<1>7. DataInv(C)'
  BY <1>5, <1>6 DEF DataInv
<1>8. QED BY <1>2, <1>3, <1>4, <1>5, <1>6, <1>7

\* Every step of the core is an instruction of the sequential machine or invisible to it,
\* and what is in flight stays right.
LEMMA StepIsSequential ==
  ASSUME NEW C \in SUBSET Addr, HomeInv, DataInv(C), Separated(C), Separated(C)', ~follows,
         [RefNext]_refVars
  PROVE  HomeInv' /\ DataInv(C)' /\ ~follows' /\ [Sequential!Next]_Sequential!vars
<1>1. PICK m : m = Rom(C, amem)
  OBVIOUS
<1>2. /\ HomeInv' /\ DataInv(C)' /\ Rom(C, amem') = m /\ follows' = follows
      /\ InFlight(C, m) /\ InFlight(C, m)'
      /\ \/ [Next]_vars /\ ~Commit /\ UNCHANGED <<amem, regs, apc>>
         \/ Commit /\ \E e, i, v : CommitsAs(C, m, e, i, v) /\ Sequential!ExecuteAt(e.pc)
  BY <1>1, StepOnData
<1>3. CASE UNCHANGED <<amem, regs, apc>>
  BY <1>2, <1>3 DEF Sequential!vars
<1>4. CASE \E e, i, v : CommitsAs(C, m, e, i, v) /\ Sequential!ExecuteAt(e.pc)
  <2>1. PICK p : Sequential!ExecuteAt(p)
    BY <1>4
  <2>2. p \in Sequential!Addr
    BY <2>1 DEF Sequential!ExecuteAt
  <2>3. Sequential!Next
    BY <1>2, <2>1, <2>2 DEF Sequential!Next
  <2>4. QED BY <1>2, <2>3
<1>5. QED BY <1>2, <1>3, <1>4

\* Nothing is in flight at first.
LEMMA InitIsSequential ==
  ASSUME NEW C \in SUBSET Addr, RefInit
  PROVE  HomeInv /\ DataInv(C) /\ Sequential!Init
<1>1. HomeInv
  BY InitHome DEF RefInit
<1>2. amem \in [Addr -> Word] /\ amem = mem
  BY OooAssumption DEF RefInit, Init
<1>3. PICK m : m = Rom(C, amem)
  OBVIOUS
<1>4. /\ ifId.staged = {} /\ ifId.active = {} /\ idRs.staged = {} /\ idRs.active = {}
      /\ aluMem.staged = {} /\ aluMem.active = {} /\ memRob.staged = {} /\ memRob.active = {}
      /\ DOMAIN rs = {} /\ DOMAIN alu.inProgress = {} /\ \A t \in Tag : rob.data[t] = {}
  BY DEF RefInit, Init, EmptyLatch, IdleAlu, EmptyBuffer, Tag
<1>5. InFlight(C, m)
  BY <1>2, <1>3, <1>4
     DEF InFlight, FrontRight, RobRight, EntryRight, StationRight, AluRight, LoadsRight
<1>6. DataInv(C)
  BY <1>2, <1>3, <1>5 DEF DataInv
<1>7. Sequential!Init
  BY DEF RefInit, Init, Sequential!Init, Sequential!Reg, Reg
<1>8. QED BY <1>1, <1>6, <1>7

\* The core implements the sequential machine on every program that keeps its data in
\* cells of its own: as long as nothing fetched from C decodes, stores write into C and
\* loads read outside of it, every instruction commits with the registers, the memory and the
\* result one instruction after the other would have given it, whatever the order and
\* the overlap of their execution, and however registers are renamed and tags reused.
THEOREM CommitsAreSequential ==
  ASSUME NEW CONSTANT C \in SUBSET Addr
  PROVE  RefSpec /\ ~follows /\ []Separated(C) => ImplementsIsa
<1>1. RefInit => HomeInv /\ DataInv(C) /\ Sequential!Init
  BY InitIsSequential
<1>2. HomeInv /\ DataInv(C) /\ ~follows /\ Separated(C) /\ Separated(C)' /\ [RefNext]_refVars
        => HomeInv' /\ DataInv(C)' /\ ~follows' /\ [Sequential!Next]_Sequential!vars
  BY StepIsSequential
<1>3. QED BY <1>1, <1>2, PTL DEF RefSpec, ImplementsIsa, Sequential!Spec


-----------------------------------------------------------------------------
(* Control flow: straight-line code and loops *)

Decodes(w) == Decode[w] # {}

\* The program is the first n words: whatever else is fetched is no instruction.
FetchesBelow(n) == \A f \in ifId.staged \cup ifId.active : Decodes(f.word) => f.pc < n

\* Behind a branch, and behind a word that is no instruction, the program m has no
\* instructions, and it has no jumps.
OneLoop(n, m) ==
  \A a \in 0 .. n - 1 :
    /\ \A i \in Decode[m[a]] : i.op \notin {"Jal", "Jalr"}
    /\ (\A i \in Decode[m[a]] : IsBranch(i.op)) => \A b \in a + 1 .. n - 1 : ~Decodes(m[b])

\* The instruction in e continues at q.
Continues(m, e, q) ==
  \E i \in Decode[m[e.pc]] : IF IsBranch(i.op) THEN e.result = {q} ELSE q = e.pc + 1

\* q is where the k oldest instructions of the reorder buffer b lead to, from p.
LeadTo(b, m, p, k, q) ==
  IF k = 0 THEN q = p
           ELSE \A t \in Tag : Age(b, t) = k - 1 => \A e \in b.data[t] : Continues(m, e, q)

\* Each instruction in the buffer b is the one those before it lead to.
ChainRight(n, b, m, p) ==
  \A t \in Tag : \A e \in b.data[t] : e.pc < n /\ LeadTo(b, m, p, Age(b, t), e.pc)

\* When the latches of the frontend are empty, and what a cycle that ended early left.
FrontPlaces ==
  /\ stage \in {"IF", "ID"} => idRs.staged = {}
  /\ stage \in {"IS", "DI", "EX", "MEM", "WB", "CM", "UP"} => ifId.active = {}
  /\ stage \in {"DI", "EX", "MEM", "WB", "CM", "UP"} => idRs.active = {}
  /\ stage = "IF" => \A f \in ifId.staged : ~Decodes(f.word)

\* A branch is in the ALU, since at least `age` cycles.
BranchInAlu(age) ==
  \E j \in DOMAIN alu.inProgress :
    IsBranch(alu.inProgress[j].instr.op) /\ age <= alu.inProgress[j].age

FetchEmpty == ifId.staged = {} /\ ifId.active = {}

\* Behind a branch on its way there is no instruction, and no word when it resolves.
StalledFront ==
  /\ idRs.staged = {} /\ idRs.active = {}
  /\ \A f \in ifId.staged \cup ifId.active : ~Decodes(f.word)
StalledPlaces ==
  /\ stage \in {"IF", "ID"} => ifId.staged = {}
  /\ stage = "IS" \/ (stage = "DI" /\ BranchInAlu(0)) \/ (stage = "EX" /\ BranchInAlu(1))
       => FetchEmpty

Count(o) == IF o = {} THEN 0 ELSE 1

\* The instructions in the frontend, and the next ones fetched, are those from q on.
FlowsFrom(n, m, q) ==
  LET atIs == q + Count(idRs.active)
      atId == atIs + Count(idRs.staged)
      atIf == atId + Count(ifId.active)
      next == atIf + Count(ifId.staged)
  IN /\ \A d \in idRs.active : d.pc = q
     /\ \A d \in idRs.staged : d.pc = atIs
     /\ \A f \in ifId.active : Decodes(f.word) => f.pc = atId
     /\ \A f \in ifId.staged : Decodes(f.word) => f.pc = atIf
     /\ pc < n /\ Decodes(m[pc]) => pc = next

\* Words are fetched in the order of their addresses.
InOrder ==
  /\ \A d \in idRs.staged \cup idRs.active :
       d.pc < pc /\ \A f \in ifId.staged \cup ifId.active : d.pc < f.pc
  /\ \A d \in idRs.active : \A c \in idRs.staged : d.pc < c.pc
  /\ \A f \in ifId.staged \cup ifId.active : f.pc < pc
  /\ \A f \in ifId.active : \A g \in ifId.staged : f.pc < g.pc

FrontFlow(n, m) ==
  IF branchStall
    THEN StalledFront /\ StalledPlaces
    ELSE InOrder /\ \E q \in Nat : LeadTo(rob, m, apc, rob.size, q) /\ FlowsFrom(n, m, q)

ControlInv(n, m) ==
  /\ ChainRight(n, rob, m, apc) /\ FrontPlaces /\ FrontFlow(n, m)
  /\ \A d \in idRs.staged \cup idRs.active : d.pc < n

-----------------------------------------------------------------------------
(* The chain of instructions in the reorder buffer *)

\* The buffer is filled from age 0 on.
LEMMA AgesFill ==
  ASSUME NEW b \in RobBuffer, WindowInv(RobSize, b)
  PROVE  /\ b.size \in Nat /\ b.head \in Tag
         /\ \A t \in Tag : Age(b, t) \in Nat /\ (b.data[t] # {} <=> Age(b, t) < b.size)
         /\ \A k \in Nat : k < b.size => \E t \in Tag : Age(b, t) = k
<1>1. /\ RobSize \in Nat \ {0} /\ b.head \in 0 .. RobSize - 1 /\ b.size \in 0 .. RobSize
      /\ Tag = 0 .. RobSize - 1
  BY OooAssumption DEF RobBuffer, BufferOf, Tag, Slots
<1>2. ASSUME NEW t \in Tag
      PROVE  Age(b, t) \in Nat /\ (b.data[t] # {} <=> Age(b, t) < b.size)
  <2>1. b.data[t] # {} <=> InWindow(RobSize, b, t)
    BY DEF WindowInv, Tag
  <2>2. t \in 0 .. RobSize - 1
    BY <1>1
  <2>3. QED BY <1>1, <2>1, <2>2 DEF Age, AgeRank, InWindow
<1>3. ASSUME NEW k \in Nat, k < b.size PROVE \E t \in Tag : Age(b, t) = k
  <2>1. PICK t : t = IF b.head + k < RobSize THEN b.head + k ELSE b.head + k - RobSize
    OBVIOUS
  <2>2. t \in 0 .. RobSize - 1
    BY <1>1, <1>3, <2>1
  <2>3. Age(b, t) = k
    BY <1>1, <1>3, <2>1, <2>2 DEF Age, AgeRank
  <2>4. QED BY <1>1, <2>2, <2>3
<1>4. QED BY <1>1, <1>2, <1>3

\* Only the youngest instruction can be a branch without a result.
LEMMA OnlyYoungestUnresolved ==
  ASSUME NEW b \in RobBuffer, WindowInv(RobSize, b), NEW n, NEW m, NEW p, ChainRight(n, b, m, p),
         NEW t \in Tag, NEW e \in b.data[t], \A q : ~Continues(m, e, q)
  PROVE  Age(b, t) = b.size - 1
<1>1. b.size \in Nat /\ Age(b, t) \in Nat /\ Age(b, t) < b.size
  BY AgesFill
<1>2. SUFFICES ASSUME Age(b, t) + 1 < b.size PROVE FALSE
  BY <1>1
<1>3. PICK u \in Tag : Age(b, u) = Age(b, t) + 1
  BY <1>1, <1>2, AgesFill
<1>4. b.data[u] # {}
  BY <1>2, <1>3, AgesFill
<1>5. PICK f \in b.data[u] : TRUE
  BY <1>4
<1>6. LeadTo(b, m, p, Age(b, t) + 1, f.pc)
  BY <1>3 DEF ChainRight
<1>7. Age(b, t) + 1 # 0 /\ Age(b, t) = (Age(b, t) + 1) - 1
  BY <1>1
<1>8. Continues(m, e, f.pc)
  BY <1>6, <1>7 DEF LeadTo
<1>9. QED BY <1>8

\* There is none when the youngest instruction is known to lead on.
LEMMA AllResolved ==
  ASSUME NEW b \in RobBuffer, WindowInv(RobSize, b), NEW n, NEW m, NEW p, ChainRight(n, b, m, p),
         NEW q, LeadTo(b, m, p, b.size, q), NEW t \in Tag, NEW e \in b.data[t]
  PROVE  \E r : Continues(m, e, r)
<1>1. SUFFICES ASSUME \A r : ~Continues(m, e, r) PROVE FALSE
  OBVIOUS
<1>2. b.size \in Nat /\ Age(b, t) \in Nat /\ Age(b, t) < b.size
  BY AgesFill
<1>3. Age(b, t) = b.size - 1
  BY <1>1, OnlyYoungestUnresolved
<1>4. b.size # 0
  BY <1>2
<1>5. Continues(m, e, q)
  BY <1>3, <1>4 DEF LeadTo
<1>6. QED BY <1>1, <1>5

\* A result given to an unfinished instruction leaves the chain as it is.
LEMMA ContinuesOn ==
  ASSUME NEW m, NEW e, NEW f, SameInstr(e, f), e.result = {} \/ f.result = e.result,
         NEW q, Continues(m, e, q)
  PROVE  Continues(m, f, q)
<1>1. PICK i \in Decode[m[e.pc]] : IF IsBranch(i.op) THEN e.result = {q} ELSE q = e.pc + 1
  BY DEF Continues
<1>2. f.pc = e.pc
  BY DEF SameInstr
<1>3. IF IsBranch(i.op) THEN f.result = {q} ELSE q = f.pc + 1
  BY <1>1, <1>2
<1>4. QED BY <1>1, <1>2, <1>3 DEF Continues

LEMMA ChainAfterDelivery ==
  ASSUME NEW b, NEW c, NEW s \in Tag, NEW v, Delivers(b, c, s, v), TagResult(b, s) = {},
         NEW n, NEW m, NEW p
  PROVE  /\ \A k, q : LeadTo(b, m, p, k, q) => LeadTo(c, m, p, k, q)
         /\ ChainRight(n, b, m, p) => ChainRight(n, c, m, p)
<1>1. \A u \in Tag : Age(c, u) = Age(b, u)
  BY DeliveryKeepsWriters
<1>2. ASSUME NEW t \in Tag, NEW f \in c.data[t]
      PROVE  \E e \in b.data[t] : SameInstr(e, f) /\ (e.result = {} \/ f.result = e.result)
  <2>1. CASE t = s
    <3>1. PICK e \in b.data[t] : SameInstr(e, f)
      BY <1>2, <2>1 DEF Delivers
    <3>2. e.result = {}
      BY <2>1, <3>1 DEF TagResult
    <3>3. QED BY <3>1, <3>2
  <2>2. CASE t # s
    <3>1. c.data[t] = b.data[t]
      BY <2>2 DEF Delivers
    <3>2. QED BY <1>2, <3>1 DEF SameInstr
  <2>3. QED BY <2>1, <2>2
<1>3. ASSUME NEW k, NEW q, LeadTo(b, m, p, k, q) PROVE LeadTo(c, m, p, k, q)
  <2>1. CASE k = 0
    BY <1>3, <2>1 DEF LeadTo
  <2>2. CASE k # 0
    <3>1. ASSUME NEW t \in Tag, Age(c, t) = k - 1, NEW f \in c.data[t] PROVE Continues(m, f, q)
      <4>1. PICK e \in b.data[t] : SameInstr(e, f) /\ (e.result = {} \/ f.result = e.result)
        BY <1>2, <3>1
      <4>2. Age(b, t) = k - 1
        BY <1>1, <3>1
      <4>3. Continues(m, e, q)
        BY <1>3, <2>2, <4>1, <4>2 DEF LeadTo
      <4>4. QED BY <4>1, <4>3, ContinuesOn
    <3>2. QED BY <2>2, <3>1 DEF LeadTo
  <2>3. QED BY <2>1, <2>2
<1>4. ASSUME ChainRight(n, b, m, p) PROVE ChainRight(n, c, m, p)
  <2>1. ASSUME NEW t \in Tag, NEW f \in c.data[t]
        PROVE  f.pc < n /\ LeadTo(c, m, p, Age(c, t), f.pc)
    <3>1. PICK e \in b.data[t] : SameInstr(e, f)
      BY <1>2, <2>1
    <3>2. f.pc < n /\ LeadTo(b, m, p, Age(b, t), f.pc)
      BY <1>4, <3>1 DEF ChainRight, SameInstr
    <3>3. QED BY <1>1, <1>3, <3>2
  <2>2. QED BY <2>1 DEF ChainRight
<1>5. QED BY <1>3, <1>4

\* An instruction issued at the place the others lead to goes on with the chain.
LEMMA ChainAfterPush ==
  ASSUME NEW b \in RobBuffer, WindowInv(RobSize, b), ~IsFull(RobSize, b),
         NEW x, NEW c, c = Push(RobSize, b, x), b.data[b.tail] = {},
         NEW n, NEW m, NEW p, ChainRight(n, b, m, p), LeadTo(b, m, p, b.size, x.pc), x.pc < n
  PROVE  /\ ChainRight(n, c, m, p)
         /\ \A q : Continues(m, x, q) => LeadTo(c, m, p, b.size + 1, q)
<1>1. /\ b.tail \in Tag /\ b.head \in Tag /\ c.head = b.head /\ c.data[b.tail] = {x}
      /\ \A u \in Tag : u # b.tail => c.data[u] = b.data[u]
      /\ \A u \in Tag : Age(c, u) = Age(b, u)
  BY PushFacts
<1>2. /\ b.size \in Nat
      /\ \A t \in Tag : Age(b, t) \in Nat /\ (b.data[t] # {} <=> Age(b, t) < b.size)
  BY AgesFill
<1>3. Age(b, b.tail) = b.size
  <2>1. RobSize \in Nat \ {0} /\ b.head \in 0 .. RobSize - 1 /\ b.size \in 0 .. RobSize
        /\ b.size # RobSize
    BY OooAssumption DEF RobBuffer, BufferOf, Slots, IsFull
  <2>2. b.tail = IF b.head + b.size < RobSize THEN b.head + b.size
                                              ELSE b.head + b.size - RobSize
    BY DEF WindowInv
  <2>3. QED BY <2>1, <2>2 DEF Age, AgeRank
<1>4. ASSUME NEW k \in Nat, k <= b.size, NEW q, LeadTo(b, m, p, k, q) PROVE LeadTo(c, m, p, k, q)
  <2>1. CASE k = 0
    BY <1>4, <2>1 DEF LeadTo
  <2>2. CASE k # 0
    <3>1. ASSUME NEW t \in Tag, Age(c, t) = k - 1 PROVE c.data[t] = b.data[t]
      BY <1>1, <1>2, <1>3, <1>4, <3>1
    <3>2. QED BY <1>1, <1>4, <2>2, <3>1 DEF LeadTo
  <2>3. QED BY <2>1, <2>2
<1>5. ASSUME NEW t \in Tag, NEW e \in c.data[t]
      PROVE  e.pc < n /\ LeadTo(c, m, p, Age(c, t), e.pc)
  <2>1. CASE t = b.tail
    <3>1. e = x /\ Age(c, t) = b.size
      BY <1>1, <1>3, <1>5, <2>1
    <3>2. QED BY <1>2, <1>4, <3>1
  <2>2. CASE t # b.tail
    <3>1. e \in b.data[t] /\ Age(c, t) = Age(b, t)
      BY <1>1, <1>5, <2>2
    <3>2. Age(b, t) \in Nat /\ Age(b, t) <= b.size /\ e.pc < n /\ LeadTo(b, m, p, Age(b, t), e.pc)
      BY <1>2, <3>1 DEF ChainRight
    <3>3. QED BY <1>4, <3>1, <3>2
  <2>3. QED BY <2>1, <2>2
<1>6. ASSUME NEW q, Continues(m, x, q) PROVE LeadTo(c, m, p, b.size + 1, q)
  <2>1. ASSUME NEW t \in Tag, Age(c, t) = b.size PROVE t = b.tail
    BY <1>1, <1>3, <2>1, AgeFacts
  <2>2. b.size + 1 # 0 /\ (b.size + 1) - 1 = b.size
    BY <1>2
  <2>3. QED BY <1>1, <1>6, <2>1, <2>2 DEF LeadTo
<1>7. QED BY <1>5, <1>6 DEF ChainRight

\* If the instruction in e continues, then at r.
LeadsOnlyTo(m, e, r) == \A q : Continues(m, e, q) => q = r

\* From r, the buffer c leads where b does from p with one instruction more.
Shortened(m, b, p, c, r) ==
  \A k \in Nat \ {0} : \A q : LeadTo(b, m, p, k, q) => LeadTo(c, m, r, k - 1, q)

\* Without the head, the chain begins where the head leads to.
LEMMA ChainAfterPop ==
  ASSUME NEW b \in RobBuffer, NEW c, c = Pop(RobSize, b), NEW n, NEW m, NEW p, NEW r,
         NEW e, b.data[b.head] = {e}, LeadsOnlyTo(m, e, r)
  PROVE  /\ Shortened(m, b, p, c, r)
         /\ ChainRight(n, b, m, p) => e.pc = p /\ ChainRight(n, c, m, r)
<1>1. /\ b.head \in Tag /\ c.head \in Tag /\ c.data[b.head] = {}
      /\ \A u \in Tag : u # b.head => c.data[u] = b.data[u] /\ Age(c, u) = Age(b, u) - 1
  BY PopFacts
<1>2. /\ \A u \in Tag : Age(b, u) \in Nat
      /\ \A u \in Tag : Age(b, u) = 0 <=> u = b.head
  BY <1>1, AgeFacts
<1>3. ASSUME NEW k \in Nat \ {0}, NEW q, LeadTo(b, m, p, k, q) PROVE LeadTo(c, m, r, k - 1, q)
  <2>1. \A t \in Tag : Age(b, t) = k - 1 => \A x \in b.data[t] : Continues(m, x, q)
    BY <1>3 DEF LeadTo
  <2>2. CASE k = 1
    <3>1. Continues(m, e, q)
      BY <1>1, <1>2, <2>1, <2>2
    <3>2. k - 1 = 0 /\ q = r
      BY <2>2, <3>1 DEF LeadsOnlyTo
    <3>3. QED BY <3>2 DEF LeadTo
  <2>3. CASE k # 1
    <3>1. ASSUME NEW t \in Tag, Age(c, t) = k - 1 - 1, NEW x \in c.data[t]
          PROVE  Continues(m, x, q)
      <4>1. t # b.head
        BY <1>1, <3>1
      <4>2. c.data[t] = b.data[t] /\ Age(b, t) = k - 1
        BY <1>1, <1>2, <3>1, <4>1
      <4>3. QED BY <2>1, <3>1, <4>2
    <3>2. k - 1 # 0
      BY <2>3
    <3>3. QED BY <3>1, <3>2 DEF LeadTo
  <2>4. QED BY <2>2, <2>3
<1>4. ASSUME ChainRight(n, b, m, p) PROVE e.pc = p /\ ChainRight(n, c, m, r)
  <2>1. LeadTo(b, m, p, 0, e.pc)
    BY <1>1, <1>2, <1>4 DEF ChainRight
  <2>2. ASSUME NEW t \in Tag, NEW x \in c.data[t]
        PROVE  x.pc < n /\ LeadTo(c, m, r, Age(c, t), x.pc)
    <3>1. t # b.head
      BY <1>1, <2>2
    <3>2. x \in b.data[t] /\ Age(b, t) \in Nat \ {0} /\ Age(c, t) = Age(b, t) - 1
      BY <1>1, <1>2, <2>2, <3>1
    <3>3. x.pc < n /\ LeadTo(b, m, p, Age(b, t), x.pc)
      BY <1>4, <3>2 DEF ChainRight
    <3>4. QED BY <1>3, <3>2, <3>3
  <2>3. QED BY <2>1, <2>2 DEF LeadTo, ChainRight
<1>5. QED BY <1>3, <1>4 DEF Shortened

-----------------------------------------------------------------------------
(* The frontend *)

\* What is in the frontend, against the program.
LEMMA FrontWords ==
  ASSUME NEW C \in SUBSET Addr, NEW m \in [Addr \ C -> Word], InFlight(C, m), TypeOK,
         NEW n \in Nat, 0 .. n - 1 \subseteq Addr \ C, FetchesBelow(n)
  PROVE  /\ pc \in Nat
         /\ \A f \in ifId.staged \cup ifId.active :
              /\ f.pc \in Nat
              /\ f.pc < n => f.word = m[f.pc]
              /\ Decodes(f.word) => f.pc < n
         /\ \A d \in idRs.staged \cup idRs.active : d.pc \in Nat /\ d.instr \in Decode[m[d.pc]]
<1>1. /\ \A f \in ifId.staged \cup ifId.active : f.pc \in Addr /\ (f.pc \notin C => f.word = m[f.pc])
      /\ \A d \in idRs.staged \cup idRs.active : d.pc \in Addr \ C /\ d.instr \in Decode[m[d.pc]]
  BY DEF InFlight, FrontRight
<1>2. Addr \subseteq Nat /\ pc \in Nat
  BY OooAssumption, IsaAssumption DEF Addr, TypeOK, Word
<1>3. ASSUME NEW f \in ifId.staged \cup ifId.active, f.pc < n PROVE f.word = m[f.pc]
  <2>1. f.pc \in Nat
    <3>1. f.pc \in Addr
      BY <1>1, <1>3, Zenon
    <3>2. QED BY <1>2, <3>1
  <2>2. f.pc \in 0 .. n - 1
    BY <1>3, <2>1
  <2>3. QED BY <1>1, <2>2
<1>4. QED BY <1>1, <1>2, <1>3 DEF FetchesBelow

\* Behind a branch or a word that is no instruction there are no instructions.
LEMMA NothingBehind ==
  ASSUME NEW n \in Nat, NEW m, OneLoop(n, m), NEW a \in Nat, NEW b \in Nat, a < b, b < n,
         \A i \in Decode[m[a]] : IsBranch(i.op)
  PROVE  ~Decodes(m[b])
<1>1. a \in 0 .. n - 1 /\ b \in a + 1 .. n - 1
  OBVIOUS
<1>2. QED BY <1>1 DEF OneLoop

\* Every option is empty or counts 1.
LEMMA CountOfOne == ASSUME NEW o PROVE Count(o) \in Nat /\ (\A x \in o : Count(o) = 1)
BY DEF Count
LEMMA CountOfNone == Count({}) = 0
BY DEF Count

\* The steps that leave the frontend alone, with what they may do to `stage`.
Passes ==
  \/ stage' \in Panic
  \/ stage = "IF" /\ stage' = "ID"
  \/ stage = "ID" /\ stage' = "IS" /\ ifId.active = {}
  \/ stage = "IS" /\ stage' = "DI" /\ idRs.active = {}
  \/ stage = "DI" /\ stage' = "DI" /\ (BranchInAlu(0)' => BranchInAlu(0))
  \/ stage = "DI" /\ stage' = "EX" /\ (BranchInAlu(1)' => BranchInAlu(0))
  \/ stage \in {"EX", "MEM", "WB", "CM"} /\ stage' \in {"MEM", "WB", "CM", "UP"}

LEMMA PassesKeepsPlaces ==
  ASSUME FrontPlaces, UNCHANGED <<ifId, idRs>>, Passes
  PROVE  /\ FrontPlaces'
         /\ StalledFront /\ StalledPlaces => StalledFront' /\ StalledPlaces'
<1>1. FrontPlaces'
  BY DEF FrontPlaces, Passes, Panic
<1>2. ASSUME StalledFront PROVE StalledFront'
  BY <1>2 DEF StalledFront
<1>3. ASSUME StalledPlaces PROVE StalledPlaces'
  BY <1>3 DEF StalledPlaces, FetchEmpty, Passes, Panic
<1>4. QED BY <1>1, <1>2, <1>3

\* The instructions issued and those behind them, when a step leaves the frontend alone.
LEMMA ControlKept ==
  ASSUME NEW n, NEW m, ControlInv(n, m), UNCHANGED <<pc, branchStall, ifId, idRs>>, Passes,
         ChainRight(n, rob, m, apc)',
         \A q \in Nat : LeadTo(rob, m, apc, rob.size, q) => LeadTo(rob, m, apc, rob.size, q)'
  PROVE  ControlInv(n, m)'
<1>1. FrontPlaces /\ FrontFlow(n, m) /\ \A d \in idRs.staged \cup idRs.active : d.pc < n
  BY DEF ControlInv
<1>2. FrontPlaces' /\ (StalledFront /\ StalledPlaces => StalledFront' /\ StalledPlaces')
  BY <1>1, PassesKeepsPlaces
<1>3. FrontFlow(n, m)'
  <2>1. CASE branchStall
    BY <1>1, <1>2, <2>1 DEF FrontFlow
  <2>2. CASE ~branchStall
    <3>1. InOrder /\ \E q \in Nat : LeadTo(rob, m, apc, rob.size, q) /\ FlowsFrom(n, m, q)
      BY <1>1, <2>2 DEF FrontFlow
    <3>2. InOrder'
      BY <3>1 DEF InOrder
    <3>3. PICK q \in Nat : LeadTo(rob, m, apc, rob.size, q) /\ FlowsFrom(n, m, q)
      BY <3>1
    <3>4. FlowsFrom(n, m, q)'
      BY <3>3 DEF FlowsFrom
    <3>5. LeadTo(rob, m, apc, rob.size, q)'
      BY <3>3
    <3>6. QED BY <2>2, <3>2, <3>4, <3>5 DEF FrontFlow
  <2>3. QED BY <2>1, <2>2
<1>4. QED BY <1>1, <1>2, <1>3 DEF ControlInv

\* The steps that leave the buffer alone, too.
LEMMA ControlKeptInPlace ==
  ASSUME NEW n, NEW m, ControlInv(n, m), UNCHANGED <<pc, branchStall, ifId, idRs, rob, apc>>, Passes
  PROVE  ControlInv(n, m)'
<1>1. ChainRight(n, rob, m, apc)' /\ \A q : LeadTo(rob, m, apc, rob.size, q) => LeadTo(rob, m, apc, rob.size, q)'
  BY DEF ControlInv, ChainRight, LeadTo
<1>2. QED BY <1>1, ControlKept

LEMMA ControlAfterFetch ==
  ASSUME NEW C \in SUBSET Addr, NEW m \in [Addr \ C -> Word], InFlight(C, m), TypeOK,
         NEW n \in Nat, 0 .. n - 1 \subseteq Addr \ C, FetchesBelow(n), FetchesBelow(n)',
         OneLoop(n, m), ControlInv(n, m), Fetch, apc' = apc
  PROVE  ControlInv(n, m)'
<1>1. /\ stage = "IF" /\ stage' = "ID" /\ ~branchStall /\ pc \in Addr
      /\ ifId'.staged = {[pc |-> pc, word |-> mem[pc]]} /\ ifId'.active = ifId.active
      /\ idRs' = idRs /\ pc' = pc + 1 /\ branchStall' = branchStall /\ rob' = rob
  BY DEF Fetch, StallFrontend, Staged, execVars
<1>2. /\ pc \in Nat
      /\ \A f \in ifId.staged \cup ifId.active :
           /\ f.pc \in Nat
           /\ f.pc < n => f.word = m[f.pc]
           /\ Decodes(f.word) => f.pc < n
      /\ \A d \in idRs.staged \cup idRs.active : d.pc \in Nat /\ d.instr \in Decode[m[d.pc]]
  BY FrontWords
<1>3. /\ ChainRight(n, rob, m, apc) /\ FrontPlaces /\ InOrder
      /\ \A d \in idRs.staged \cup idRs.active : d.pc < n
  BY <1>1 DEF ControlInv, FrontFlow
<1>4. PICK q \in Nat : LeadTo(rob, m, apc, rob.size, q) /\ FlowsFrom(n, m, q)
  BY <1>1 DEF ControlInv, FrontFlow
<1>5. idRs.staged = {} /\ \A f \in ifId.staged : ~Decodes(f.word)
  BY <1>1, <1>3 DEF FrontPlaces
<1>6. FrontPlaces'
  BY <1>1, <1>5 DEF FrontPlaces
<1>7. ChainRight(n, rob, m, apc)' /\ LeadTo(rob, m, apc, rob.size, q)'
  BY <1>1, <1>3, <1>4 DEF ChainRight, LeadTo
<1>8. InOrder'
  BY <1>1, <1>2, <1>3 DEF InOrder
<1>9. ASSUME NEW a \in Nat, a < n, pc <= a, Decodes(m[a]) PROVE ifId.staged = {}
  <2>1. ASSUME NEW f \in ifId.staged PROVE FALSE
    <3>1. f.pc \in Nat /\ f.pc < pc /\ (f.pc < n => f.word = m[f.pc]) /\ ~Decodes(f.word)
      BY <1>2, <1>3, <1>5, <2>1 DEF InOrder
    <3>2. f.pc < a /\ f.pc < n
      BY <1>2, <1>9, <3>1
    <3>3. Decode[m[f.pc]] = {}
      BY <3>1, <3>2 DEF Decodes
    <3>4. QED BY <1>9, <3>1, <3>2, <3>3, NothingBehind
  <2>2. QED BY <2>1
<1>10. ASSUME NEW a \in Nat, a < n, pc <= a, Decodes(m[a])
       PROVE  pc = q + Count(idRs.active) + Count(ifId.active)
  <2>1. pc < n
    BY <1>2, <1>10
  <2>2. Decodes(m[pc])
    <3>1. CASE a = pc
      BY <1>10, <3>1
    <3>2. CASE pc < a
      <4>1. SUFFICES ASSUME Decode[m[pc]] = {} PROVE FALSE
        BY DEF Decodes
      <4>2. QED BY <1>2, <1>10, <3>2, <4>1, NothingBehind
    <3>3. QED BY <1>2, <1>10, <3>1, <3>2
  <2>3. /\ Count(ifId.staged) = 0 /\ Count(idRs.staged) = 0
        /\ Count(idRs.active) \in Nat /\ Count(ifId.active) \in Nat
    BY <1>5, <1>9, <1>10, CountOfOne, CountOfNone
  <2>4. pc = q + Count(idRs.active) + Count(idRs.staged) + Count(ifId.active) + Count(ifId.staged)
    BY <1>4, <2>1, <2>2 DEF FlowsFrom
  <2>5. QED BY <2>3, <2>4
<1>11. Decodes(mem[pc]) => pc < n /\ Decodes(m[pc])
  <2>1. SUFFICES ASSUME Decodes(mem[pc]) PROVE pc < n /\ Decodes(m[pc])
    OBVIOUS
  <2>2. pc < n
    <3>1. \A f \in ifId'.staged : Decodes(f.word) => f.pc < n
      BY DEF FetchesBelow
    <3>2. QED BY <1>1, <2>1, <3>1
  <2>3. pc \in Addr \ C /\ Rom(C, mem) = m
    <3>1. pc \in 0 .. n - 1
      BY <1>2, <2>2
    <3>2. QED BY <3>1 DEF InFlight
  <2>4. mem[pc] = m[pc]
    BY <2>3, RomAt
  <2>5. QED BY <2>1, <2>2, <2>4
<1>12. FlowsFrom(n, m, q)'
  <2>1. /\ Count(idRs.staged) = 0 /\ Count(idRs.active) \in Nat /\ Count(ifId.active) \in Nat
        /\ Count(ifId'.staged) = 1
    BY <1>1, <1>5, CountOfOne, CountOfNone
  <2>2. \A d \in idRs'.active : d.pc = q
    BY <1>1, <1>4 DEF FlowsFrom
  <2>3. \A d \in idRs'.staged : d.pc = q + Count(idRs'.active)
    BY <1>1, <1>5
  <2>4. \A f \in ifId'.active :
          Decodes(f.word) => f.pc = q + Count(idRs'.active) + Count(idRs'.staged)
    BY <1>1, <1>4 DEF FlowsFrom
  <2>5. Decodes(mem[pc]) => pc = q + Count(idRs.active) + Count(ifId.active)
    BY <1>2, <1>10, <1>11
  <2>6. \A f \in ifId'.staged :
          Decodes(f.word) => f.pc = q + Count(idRs'.active) + Count(idRs'.staged) + Count(ifId'.active)
    <3>1. Count(idRs'.staged) = 0 /\ idRs'.active = idRs.active /\ ifId'.active = ifId.active
      BY <1>1, <2>1
    <3>2. Decodes(mem[pc])
            => pc = q + Count(idRs'.active) + Count(idRs'.staged) + Count(ifId'.active)
      BY <2>1, <2>5, <3>1
    <3>3. QED BY <1>1, <3>2
  <2>7. pc' < n /\ Decodes(m[pc']) =>
          pc' = q + Count(idRs'.active) + Count(idRs'.staged) + Count(ifId'.active) + Count(ifId'.staged)
    <3>1. SUFFICES ASSUME pc' < n, Decodes(m[pc'])
          PROVE  pc' = q + Count(idRs'.active) + Count(idRs'.staged) + Count(ifId'.active) + Count(ifId'.staged)
      OBVIOUS
    <3>2. pc' \in Nat /\ pc <= pc' /\ pc' = pc + 1
      BY <1>1, <1>2
    <3>3. pc = q + Count(idRs.active) + Count(ifId.active)
      BY <1>10, <3>1, <3>2
    <3>4. /\ Count(idRs'.staged) = 0 /\ idRs'.active = idRs.active /\ ifId'.active = ifId.active
          /\ Count(ifId'.staged) = 1
      BY <1>1, <2>1
    <3>5. QED BY <2>1, <3>2, <3>3, <3>4
  <2>8. QED BY <2>2, <2>3, <2>4, <2>6, <2>7 DEF FlowsFrom
<1>13. FrontFlow(n, m)'
  BY <1>1, <1>7, <1>8, <1>12 DEF FrontFlow
<1>14. QED BY <1>1, <1>3, <1>6, <1>7, <1>13 DEF ControlInv

LEMMA ControlAfterDecode ==
  ASSUME NEW C \in SUBSET Addr, NEW m \in [Addr \ C -> Word], InFlight(C, m), TypeOK,
         NEW n \in Nat, 0 .. n - 1 \subseteq Addr \ C, FetchesBelow(n),
         ControlInv(n, m), DecodeInstr, apc' = apc
  PROVE  ControlInv(n, m)'
<1>1. PICK f \in ifId.active : \E instr \in Decode[f.word] :
        idRs' = Staged(idRs, [pc |-> f.pc, instr |-> instr])
  BY DEF DecodeInstr
<1>2. PICK d : idRs' = Staged(idRs, d) /\ d.pc = f.pc
  BY <1>1
<1>3. /\ stage = "ID" /\ stage' = "IS" /\ Decodes(f.word)
      /\ idRs'.staged = {d} /\ idRs'.active = idRs.active
      /\ ifId'.staged = ifId.staged /\ ifId'.active = {}
      /\ UNCHANGED <<pc, branchStall, rob>>
  BY <1>1, <1>2 DEF DecodeInstr, Decodes, Staged, Taken, execVars
<1>4. /\ pc \in Nat
      /\ \A g \in ifId.staged \cup ifId.active :
           /\ g.pc \in Nat
           /\ g.pc < n => g.word = m[g.pc]
           /\ Decodes(g.word) => g.pc < n
      /\ \A c \in idRs.staged \cup idRs.active : c.pc \in Nat /\ c.instr \in Decode[m[c.pc]]
  BY FrontWords
<1>5. ~branchStall
  BY <1>3 DEF ControlInv, FrontFlow, StalledFront
<1>6. /\ ChainRight(n, rob, m, apc) /\ FrontPlaces /\ InOrder
      /\ \A c \in idRs.staged \cup idRs.active : c.pc < n
  BY <1>5 DEF ControlInv, FrontFlow
<1>7. PICK q \in Nat : LeadTo(rob, m, apc, rob.size, q) /\ FlowsFrom(n, m, q)
  BY <1>5 DEF ControlInv, FrontFlow
<1>8. idRs.staged = {}
  BY <1>3, <1>6 DEF FrontPlaces
<1>9. FrontPlaces'
  BY <1>3 DEF FrontPlaces
<1>10. ChainRight(n, rob, m, apc)' /\ LeadTo(rob, m, apc, rob.size, q)'
  BY <1>3, <1>6, <1>7 DEF ChainRight, LeadTo
<1>11. InOrder'
  BY <1>2, <1>3, <1>6 DEF InOrder
<1>12. FlowsFrom(n, m, q)'
  <2>1. /\ Count(idRs.staged) = 0 /\ Count(idRs'.staged) = 1
        /\ Count(ifId.active) = 1 /\ Count(ifId'.active) = 0 /\ Count(idRs.active) \in Nat
        /\ Count(ifId.staged) \in Nat
    BY <1>3, <1>8, CountOfOne, CountOfNone
  <2>2. /\ \A c \in idRs.active : c.pc = q
        /\ f.pc = q + Count(idRs.active) + Count(idRs.staged)
        /\ \A g \in ifId.staged : Decodes(g.word)
             => g.pc = q + Count(idRs.active) + Count(idRs.staged) + Count(ifId.active)
        /\ pc < n /\ Decodes(m[pc])
             => pc = q + Count(idRs.active) + Count(idRs.staged) + Count(ifId.active) + Count(ifId.staged)
    BY <1>3, <1>7 DEF FlowsFrom
  <2>3. /\ idRs'.active = idRs.active /\ ifId'.staged = ifId.staged /\ pc' = pc
    BY <1>3
  <2>4. d.pc = q + Count(idRs'.active)
    BY <1>2, <2>1, <2>2, <2>3
  <2>5. /\ q + Count(idRs'.active) + Count(idRs'.staged) + Count(ifId'.active)
             = q + Count(idRs.active) + Count(idRs.staged) + Count(ifId.active)
        /\ q + Count(idRs'.active) + Count(idRs'.staged) + Count(ifId'.active) + Count(ifId'.staged)
             = q + Count(idRs.active) + Count(idRs.staged) + Count(ifId.active) + Count(ifId.staged)
    BY <2>1, <2>3
  <2>6. QED BY <1>3, <2>2, <2>4, <2>5 DEF FlowsFrom
<1>13. FrontFlow(n, m)'
  BY <1>3, <1>5, <1>10, <1>11, <1>12 DEF FrontFlow
<1>14. f.pc < n
  BY <1>3, <1>4
<1>15. QED BY <1>2, <1>3, <1>6, <1>9, <1>10, <1>13, <1>14 DEF ControlInv

LEMMA ControlAfterZero ==
  ASSUME NEW C \in SUBSET Addr, NEW m \in [Addr \ C -> Word], InFlight(C, m), TypeOK,
         NEW n \in Nat, 0 .. n - 1 \subseteq Addr \ C, FetchesBelow(n),
         OneLoop(n, m), ControlInv(n, m), DecodeZero, apc' = apc
  PROVE  ControlInv(n, m)'
<1>1. /\ stage = "ID" /\ stage' = "IF" /\ idRs' = idRs
      /\ ifId'.staged = ifId.staged /\ ifId'.active = {}
      /\ UNCHANGED <<pc, branchStall, rob>>
  BY DEF DecodeZero, Taken, execVars
<1>2. PICK f \in ifId.active : ~Decodes(f.word)
  BY OooAssumption DEF DecodeZero, Decodes
<1>3. /\ pc \in Nat
      /\ \A g \in ifId.staged \cup ifId.active :
           /\ g.pc \in Nat
           /\ g.pc < n => g.word = m[g.pc]
           /\ Decodes(g.word) => g.pc < n
      /\ \A c \in idRs.staged \cup idRs.active : c.pc \in Nat /\ c.instr \in Decode[m[c.pc]]
  BY FrontWords
<1>4. /\ ChainRight(n, rob, m, apc) /\ FrontPlaces /\ FrontFlow(n, m)
      /\ \A c \in idRs.staged \cup idRs.active : c.pc < n
  BY DEF ControlInv
<1>5. idRs.staged = {}
  BY <1>1, <1>4 DEF FrontPlaces
<1>6. ASSUME NEW a \in Nat, f.pc < a, a < n PROVE ~Decodes(m[a])
  <2>1. f.pc \in Nat /\ f.pc < n /\ (f.pc < n => f.word = m[f.pc])
    BY <1>3, <1>6
  <2>2. Decode[m[f.pc]] = {}
    BY <1>2, <2>1 DEF Decodes
  <2>3. QED BY <1>6, <2>1, <2>2, NothingBehind
<1>7. \A g \in ifId.staged : ~Decodes(g.word)
  <2>1. CASE branchStall
    BY <1>4, <2>1 DEF FrontFlow, StalledFront
  <2>2. CASE ~branchStall
    <3>1. SUFFICES ASSUME NEW g \in ifId.staged, Decodes(g.word) PROVE FALSE
      OBVIOUS
    <3>2. f.pc < g.pc
      BY <1>4, <2>2 DEF FrontFlow, InOrder
    <3>3. g.pc \in Nat /\ g.pc < n /\ g.word = m[g.pc]
      BY <1>3, <3>1
    <3>4. QED BY <1>6, <3>1, <3>2, <3>3
  <2>3. QED BY <2>1, <2>2
<1>8. FrontPlaces'
  BY <1>1, <1>5, <1>7 DEF FrontPlaces
<1>9. ChainRight(n, rob, m, apc)'
  BY <1>1, <1>4 DEF ChainRight, LeadTo
<1>10. FrontFlow(n, m)'
  <2>1. CASE branchStall
    <3>1. StalledFront' /\ StalledPlaces'
      BY <1>1, <1>4, <2>1 DEF FrontFlow, StalledFront, StalledPlaces
    <3>2. QED BY <1>1, <2>1, <3>1 DEF FrontFlow
  <2>2. CASE ~branchStall
    <3>1. InOrder'
      BY <1>1, <1>4, <2>2 DEF FrontFlow, InOrder
    <3>2. PICK q \in Nat : LeadTo(rob, m, apc, rob.size, q) /\ FlowsFrom(n, m, q)
      BY <1>4, <2>2 DEF FrontFlow
    <3>3. LeadTo(rob, m, apc, rob.size, q)'
      BY <1>1, <3>2 DEF LeadTo
    <3>4. f.pc < pc
      BY <1>4, <2>2 DEF FrontFlow, InOrder
    <3>5. ~(pc < n /\ Decodes(m[pc]))
      BY <1>3, <1>6, <3>4
    <3>6. FlowsFrom(n, m, q)'
      BY <1>1, <1>5, <1>7, <3>2, <3>5 DEF FlowsFrom
    <3>7. QED BY <1>1, <2>2, <3>1, <3>3, <3>6 DEF FrontFlow
  <2>3. QED BY <2>1, <2>2
<1>11. QED BY <1>1, <1>4, <1>8, <1>9, <1>10 DEF ControlInv

\* A branch without a result is in the buffer, and leads nowhere yet.
LEMMA BranchUnresolved ==
  ASSUME NEW C \in SUBSET Addr, NEW m \in [Addr \ C -> Word], HomeInv, InFlight(C, m),
         NEW y \in RsEntry, Pending(y.tag), Carries(rob, regs, m, y), IsBranch(y.op)
  PROVE  \E e \in rob.data[y.tag] :
           /\ rob.data[y.tag] = {e} /\ e.pc = y.pc
           /\ \E i \in Decode[m[e.pc]] : IsBranch(i.op)
           /\ \A q : ~Continues(m, e, q)
<1>1. TypeOK /\ y.tag \in Tag
  BY DEF HomeInv, IInv, RsEntry
<1>2. PICK e \in rob.data[y.tag] : \E i \in Decode[m[e.pc]] : y.op = i.op /\ y.pc = e.pc
  BY DEF Carries
<1>3. PICK i \in Decode[m[e.pc]] : y.op = i.op /\ y.pc = e.pc
  BY <1>2
<1>4. rob.data[y.tag] \in Option(RobEntry)
  BY <1>1, PendingSlot
<1>5. rob.data[y.tag] = {e} /\ e.result = {}
  BY <1>2, <1>4, OptionMember DEF Pending
<1>6. e.pc \in Addr \ C
  BY <1>1, <1>2 DEF InFlight, RobRight, EntryRight
<1>7. \A j \in Decode[m[e.pc]] : j = i
  BY <1>3, <1>6, DecodedAt, SMTT(30)
<1>8. \A q : ~Continues(m, e, q)
  BY <1>3, <1>5, <1>7 DEF Continues
<1>9. QED BY <1>3, <1>5, <1>8

\* There is none when the buffer leads on.
LEMMA NoneUnresolved ==
  ASSUME NEW C \in SUBSET Addr, NEW m \in [Addr \ C -> Word], HomeInv, InFlight(C, m),
         NEW y \in RsEntry, Pending(y.tag), Carries(rob, regs, m, y), IsBranch(y.op),
         NEW n, ChainRight(n, rob, m, apc), NEW q, LeadTo(rob, m, apc, rob.size, q)
  PROVE  FALSE
<1>1. /\ rob \in RobBuffer /\ WindowInv(RobSize, rob) /\ y.tag \in Tag
  BY DEF HomeInv, IInv, TypeOK, RobBuffer, RobWindow, RsEntry
<1>2. PICK e \in rob.data[y.tag] : \A r : ~Continues(m, e, r)
  BY BranchUnresolved
<1>3. QED BY <1>1, <1>2, AllResolved

\* An issue finds its place in the program, and behind a branch it finds nothing.
LEMMA ControlAfterIssue ==
  ASSUME NEW C \in SUBSET Addr, NEW m \in [Addr \ C -> Word], HomeInv, InFlight(C, m),
         NEW n \in Nat, 0 .. n - 1 \subseteq Addr \ C, FetchesBelow(n),
         OneLoop(n, m), ControlInv(n, m), Issue, apc' = apc
  PROVE  ControlInv(n, m)'
<1>1. TypeOK /\ RobWindow
  BY DEF HomeInv, IInv
<1>2. PICK d \in idRs.active :
        /\ rob.data[rob.tail] = {} /\ rob' = Push(RobSize, rob, NewRobEntry(d))
        /\ branchStall' = (branchStall \/ IsBranch(d.instr.op))
  BY <1>1, IssueFacts
<1>3. /\ stage = "IS" /\ stage' = "DI" /\ ~IsFull(RobSize, rob)
      /\ idRs'.staged = idRs.staged /\ idRs'.active = {} /\ ifId' = ifId /\ pc' = pc
  BY DEF Issue, Taken
<1>4. /\ pc \in Nat
      /\ \A g \in ifId.staged \cup ifId.active :
           /\ g.pc \in Nat
           /\ g.pc < n => g.word = m[g.pc]
           /\ Decodes(g.word) => g.pc < n
      /\ \A c \in idRs.staged \cup idRs.active : c.pc \in Nat /\ c.instr \in Decode[m[c.pc]]
  BY <1>1, FrontWords
<1>5. ~branchStall
  BY <1>2 DEF ControlInv, FrontFlow, StalledFront
<1>6. /\ ChainRight(n, rob, m, apc) /\ FrontPlaces /\ InOrder
      /\ \A c \in idRs.staged \cup idRs.active : c.pc < n
  BY <1>5 DEF ControlInv, FrontFlow
<1>7. PICK q \in Nat : LeadTo(rob, m, apc, rob.size, q) /\ FlowsFrom(n, m, q)
  BY <1>5 DEF ControlInv, FrontFlow
<1>8. PICK x : x = NewRobEntry(d)
  OBVIOUS
<1>9. x.pc = d.pc /\ x.pc < n /\ d.pc = q /\ d.instr \in Decode[m[x.pc]]
  BY <1>2, <1>4, <1>6, <1>7, <1>8 DEF NewRobEntry, FlowsFrom
<1>10. rob \in RobBuffer /\ WindowInv(RobSize, rob)
  BY <1>1 DEF TypeOK, RobBuffer, RobWindow
<1>11. rob' = Push(RobSize, rob, x) /\ LeadTo(rob, m, apc, rob.size, x.pc)
  BY <1>2, <1>7, <1>8, <1>9
<1>12. PICK c : c = Push(RobSize, rob, x)
  OBVIOUS
<1>13. /\ ChainRight(n, c, m, apc)
       /\ \A r : Continues(m, x, r) => LeadTo(c, m, apc, rob.size + 1, r)
  BY <1>2, <1>3, <1>6, <1>9, <1>10, <1>11, <1>12, ChainAfterPush
<1>14. rob' = c /\ c.size = rob.size + 1
  BY <1>11, <1>12 DEF Push
<1>15. ChainRight(n, rob, m, apc)'
  <2>1. ChainRight(n, rob', m, apc')
    BY <1>13, <1>14
  <2>2. QED BY <2>1 DEF ChainRight, LeadTo, Tag
<1>16. ifId.active = {} /\ FrontPlaces'
  BY <1>3, <1>6 DEF FrontPlaces
<1>17. FrontFlow(n, m)'
  <2>1. CASE ~IsBranch(d.instr.op)
    <3>1. ~branchStall'
      BY <1>2, <1>5, <2>1
    <3>2. InOrder'
      BY <1>3, <1>6 DEF InOrder
    <3>3. q + 1 \in Nat /\ LeadTo(rob', m, apc', rob'.size, q + 1)
      <4>1. Continues(m, x, q + 1)
        BY <1>9, <2>1 DEF Continues
      <4>2. QED BY <1>13, <1>14, <4>1
    <3>4. LeadTo(rob, m, apc, rob.size, q + 1)'
      BY <3>3 DEF LeadTo, Tag
    <3>5. FlowsFrom(n, m, q + 1)'
      <4>1. Count(idRs'.active) = 0 /\ Count(idRs.active) = 1 /\ Count(idRs.staged) \in Nat
        BY <1>2, <1>3, CountOfOne, CountOfNone
      <4>2. q + 1 + Count(idRs'.active) = q + Count(idRs.active)
        BY <4>1
      <4>3. /\ \A e \in idRs.staged : e.pc = q + Count(idRs.active)
            /\ \A g \in ifId.staged : Decodes(g.word)
                 => g.pc = q + Count(idRs.active) + Count(idRs.staged) + Count(ifId.active)
            /\ pc < n /\ Decodes(m[pc])
                 => pc = q + Count(idRs.active) + Count(idRs.staged) + Count(ifId.active)
                           + Count(ifId.staged)
        BY <1>7 DEF FlowsFrom
      <4>4. QED BY <1>3, <1>16, <4>2, <4>3 DEF FlowsFrom
    <3>6. QED BY <3>1, <3>2, <3>3, <3>4, <3>5 DEF FrontFlow
  <2>2. CASE IsBranch(d.instr.op)
    <3>1. branchStall'
      BY <1>2, <2>2
    <3>2. d.pc \in Nat /\ d.pc < n /\ \A i \in Decode[m[d.pc]] : IsBranch(i.op)
      <4>1. d.pc \in Nat /\ d.pc < n /\ d.instr \in Decode[m[d.pc]]
        BY <1>4, <1>6
      <4>2. d.pc \in Addr \ C
        BY DEF InFlight, FrontRight
      <4>3. Decode[m[d.pc]] = {d.instr}
        <5>1. PICK p, i : p = d.pc /\ i = d.instr
          OBVIOUS
        <5>2. p \in Addr \ C /\ i \in Decode[m[p]]
          BY <4>1, <4>2, <5>1
        <5>3. Decode[m[p]] = {i}
          BY <5>2, DecodedAt
        <5>4. QED BY <5>1, <5>3
      <4>4. QED BY <2>2, <4>1, <4>3
    <3>3. ASSUME NEW a \in Nat, d.pc < a, a < n PROVE ~Decodes(m[a])
      BY <3>2, <3>3, NothingBehind
    <3>4. idRs.staged = {}
      <4>1. SUFFICES ASSUME NEW e \in idRs.staged PROVE FALSE
        OBVIOUS
      <4>2. d.pc < e.pc /\ e.pc < n /\ e.pc \in Nat /\ e.instr \in Decode[m[e.pc]]
        BY <1>4, <1>6, <4>1 DEF InOrder
      <4>3. QED BY <3>3, <4>2 DEF Decodes
    <3>5. \A g \in ifId.staged \cup ifId.active : ~Decodes(g.word)
      <4>1. SUFFICES ASSUME NEW g \in ifId.staged \cup ifId.active, Decodes(g.word) PROVE FALSE
        OBVIOUS
      <4>2. d.pc < g.pc /\ g.pc < n /\ g.pc \in Nat /\ g.word = m[g.pc]
        BY <1>4, <1>6, <4>1 DEF InOrder
      <4>3. QED BY <3>3, <4>1, <4>2
    <3>6. StalledFront'
      BY <1>3, <3>4, <3>5 DEF StalledFront
    <3>7. ~BranchInAlu(0)'
      <4>1. alu' = alu
        BY DEF Issue
      <4>2. SUFFICES ASSUME NEW j \in DOMAIN alu.inProgress, IsBranch(alu.inProgress[j].instr.op)
                     PROVE  FALSE
        BY <4>1 DEF BranchInAlu
      <4>3. PICK y : y = alu.inProgress[j].instr
        OBVIOUS
      <4>4. y \in RsEntry /\ Pending(y.tag) /\ Carries(rob, regs, m, y)
        BY <4>3, AluInFlight DEF InFlight, AluRight
      <4>5. QED BY <1>6, <1>7, <1>10, <4>2, <4>3, <4>4, NoneUnresolved
    <3>8. StalledPlaces'
      BY <1>3, <3>7 DEF StalledPlaces
    <3>9. QED BY <3>1, <3>6, <3>8 DEF FrontFlow
  <2>3. QED BY <2>1, <2>2
<1>18. QED BY <1>3, <1>6, <1>15, <1>16, <1>17 DEF ControlInv

\* A result that is not a branch's moves no instruction of the frontend.
LEMMA ControlAfterBroadcast ==
  ASSUME NEW n, NEW m, TypeOK, ControlInv(n, m), NEW s \in Tag, Pending(s), NEW v \in Word,
         Broadcast(s, v), UNCHANGED <<pc, branchStall, ifId, idRs, apc>>, Passes
  PROVE  ControlInv(n, m)'
<1>1. Delivers(rob, rob', s, v) /\ TagResult(rob, s) = {}
  BY RobDelivers, PendingSlot DEF Broadcast
<1>2. rob'.size = rob.size
  BY DEF Broadcast, RobUpdated, TypeOK, BufferOf
<1>3. PICK c : c = rob'
  OBVIOUS
<1>4. /\ \A k, q : LeadTo(rob, m, apc, k, q) => LeadTo(c, m, apc, k, q)
      /\ ChainRight(n, rob, m, apc) => ChainRight(n, c, m, apc)
  BY <1>1, <1>3, ChainAfterDelivery
<1>5. ChainRight(n, rob, m, apc)'
  BY <1>3, <1>4 DEF ControlInv, ChainRight, LeadTo, Tag
<1>6. \A q \in Nat : LeadTo(rob, m, apc, rob.size, q) => LeadTo(rob, m, apc, rob.size, q)'
  BY <1>2, <1>3, <1>4 DEF LeadTo, Tag
<1>7. QED BY <1>5, <1>6, ControlKept

\* A branch resolves when it is the only instruction on its way, with nothing behind it.
LEMMA ControlAfterExecute ==
  ASSUME NEW C \in SUBSET Addr, NEW m \in [Addr \ C -> Word], HomeInv, InFlight(C, m),
         NEW n, ControlInv(n, m), Execute, apc' = apc
  PROVE  ControlInv(n, m)'
<1>1. TypeOK /\ RobWindow
  BY DEF HomeInv, IInv
<1>2. PICK i \in DOMAIN alu.inProgress :
        LET res == AluResult(alu.inProgress[i].instr)
        IN /\ Finishes(alu, i)
           /\ IF IsBranch(res.instr.op) THEN Redirect(res) ELSE UNCHANGED <<pc, branchStall>>
           /\ IF IsLoad(res.instr.op) THEN UNCHANGED <<rs, rob>>
                ELSE Broadcast(res.tag, res.result)
  BY DEF Execute
<1>3. PICK x, v : x = alu.inProgress[i].instr
                  /\ v = Compute(x.op, x.pc, x.rs1.val, x.rs2.val, x.imm)
  OBVIOUS
<1>4. PICK res : res = AluResult(x)
  OBVIOUS
<1>5. res.tag = x.tag /\ res.instr = x /\ res.result = v
  BY <1>3, <1>4 DEF AluResult
<1>6. /\ IF IsBranch(x.op) THEN pc' = v /\ branchStall' = FALSE ELSE UNCHANGED <<pc, branchStall>>
      /\ IF IsLoad(x.op) THEN UNCHANGED <<rs, rob>> ELSE Broadcast(x.tag, v)
  BY <1>2, <1>3, <1>4, <1>5 DEF Redirect
<1>7. x \in RsEntry /\ x.tag \in Tag /\ Pending(x.tag) /\ Carries(rob, regs, m, x)
  BY <1>3, AluInFlight DEF InFlight, AluRight
<1>8. v \in Word
  <2>1. AluResult(x) \in Result
    BY <1>7, AluResultType
  <2>2. QED BY <1>4, <1>5, <2>1 DEF Result
<1>9. stage = "EX" /\ stage' = "MEM" /\ UNCHANGED <<ifId, idRs>> /\ Passes
  BY DEF Execute, Passes
<1>10. /\ ChainRight(n, rob, m, apc) /\ FrontPlaces /\ FrontFlow(n, m)
       /\ \A d \in idRs.staged \cup idRs.active : d.pc < n
  BY DEF ControlInv
<1>11. CASE ~IsBranch(x.op) /\ IsLoad(x.op)
  <2>1. UNCHANGED <<pc, branchStall, ifId, idRs, rob, apc>>
    BY <1>6, <1>9, <1>11
  <2>2. QED BY <1>9, <2>1, ControlKeptInPlace
<1>12. CASE ~IsBranch(x.op) /\ ~IsLoad(x.op)
  <2>1. UNCHANGED <<pc, branchStall, ifId, idRs, apc>> /\ Broadcast(x.tag, v)
    BY <1>6, <1>9, <1>12
  <2>2. QED BY <1>1, <1>7, <1>8, <1>9, <2>1, ControlAfterBroadcast
<1>13. CASE IsBranch(x.op)
  <2>1. pc' = v /\ branchStall' = FALSE /\ Broadcast(x.tag, v)
    BY <1>6, <1>13 DEF IsBranch, BranchOps, IsLoad, LoadOps
  <2>2. branchStall
    <3>1. SUFFICES ASSUME ~branchStall PROVE FALSE
      OBVIOUS
    <3>2. PICK q \in Nat : LeadTo(rob, m, apc, rob.size, q)
      BY <1>10, <3>1 DEF FrontFlow
    <3>3. QED BY <1>7, <1>10, <1>13, <3>2, NoneUnresolved
  <2>3. BranchInAlu(1)
    <3>1. alu.inProgress[i].age \in Nat /\ 0 < alu.inProgress[i].age
      <4>1. alu \in AluOf(RsEntry)
        BY <1>1 DEF TypeOK
      <4>2. \A j \in DOMAIN alu.inProgress : alu.inProgress[j] \in Operation(RsEntry)
        BY <4>1 DEF AluOf
      <4>3. QED BY <1>2, <4>2 DEF Operation, Finishes, Eligible
    <3>2. QED BY <1>3, <1>13, <3>1 DEF BranchInAlu
  <2>4. ifId.staged = {} /\ ifId.active = {} /\ idRs.staged = {} /\ idRs.active = {}
    BY <1>9, <1>10, <2>2, <2>3 DEF FrontFlow, StalledFront, StalledPlaces, FetchEmpty
  <2>5. Delivers(rob, rob', x.tag, v) /\ TagResult(rob, x.tag) = {}
    BY <1>1, <1>7, <1>8, <2>1, RobDelivers, PendingSlot DEF Broadcast
  <2>6. rob'.size = rob.size
    BY <1>1, <2>1 DEF Broadcast, RobUpdated, TypeOK, BufferOf
  <2>7. PICK c : c = rob'
    OBVIOUS
  <2>8. ChainRight(n, c, m, apc)
    BY <1>7, <1>10, <2>5, <2>7, ChainAfterDelivery
  <2>9. PICK e \in rob.data[x.tag] :
          /\ rob.data[x.tag] = {e}
          /\ \E j \in Decode[m[e.pc]] : IsBranch(j.op)
          /\ \A q : ~Continues(m, e, q)
    BY <1>7, <1>13, BranchUnresolved
  <2>10. rob \in RobBuffer /\ WindowInv(RobSize, rob)
    BY <1>1 DEF TypeOK, RobBuffer, RobWindow
  <2>11. Age(rob, x.tag) = rob.size - 1
    BY <1>7, <1>10, <2>9, <2>10, OnlyYoungestUnresolved
  <2>12. rob.size # 0
    BY <1>7, <2>9, <2>10, <2>11, AgesFill
  <2>13. LeadTo(c, m, apc, rob.size, v)
    <3>1. ASSUME NEW t \in Tag, Age(c, t) = rob.size - 1, NEW f \in c.data[t]
          PROVE  Continues(m, f, v)
      <4>1. Age(rob, t) = Age(rob, x.tag)
        BY <1>7, <2>5, <2>7, <2>11, <3>1, DeliveryKeepsWriters
      <4>2. t = x.tag
        BY <1>7, <2>10, <3>1, <4>1, AgeFacts, AgesFill
      <4>3. f.result = {v} /\ SameInstr(e, f)
        BY <2>5, <2>7, <2>9, <3>1, <4>2 DEF Delivers
      <4>4. PICK j \in Decode[m[f.pc]] : IsBranch(j.op)
        BY <2>9, <4>3 DEF SameInstr
      <4>5. QED BY <4>3, <4>4 DEF Continues
    <3>2. QED BY <2>12, <3>1 DEF LeadTo
  <2>14. ChainRight(n, rob, m, apc)' /\ LeadTo(rob, m, apc, rob.size, v)'
    BY <2>6, <2>7, <2>8, <2>13 DEF ChainRight, LeadTo, Tag
  <2>15. FlowsFrom(n, m, v)' /\ InOrder'
    <3>1. /\ ifId'.staged = {} /\ ifId'.active = {} /\ idRs'.staged = {} /\ idRs'.active = {}
          /\ v \in Nat /\ v + Count({}) + Count({}) + Count({}) + Count({}) = v
      BY <1>8, <1>9, <2>4, CountOfNone, IsaAssumption DEF Word
    <3>2. QED BY <2>1, <3>1 DEF FlowsFrom, InOrder
  <2>16. FrontFlow(n, m)'
    <3>1. v \in Nat
      BY <1>8, IsaAssumption DEF Word
    <3>2. QED BY <2>1, <2>14, <2>15, <3>1 DEF FrontFlow
  <2>17. FrontPlaces'
    BY <1>9, <1>10, PassesKeepsPlaces
  <2>18. QED BY <1>9, <1>10, <2>14, <2>16, <2>17 DEF ControlInv
<1>14. QED BY <1>11, <1>12, <1>13

\* The instruction that commits leads where the sequential machine goes on.
LEMMA CommitContinues ==
  ASSUME NEW C \in SUBSET Addr, NEW m \in [Addr \ C -> Word], NEW n \in Nat, OneLoop(n, m),
         NEW e, NEW i, NEW v, CommitsAs(C, m, e, i, v), e.pc < n, NEW q, Continues(m, e, q)
  PROVE  q = apc'
<1>1. PICK p : p = e.pc
  OBVIOUS
<1>2. /\ p \in Addr \ C /\ e.result = {v} /\ i \in Decode[m[p]]
      /\ Yields(C, m, i, p, regs[i.rs1], regs[i.rs2], v) /\ apc' = Sequential!Target(i, p)
  BY <1>1 DEF CommitsAs, Observe
<1>3. Decode[m[p]] = {i} /\ i.op \in Opcode
  BY <1>2, DecodedAt
<1>4. p \in Nat /\ p < n /\ p + 1 \in Nat /\ p + 1 < WordMod /\ WordMod \in Nat
  BY <1>1, <1>2, OooAssumption, IsaAssumption DEF Addr
<1>5. i.op \notin {"Jal", "Jalr"}
  <2>1. p \in 0 .. n - 1
    BY <1>4
  <2>2. QED BY <1>3, <2>1 DEF OneLoop
<1>6. Wrap(p + 1) = p + 1
  BY <1>4 DEF Wrap
<1>7. IF IsBranch(i.op) THEN v = q ELSE q = p + 1
  BY <1>1, <1>2, <1>3 DEF Continues
<1>8. CASE IsBranch(i.op)
  <2>1. i.op \in {"Beq", "Bne", "Blt", "Bge", "Bltu", "Bgeu"} /\ FormatOf(i.op) = "B"
    BY <1>5, <1>8 DEF IsBranch, BranchOps, FormatOf
  <2>2. ~AccessesMemory(i.op)
    BY <2>1 DEF AccessesMemory, IsLoad, IsStore, LoadOps, StoreOps
  <2>3. PICK x, y : x = regs[i.rs1] /\ y = regs[i.rs2]
    OBVIOUS
  <2>4. v = Compute(i.op, p, x, y, i.imm)
    BY <1>2, <2>2, <2>3 DEF Yields
  <2>5. v = IF Holds(i.op, x, y) THEN Wrap(p + i.imm) ELSE Wrap(p + 1)
    BY <2>1, <2>4 DEF Compute
  <2>6. Sequential!Holds(i.op, x, y) <=> Holds(i.op, x, y)
    BY DEF Sequential!Holds, Holds, Sequential!Signed, Signed
  <2>7. apc' = IF Holds(i.op, x, y) THEN Wrap(p + i.imm) ELSE Wrap(p + 1)
    BY <1>2, <1>5, <2>1, <2>3, <2>6, SameIsa DEF Sequential!Target
  <2>8. QED BY <1>7, <1>8, <2>5, <2>7
<1>9. CASE ~IsBranch(i.op)
  <2>1. FormatOf(i.op) # "B"
    BY <1>3, <1>9 DEF IsBranch, BranchOps, FormatOf, Opcode, IntOps, LoadOps, StoreOps
  <2>2. apc' = Wrap(p + 1)
    BY <1>2, <1>5, <2>1, SameIsa DEF Sequential!Target
  <2>3. QED BY <1>6, <1>7, <1>9, <2>2
<1>10. QED BY <1>8, <1>9

LEMMA ControlAfterCommit ==
  ASSUME NEW C \in SUBSET Addr, NEW m \in [Addr \ C -> Word], HomeInv,
         NEW n \in Nat, OneLoop(n, m), ControlInv(n, m), Commit,
         NEW e, NEW i, NEW v, CommitsAs(C, m, e, i, v)
  PROVE  ControlInv(n, m)' /\ e.pc = apc
<1>1. /\ rob \in RobBuffer /\ WindowInv(RobSize, rob)
  BY DEF HomeInv, IInv, TypeOK, RobBuffer, RobWindow
<1>2. /\ stage = "CM" /\ stage' = "UP" /\ rob' = Pop(RobSize, rob) /\ ~IsEmpty(rob)
      /\ UNCHANGED <<pc, branchStall, ifId, idRs>> /\ Passes
  BY DEF Commit, frontVars, Passes
<1>3. ChainRight(n, rob, m, apc)
  BY DEF ControlInv
<1>4. rob.data[rob.head] = {e} /\ rob.head \in Tag
  BY <1>1, AgesFill DEF CommitsAs
<1>5. e.pc < n
  BY <1>3, <1>4 DEF ChainRight
<1>6. \A q : Continues(m, e, q) => q = apc'
  BY <1>5, CommitContinues
<1>7. PICK b, c, p, r : b = rob /\ c = rob' /\ p = apc /\ r = apc'
  OBVIOUS
<1>8. /\ Shortened(m, b, p, c, r)
      /\ ChainRight(n, b, m, p) => e.pc = p /\ ChainRight(n, c, m, r)
  <2>1. /\ b \in RobBuffer /\ c = Pop(RobSize, b) /\ b.data[b.head] = {e}
        /\ LeadsOnlyTo(m, e, r)
    BY <1>1, <1>2, <1>4, <1>6, <1>7 DEF LeadsOnlyTo
  <2>2. QED BY <2>1, ChainAfterPop
<1>9. ChainRight(n, rob, m, apc)' /\ e.pc = apc
  BY <1>3, <1>7, <1>8 DEF ChainRight, LeadTo, Tag
<1>10. ASSUME NEW q, LeadTo(rob, m, apc, rob.size, q) PROVE LeadTo(rob, m, apc, rob.size, q)'
  <2>1. rob.size \in Nat \ {0} /\ rob'.size = rob.size - 1
    BY <1>1, <1>2, AgesFill DEF IsEmpty, Pop
  <2>2. LeadTo(c, m, r, rob.size - 1, q)
    BY <1>7, <1>8, <1>10, <2>1 DEF Shortened
  <2>3. QED BY <1>7, <2>1, <2>2 DEF LeadTo, Tag
<1>11. ControlInv(n, m)'
  BY <1>2, <1>9, <1>10, ControlKept
<1>12. QED BY <1>9, <1>11

LEMMA ControlAfterAdvance ==
  ASSUME NEW n, NEW m, ControlInv(n, m), AdvanceLatches, apc' = apc
  PROVE  ControlInv(n, m)'
<1>1. /\ stage = "UP" /\ stage' = "IF" /\ UNCHANGED <<pc, branchStall, rob>>
      /\ ifId'.staged = {} /\ ifId'.active = ifId.staged
      /\ idRs'.staged = {} /\ idRs'.active = idRs.staged
  BY DEF AdvanceLatches, Advanced, execVars
<1>2. /\ ChainRight(n, rob, m, apc) /\ FrontPlaces /\ FrontFlow(n, m)
      /\ \A d \in idRs.staged \cup idRs.active : d.pc < n
  BY DEF ControlInv
<1>3. ifId.active = {} /\ idRs.active = {}
  BY <1>1, <1>2 DEF FrontPlaces
<1>4. FrontPlaces' /\ ChainRight(n, rob, m, apc)'
  BY <1>1, <1>2 DEF FrontPlaces, ChainRight, LeadTo
<1>5. FrontFlow(n, m)'
  <2>1. CASE branchStall
    <3>1. StalledFront' /\ StalledPlaces'
      BY <1>1, <1>2, <2>1 DEF FrontFlow, StalledFront, StalledPlaces
    <3>2. QED BY <1>1, <2>1, <3>1 DEF FrontFlow
  <2>2. CASE ~branchStall
    <3>1. InOrder'
      BY <1>1, <1>2, <2>2 DEF FrontFlow, InOrder
    <3>2. PICK q \in Nat : LeadTo(rob, m, apc, rob.size, q) /\ FlowsFrom(n, m, q)
      BY <1>2, <2>2 DEF FrontFlow
    <3>3. LeadTo(rob, m, apc, rob.size, q)'
      BY <1>1, <3>2 DEF LeadTo
    <3>4. FlowsFrom(n, m, q)'
      <4>1. /\ Count(idRs.active) = 0 /\ Count(ifId.active) = 0 /\ Count(idRs'.staged) = 0
            /\ Count(ifId'.staged) = 0
            /\ Count(idRs'.active) = Count(idRs.staged) /\ Count(ifId'.active) = Count(ifId.staged)
            /\ Count(idRs.staged) \in Nat /\ Count(ifId.staged) \in Nat
        BY <1>1, <1>3, CountOfNone, CountOfOne
      <4>2. /\ \A d \in idRs.staged : d.pc = q + Count(idRs.active)
            /\ \A f \in ifId.staged : Decodes(f.word)
                 => f.pc = q + Count(idRs.active) + Count(idRs.staged) + Count(ifId.active)
            /\ pc < n /\ Decodes(m[pc])
                 => pc = q + Count(idRs.active) + Count(idRs.staged) + Count(ifId.active)
                           + Count(ifId.staged)
        BY <3>2 DEF FlowsFrom
      <4>3. /\ q + Count(idRs.active) = q
            /\ q + Count(idRs.active) + Count(idRs.staged) + Count(ifId.active)
                 = q + Count(idRs'.active) + Count(idRs'.staged)
            /\ q + Count(idRs.active) + Count(idRs.staged) + Count(ifId.active) + Count(ifId.staged)
                 = q + Count(idRs'.active) + Count(idRs'.staged) + Count(ifId'.active)
                     + Count(ifId'.staged)
        BY <4>1
      <4>4. QED BY <1>1, <4>2, <4>3 DEF FlowsFrom
    <3>5. QED BY <1>1, <2>2, <3>1, <3>3, <3>4 DEF FrontFlow
  <2>3. QED BY <2>1, <2>2
<1>6. QED BY <1>1, <1>2, <1>4, <1>5 DEF ControlInv

\* The steps of dispatch() put no branch into the ALU that has been there before.
LEMMA DispatchPasses ==
  ASSUME TypeOK, DispatchSkip \/ DispatchBlocked \/ Dispatch \/ DispatchNone
  PROVE  Passes /\ UNCHANGED <<pc, branchStall, ifId, idRs, rob>>
<1>1. UNCHANGED <<pc, branchStall, ifId, idRs, rob>> /\ stage = "DI"
  BY DEF DispatchSkip, DispatchBlocked, Dispatch, DispatchNone, frontVars
<1>2. alu \in AluOf(RsEntry) /\ alu.inProgress \in Seq(Operation(RsEntry))
  BY DEF TypeOK, AluOf
<1>3. BranchInAlu(1) => BranchInAlu(0)
  <2>1. SUFFICES ASSUME NEW j \in DOMAIN alu.inProgress, 1 <= alu.inProgress[j].age
                 PROVE  0 <= alu.inProgress[j].age
    BY DEF BranchInAlu
  <2>2. \A k \in DOMAIN alu.inProgress : alu.inProgress[k] \in Operation(RsEntry)
    BY <1>2
  <2>3. alu.inProgress[j].age \in Nat
    BY <2>1, <2>2 DEF Operation
  <2>4. QED BY <2>1, <2>3
<1>4. CASE DispatchSkip \/ DispatchBlocked
  <2>1. stage' = "DI" /\ alu' = alu
    BY <1>4 DEF DispatchSkip, DispatchBlocked
  <2>2. QED BY <1>1, <2>1 DEF Passes, BranchInAlu
<1>5. CASE DispatchNone
  <2>1. stage' = "EX" /\ alu' = alu
    BY <1>5 DEF DispatchNone
  <2>2. BranchInAlu(1)' => BranchInAlu(1)
    BY <2>1 DEF BranchInAlu
  <2>3. QED BY <1>1, <1>3, <2>1, <2>2 DEF Passes
<1>6. CASE Dispatch
  <2>1. PICK e \in RsEntry : e = rs[scan]
    BY <1>6, StationShape, StationAfterDispatch
  <2>2. stage' = "EX" /\ FreePipes(alu, e.op) # {} /\ alu' = Enqueued(alu, e)
    BY <1>6, <2>1 DEF Dispatch
  <2>3. PICK p \in PipeIndex, o \in Operation(RsEntry) :
          /\ ~alu.usage[p]
          /\ Enqueued(alu, e).usage = [alu.usage EXCEPT ![p] = TRUE]
          /\ Enqueued(alu, e).inProgress = Append(alu.inProgress, o)
          /\ o.pipe = p /\ o.age = 0
    BY <1>2, <2>2, EnqueuedPipe
  <2>4. alu'.inProgress = Append(alu.inProgress, o) /\ o.age = 0
    BY <2>2, <2>3
  <2>5. /\ DOMAIN alu'.inProgress = 1 .. Len(alu.inProgress) + 1
        /\ DOMAIN alu.inProgress = 1 .. Len(alu.inProgress) /\ Len(alu.inProgress) \in Nat
        /\ \A j \in 1 .. Len(alu.inProgress) : alu'.inProgress[j] = alu.inProgress[j]
        /\ alu'.inProgress[Len(alu.inProgress) + 1] = o
    BY <1>2, <2>4, AppendProperties
  <2>6. BranchInAlu(1)' => BranchInAlu(1)
    <3>1. SUFFICES ASSUME NEW j \in DOMAIN alu'.inProgress,
                          IsBranch(alu'.inProgress[j].instr.op), 1 <= alu'.inProgress[j].age
                   PROVE  BranchInAlu(1)
      BY DEF BranchInAlu
    <3>2. j # Len(alu.inProgress) + 1
      BY <2>4, <2>5, <3>1
    <3>3. j \in 1 .. Len(alu.inProgress)
      BY <2>5, <3>2
    <3>4. QED BY <2>5, <3>1, <3>3 DEF BranchInAlu
  <2>7. QED BY <1>1, <1>3, <2>2, <2>6 DEF Passes
<1>7. QED BY <1>1, <1>4, <1>5, <1>6

\* Every step but a commit keeps what control flow has led to.
LEMMA ControlStep ==
  ASSUME NEW C \in SUBSET Addr, NEW m \in [Addr \ C -> Word], HomeInv, InFlight(C, m),
         NEW n \in Nat, 0 .. n - 1 \subseteq Addr \ C, FetchesBelow(n), FetchesBelow(n)',
         OneLoop(n, m), ControlInv(n, m), [Next]_vars, ~Commit, apc' = apc
  PROVE  ControlInv(n, m)'
<1>1. TypeOK
  BY DEF HomeInv, IInv
<1>2. CASE UNCHANGED vars
  BY <1>2 DEF vars, frontVars, execVars, ControlInv, ChainRight, LeadTo, FrontPlaces, FrontFlow,
     InOrder, FlowsFrom, StalledFront, StalledPlaces, BranchInAlu, FetchEmpty
<1>3. CASE MovesOn
  <2>1. UNCHANGED <<pc, branchStall, ifId, idRs, rob>>
    BY <1>1, <1>3, MovesOnFacts DEF frontVars, execVars
  <2>2. Passes
    BY <1>3 DEF MovesOn, Passes, Panic, FetchStalled, FetchFault, DecodeBubble, DecodePanic,
       IssueBubble, IssueRobFull, IssueRsFull, MemBubble, MemFault, CommitNone, Panicked, vars
  <2>3. QED BY <2>1, <2>2, ControlKeptInPlace
<1>4. CASE DispatchSkip \/ DispatchBlocked \/ Dispatch \/ DispatchNone
  BY <1>1, <1>4, DispatchPasses, ControlKeptInPlace
<1>5. CASE ExecuteNone \/ MemStage \/ WriteBackOther
  <2>1. UNCHANGED <<pc, branchStall, ifId, idRs, rob>> /\ Passes
    BY <1>5 DEF ExecuteNone, MemStage, WriteBackOther, frontVars, execVars, Passes
  <2>2. QED BY <2>1, ControlKeptInPlace
<1>6. CASE WriteBackLoad
  <2>1. PICK r \in memRob.active : IsLoad(r.instr.op) /\ Broadcast(r.tag, r.result)
    BY <1>6 DEF WriteBackLoad
  <2>2. r.tag \in Tag /\ Pending(r.tag) /\ r.result \in Word
    BY <2>1, LoadInFlight DEF Result
  <2>3. UNCHANGED <<pc, branchStall, ifId, idRs, apc>> /\ Passes
    BY <1>6 DEF WriteBackLoad, frontVars, Passes
  <2>4. QED BY <1>1, <2>1, <2>2, <2>3, ControlAfterBroadcast
<1>7. CASE Fetch
  BY <1>1, <1>7, ControlAfterFetch
<1>8. CASE DecodeInstr
  BY <1>1, <1>8, ControlAfterDecode
<1>9. CASE DecodeZero
  BY <1>1, <1>9, ControlAfterZero
<1>10. CASE Issue
  BY <1>10, ControlAfterIssue
<1>11. CASE Execute
  BY <1>11, ControlAfterExecute
<1>12. CASE AdvanceLatches
  BY <1>12, ControlAfterAdvance
<1>13. QED
  BY <1>2, <1>3, <1>4, <1>5, <1>6, <1>7, <1>8, <1>9, <1>10, <1>11, <1>12 DEF Next, MovesOn

\* The control invariant of the program as it is in memory.
ControlHolds(C, n) ==
  \E m \in {Rom(C, amem)} : OneLoop(n, m) /\ ControlInv(n, m)

\* Every step of the core follows the sequential machine's program counter.
LEMMA StepFollowsProgram ==
  ASSUME NEW C \in SUBSET Addr, NEW n \in Nat, 0 .. n - 1 \subseteq Addr \ C,
         HomeInv, DataInv(C), ControlHolds(C, n), Separated(C), Separated(C)',
         FetchesBelow(n), FetchesBelow(n)', [RefNext]_refVars
  PROVE  /\ HomeInv' /\ DataInv(C)' /\ ControlHolds(C, n)'
         /\ [Sequential!Next]_Sequential!vars
         /\ Committing => \A e \in HeadSlot(rob) : e.pc = apc
<1>1. PICK m : m = Rom(C, amem) /\ OneLoop(n, m) /\ ControlInv(n, m)
  BY DEF ControlHolds
<1>2. /\ HomeInv' /\ DataInv(C)' /\ Rom(C, amem') = m /\ follows' = follows
      /\ InFlight(C, m) /\ InFlight(C, m)'
      /\ \/ [Next]_vars /\ ~Commit /\ UNCHANGED <<amem, regs, apc>>
         \/ Commit /\ \E e, i, v : CommitsAs(C, m, e, i, v) /\ Sequential!ExecuteAt(e.pc)
  BY <1>1, StepOnData
<1>3. m \in [Addr \ C -> Word]
  BY <1>1 DEF DataInv, Rom
<1>4. ControlInv(n, m)' /\ [Sequential!Next]_Sequential!vars
  <2>1. CASE [Next]_vars /\ ~Commit /\ UNCHANGED <<amem, regs, apc>>
    <3>1. ControlInv(n, m)'
      BY <1>1, <1>2, <1>3, <2>1, ControlStep
    <3>2. QED BY <1>2, <2>1, <3>1 DEF Sequential!vars
  <2>2. ASSUME Commit, NEW e, NEW i, NEW v, CommitsAs(C, m, e, i, v), Sequential!ExecuteAt(e.pc)
        PROVE  ControlInv(n, m)' /\ [Sequential!Next]_Sequential!vars
    <3>1. ControlInv(n, m)' /\ e.pc = apc
      BY <1>1, <1>3, <2>2, ControlAfterCommit
    <3>2. e.pc \in Sequential!Addr
      BY <2>2 DEF Sequential!ExecuteAt
    <3>3. Sequential!Next
      BY <1>2, <2>2, <3>1, <3>2 DEF Sequential!Next
    <3>4. QED BY <3>1, <3>3
  <2>3. QED BY <1>2, <2>1, <2>2
<1>5. Committing => \A e \in HeadSlot(rob) : e.pc = apc
  <2>1. SUFFICES ASSUME NEW e \in rob.data[rob.head] PROVE e.pc = apc
    BY DEF HeadSlot
  <2>2. rob.head \in Tag /\ Age(rob, rob.head) = 0
    BY AgeFacts, PendingSlot DEF HomeInv, IInv, TypeOK, BufferOf, Tag
  <2>3. LeadTo(rob, m, apc, 0, e.pc)
    BY <1>1, <2>1, <2>2 DEF ControlInv, ChainRight
  <2>4. QED BY <2>3 DEF LeadTo
<1>6. ControlHolds(C, n)'
  BY <1>1, <1>2, <1>4 DEF ControlHolds
<1>7. QED BY <1>2, <1>4, <1>5, <1>6

LEMMA InitFollowsProgram ==
  ASSUME NEW C \in SUBSET Addr, NEW n \in Nat, RefInit, OneLoop(n, Rom(C, mem))
  PROVE  ControlHolds(C, n)
<1>1. PICK m : m = Rom(C, amem) /\ OneLoop(n, m)
  BY DEF RefInit
<1>2. /\ ifId.staged = {} /\ ifId.active = {} /\ idRs.staged = {} /\ idRs.active = {}
      /\ rob.size = 0 /\ (\A t \in Tag : rob.data[t] = {}) /\ ~branchStall /\ pc = 0 /\ apc = 0
      /\ stage = "IF"
  BY DEF RefInit, Init, EmptyLatch, EmptyBuffer, Tag
<1>3. ChainRight(n, rob, m, apc) /\ FrontPlaces
  BY <1>2 DEF ChainRight, FrontPlaces
<1>4. LeadTo(rob, m, apc, rob.size, 0) /\ FlowsFrom(n, m, 0) /\ InOrder
  <2>1. 0 + Count({}) + Count({}) + Count({}) + Count({}) = 0
    BY CountOfNone
  <2>2. QED BY <1>2, <2>1 DEF LeadTo, FlowsFrom, InOrder
<1>5. FrontFlow(n, m)
  BY <1>2, <1>4 DEF FrontFlow
<1>6. QED BY <1>1, <1>2, <1>3, <1>5 DEF ControlHolds, ControlInv

\* On straight-line code and loops, the stream of instructions that commits is the one
\* control flow leads through.  The program is the first n words, all outside of C; behind
\* a branch, and behind a word that is none, it has no instruction, and it has no jumps.
\* This is what "when a branch or jump commits we know the true next-PC"
\* (src/src/simple_ooo/mod.rs:156) comes to: the words fetched behind a branch that is
\* taken never commit, and none of those where it leads to is skipped.
THEOREM LoopsAreSequential ==
  ASSUME NEW CONSTANT C \in SUBSET Addr, NEW CONSTANT n \in Nat, 0 .. n - 1 \subseteq Addr \ C
  PROVE  RefSpec /\ OneLoop(n, Rom(C, mem)) /\ [](Separated(C) /\ FetchesBelow(n))
           => ImplementsIsa /\ CommitsFollowControlFlow
<1>1. RefInit /\ OneLoop(n, Rom(C, mem))
        => HomeInv /\ DataInv(C) /\ ControlHolds(C, n) /\ Sequential!Init
  BY InitIsSequential, InitFollowsProgram
<1>2. HomeInv /\ DataInv(C) /\ ControlHolds(C, n) /\ Separated(C) /\ Separated(C)'
      /\ FetchesBelow(n) /\ FetchesBelow(n)' /\ [RefNext]_refVars
        => /\ HomeInv' /\ DataInv(C)' /\ ControlHolds(C, n)'
           /\ [Sequential!Next]_Sequential!vars
           /\ [Committing => \A e \in HeadSlot(rob) : e.pc = apc]_refVars
  BY StepFollowsProgram
<1>3. QED BY <1>1, <1>2, PTL DEF RefSpec, ImplementsIsa, CommitsFollowControlFlow, Sequential!Spec

-----------------------------------------------------------------------------
(* Memory: stores executed, performed and committed *)

StoresTo(x, k) == IsStore(x.instr.op) /\ x.result = k

\* v is what cell k of memory f holds once the stores in latch l have been performed.
Lands(l, f, k, v) ==
  \/ \E x \in l.staged : StoresTo(x, k) /\ v = x.instr.rs2.val
  \/ /\ \A x \in l.staged : ~StoresTo(x, k)
     /\ \/ \E x \in l.active : StoresTo(x, k) /\ v = x.instr.rs2.val
        \/ (\A x \in l.active : ~StoresTo(x, k)) /\ v = f[k]

\* The stores to k in reorder buffer b that have been executed.
StoresIn(b, k) == {t \in Tag : \E e \in b.data[t] : e.format = "S" /\ e.result = {k}}

\* v is the data of the youngest of them or, if there is none, what the committed ones left.
LastStored(b, g, m, am, k, v) ==
  /\ StoresIn(b, k) = {} => v = am[k]
  /\ \A t \in StoresIn(b, k) : (\A u \in StoresIn(b, k) : Age(b, u) <= Age(b, t)) =>
       \A e \in b.data[t] : \A i \in Decode[m[e.pc]] : Before(b, g, v, t, i.rs2)

StoresLand(C, m) ==
  \A k \in C : \A v \in Word : Lands(aluMem, mem, k, v) => LastStored(rob, regs, m, amem, k, v)

\* Two stores to one cell are executed in the order of the program.
StoresInOrder ==
  \A x \in aluMem.staged : IsStore(x.instr.op) =>
    \A t \in StoresIn(rob, x.result) : Rank(t) <= Rank(x.tag)

LEMMA FormatOfStore == ASSUME NEW op \in Opcode PROVE FormatOf(op) = "S" <=> IsStore(op)
<1>1. CASE IsStore(op)
  BY <1>1 DEF FormatOf, IsStore, StoreOps
<1>2. CASE op \in IntOps \ {"Lui", "Auipc"}
  BY <1>2 DEF FormatOf, IsStore, StoreOps, IntOps
<1>3. CASE op \in {"Lui", "Auipc"} \cup LoadOps
  BY <1>3 DEF FormatOf, IsStore, StoreOps, LoadOps
<1>4. CASE op \in BranchOps
  BY <1>4 DEF FormatOf, IsStore, StoreOps, BranchOps
<1>5. QED BY <1>1, <1>2, <1>3, <1>4 DEF Opcode, IsStore

\* A step that stores nothing.
LEMMA LastStoredKept ==
  ASSUME NEW C \in SUBSET Addr, NEW m \in [Addr \ C -> Word], NEW b, NEW g, NEW c, NEW h, NEW am,
         NEW k, NEW v \in Word, LastStored(b, g, m, am, k, v), StoresIn(c, k) = StoresIn(b, k),
         \A t \in Tag : EntryRight(C, b, g, m, t),
         \A t \in StoresIn(b, k) : /\ KeepsReads(b, g, c, h, t) /\ Age(c, t) = Age(b, t)
                                   /\ \A f \in c.data[t] : \E e \in b.data[t] : f.pc = e.pc
  PROVE  LastStored(c, h, m, am, k, v)
<1>1. StoresIn(c, k) = {} => v = am[k]
  BY DEF LastStored
<1>2. ASSUME NEW t \in StoresIn(c, k), \A u \in StoresIn(c, k) : Age(c, u) <= Age(c, t),
             NEW f \in c.data[t], NEW i \in Decode[m[f.pc]]
      PROVE  Before(c, h, v, t, i.rs2)
  <2>1. t \in StoresIn(b, k) /\ t \in Tag /\ \A u \in StoresIn(b, k) : Age(b, u) <= Age(b, t)
    BY <1>2 DEF StoresIn
  <2>2. PICK e \in b.data[t] : f.pc = e.pc
    BY <2>1
  <2>3. e.pc \in Addr \ C
    BY <2>1, <2>2 DEF EntryRight
  <2>4. i \in Decode[m[e.pc]]
    BY <2>2
  <2>5. i.rs2 \in Reg
    BY <2>3, <2>4, DecodedAt
  <2>6. Before(b, g, v, t, i.rs2)
    BY <2>1, <2>2, <2>4 DEF LastStored
  <2>7. QED BY <2>1, <2>5, <2>6 DEF KeepsReads
<1>3. QED BY <1>1, <1>2 DEF LastStored

\* A store leaves from the head: it was the oldest of the stores to its cell.
LEMMA LastStoredAfterCommit ==
  ASSUME NEW C \in SUBSET Addr, NEW m \in [Addr \ C -> Word], HomeInv, InFlight(C, m),
         amem \in [Addr -> Word], Commit, NEW e, NEW i, NEW w, CommitsAs(C, m, e, i, w),
         NEW k \in C, NEW v \in Word, LastStored(rob, regs, m, amem, k, v)
  PROVE  LastStored(rob', regs', m, amem', k, v)
<1>1. TypeOK /\ RobWindow /\ RobRight(C, m)
  BY DEF HomeInv, IInv, InFlight
<1>2. PICK f \in RobEntry :
        /\ rob.head \in Tag /\ rob.data[rob.head] = {f} /\ f.result # {}
        /\ The(f.result) \in Word
        /\ IF WritesRd(f.format) /\ f.rd # 0
             THEN /\ regs' = [regs EXCEPT ![f.rd] = The(f.result)]
                  /\ rat' = [rat EXCEPT ![f.rd] = AliasAfterCommit(f.rd, rob.head)]
             ELSE UNCHANGED <<regs, rat>>
        /\ rob' = Pop(RobSize, rob)
  BY <1>1, CommitFacts
<1>3. /\ f = e /\ e \in RobEntry /\ rob.data[rob.head] = {e} /\ rob.head \in Tag
      /\ e.pc \in Addr \ C /\ e.result = {w} /\ i \in Decode[m[e.pc]]
      /\ Yields(C, m, i, e.pc, regs[i.rs1], regs[i.rs2], w) /\ Observe(i, e.pc)
  BY <1>2 DEF CommitsAs
<1>4. The(e.result) = w /\ w \in Word
  <2>1. e.result \in Option(Word)
    BY <1>3 DEF RobEntry
  <2>2. The(e.result) \in e.result
    BY <1>2, <1>3, <2>1, TheProperties
  <2>3. QED BY <1>2, <1>3, <2>2
<1>5. PICK c, h : c = Pop(RobSize, rob) /\ h = Committed(regs, e, w)
  OBVIOUS
<1>6. rob' = c /\ regs' = h
  BY <1>2, <1>3, <1>4, <1>5 DEF Committed
<1>7. rob \in RobBuffer /\ regs \in [Reg -> Word]
  BY <1>1 DEF TypeOK, RobBuffer
<1>8. ASSUME NEW t \in Tag, t # rob.head PROVE KeepsReads(rob, regs, c, h, t)
  BY <1>3, <1>4, <1>5, <1>7, <1>8, PopKeepsReads
<1>9. /\ c.head \in Tag /\ c.data[rob.head] = {}
      /\ \A u \in Tag : u # rob.head => c.data[u] = rob.data[u] /\ Age(c, u) = Age(rob, u) - 1
  BY <1>5, <1>7, PopFacts
<1>10. StoresIn(c, k) = StoresIn(rob, k) \ {rob.head}
  BY <1>3, <1>9 DEF StoresIn
<1>11. i.op \in Opcode /\ i.rs2 \in Reg /\ Decode[m[e.pc]] = {i}
  <2>1. DecodesOnce(C, m)
    BY Decodings
  <2>2. QED BY <1>3, <2>1 DEF DecodesOnce
<1>12. e.format = FormatOf(i.op)
  BY <1>1, <1>3, <1>11 DEF RobRight, EntryRight
<1>13. (e.format = "S" <=> IsStore(i.op)) /\ (IsStore(i.op) => Sequential!EffectiveAddr(i) = w)
  <2>1. e.format = "S" <=> IsStore(i.op)
    BY <1>11, <1>12, FormatOfStore
  <2>2. IsStore(i.op) => Sequential!EffectiveAddr(i) = w
    BY <1>3, SameIsa DEF Yields, Sequential!EffectiveAddr
  <2>3. QED BY <2>1, <2>2
<1>14. rob.head \in StoresIn(rob, k) <=> IsStore(i.op) /\ w = k
  BY <1>3, <1>13 DEF StoresIn
<1>15. amem'[k] = IF rob.head \in StoresIn(rob, k) THEN regs[i.rs2] ELSE amem[k]
  BY <1>3, <1>13, <1>14 DEF Observe
<1>16. /\ \A t \in Tag : Age(rob, t) \in Nat
       /\ Age(rob, rob.head) = 0
  BY <1>3, AgeFacts
<1>17. ASSUME StoresIn(c, k) = {} PROVE v = amem'[k]
  <2>1. CASE rob.head \in StoresIn(rob, k)
    <3>1. StoresIn(rob, k) = {rob.head}
      BY <1>10, <1>17, <2>1
    <3>2. Before(rob, regs, v, rob.head, i.rs2)
      BY <1>3, <1>16, <3>1 DEF LastStored
    <3>3. QED BY <1>3, <1>15, <2>1, <3>2, HeadReadsRegisters
  <2>2. CASE rob.head \notin StoresIn(rob, k)
    BY <1>10, <1>15, <1>17, <2>2 DEF LastStored
  <2>3. QED BY <2>1, <2>2
<1>18. ASSUME NEW t \in StoresIn(c, k), \A u \in StoresIn(c, k) : Age(c, u) <= Age(c, t),
              NEW x \in c.data[t], NEW j \in Decode[m[x.pc]]
       PROVE  Before(c, h, v, t, j.rs2)
  <2>1. t \in StoresIn(rob, k) /\ t \in Tag /\ t # rob.head /\ x \in rob.data[t]
    BY <1>9, <1>10, <1>18 DEF StoresIn
  <2>2. ASSUME NEW u \in StoresIn(rob, k) PROVE Age(rob, u) <= Age(rob, t)
    <3>1. u \in Tag
      BY DEF StoresIn
    <3>2. CASE u = rob.head
      BY <1>16, <2>1, <3>2
    <3>3. CASE u # rob.head
      <4>1. Age(c, u) <= Age(c, t)
        BY <1>10, <1>18, <3>3
      <4>2. Age(rob, u) - 1 <= Age(rob, t) - 1
        BY <1>9, <2>1, <3>1, <3>3, <4>1
      <4>3. QED BY <1>16, <2>1, <3>1, <4>2
    <3>4. QED BY <3>2, <3>3
  <2>3. Before(rob, regs, v, t, j.rs2)
    BY <2>1, <2>2 DEF LastStored
  <2>4. x.pc \in Addr \ C
    BY <1>1, <2>1 DEF RobRight, EntryRight
  <2>5. j.rs2 \in Reg
    BY <2>4, DecodedAt
  <2>6. QED BY <1>8, <2>1, <2>3, <2>5 DEF KeepsReads
<1>19. QED BY <1>6, <1>17, <1>18 DEF LastStored

LEMMA LandAfterCommit ==
  ASSUME NEW C \in SUBSET Addr, NEW m \in [Addr \ C -> Word], HomeInv, InFlight(C, m),
         amem \in [Addr -> Word], Commit, NEW e, NEW i, NEW w, CommitsAs(C, m, e, i, w),
         StoresLand(C, m)
  PROVE  StoresLand(C, m)'
<1>1. UNCHANGED <<mem, aluMem>>
  BY DEF Commit, backVars
<1>2. ASSUME NEW k \in C, NEW v \in Word, Lands(aluMem, mem, k, v)
      PROVE  LastStored(rob', regs', m, amem', k, v)
  <2>1. LastStored(rob, regs, m, amem, k, v)
    BY <1>2 DEF StoresLand
  <2>2. QED BY <2>1, LastStoredAfterCommit
<1>3. QED BY <1>1, <1>2 DEF StoresLand

\* A new instruction has not been executed.
LEMMA LandAfterIssue ==
  ASSUME NEW C \in SUBSET Addr, NEW m \in [Addr \ C -> Word], HomeInv, InFlight(C, m),
         Issue, amem' = amem, StoresLand(C, m)
  PROVE  StoresLand(C, m)'
<1>1. TypeOK /\ RobWindow /\ RobRight(C, m) /\ ~IsFull(RobSize, rob)
  BY DEF HomeInv, IInv, InFlight, Issue
<1>2. PICK d : /\ rob.tail \in Tag /\ rob.data[rob.tail] = {}
               /\ rob' = Push(RobSize, rob, NewRobEntry(d))
  BY <1>1, IssueFacts
<1>3. PICK c, new : new = NewRobEntry(d) /\ c = Push(RobSize, rob, new)
  OBVIOUS
<1>4. /\ rob' = c /\ c = Push(RobSize, rob, new) /\ new.result = {}
      /\ rob \in RobBuffer /\ WindowInv(RobSize, rob)
  BY <1>1, <1>2, <1>3 DEF NewRobEntry, TypeOK, RobBuffer, RobWindow
<1>5. /\ c.data[rob.tail] = {new} /\ \A u \in Tag : u # rob.tail => c.data[u] = rob.data[u]
      /\ \A u \in Tag : Age(c, u) = Age(rob, u)
  BY <1>4, PushFacts
<1>6. ASSUME NEW k PROVE StoresIn(c, k) = StoresIn(rob, k)
  BY <1>2, <1>4, <1>5 DEF StoresIn
<1>7. ASSUME NEW k, NEW t \in StoresIn(rob, k)
      PROVE  /\ KeepsReads(rob, regs, c, regs, t) /\ Age(c, t) = Age(rob, t)
             /\ \A f \in c.data[t] : \E e \in rob.data[t] : f.pc = e.pc
  <2>1. t \in Tag /\ rob.data[t] # {} /\ t # rob.tail
    BY <1>2 DEF StoresIn
  <2>2. KeepsReads(rob, regs, c, regs, t)
    BY <1>1, <1>2, <1>4, <2>1, PushKeepsReads
  <2>3. QED BY <1>5, <2>1, <2>2
<1>8. ASSUME NEW k \in C, NEW v \in Word, Lands(aluMem, mem, k, v)
      PROVE  LastStored(c, regs, m, amem, k, v)
  <2>1. LastStored(rob, regs, m, amem, k, v)
    BY <1>8 DEF StoresLand
  <2>2. \A t \in Tag : EntryRight(C, rob, regs, m, t)
    BY <1>1 DEF RobRight
  <2>3. QED BY <1>6, <1>7, <2>1, <2>2, LastStoredKept
<1>9. UNCHANGED <<mem, regs, aluMem>>
  BY DEF Issue, backVars
<1>10. QED BY <1>4, <1>8, <1>9 DEF StoresLand

\* The broadcast of an instruction that is no store.
LEMMA LandAfterBroadcast ==
  ASSUME NEW C \in SUBSET Addr, NEW m \in [Addr \ C -> Word], HomeInv, InFlight(C, m),
         NEW x \in RsEntry, Pending(x.tag), Carries(rob, regs, m, x), ~IsStore(x.op),
         NEW w \in Word, Broadcast(x.tag, w), NEW k \in C, NEW v \in Word,
         LastStored(rob, regs, m, amem, k, v)
  PROVE  LastStored(rob', regs, m, amem, k, v)
<1>1. TypeOK /\ \A t \in Tag : EntryRight(C, rob, regs, m, t)
  BY DEF HomeInv, IInv, InFlight, RobRight
<1>2. PICK c, s : c = RobUpdated(x.tag, w) /\ s = x.tag
  OBVIOUS
<1>3. s \in Tag /\ rob' = c
  BY <1>2 DEF RsEntry, Broadcast
<1>4. TagResult(rob, s) = {} /\ rob.data[s] # {} /\ rob.data[s] \in Option(RobEntry)
  BY <1>1, <1>2, <1>3, PendingSlot
<1>5. Delivers(rob, c, s, w)
  BY <1>1, <1>2, <1>3, RobDelivers
<1>6. \A e \in rob.data[s] : e.format # "S"
  <2>1. PICK e \in rob.data[s] : \E i \in Decode[m[e.pc]] : x.op = i.op
    BY <1>2 DEF Carries
  <2>2. PICK i \in Decode[m[e.pc]] : x.op = i.op
    BY <2>1
  <2>3. e.pc \in Addr \ C
    BY <1>1, <1>3 DEF EntryRight
  <2>4. i.op \in Opcode /\ Decode[m[e.pc]] = {i}
    <3>1. DecodesOnce(C, m)
      BY Decodings
    <3>2. QED BY <2>2, <2>3, <3>1 DEF DecodesOnce
  <2>5. e.format = FormatOf(x.op) /\ x.op \in Opcode
    BY <1>1, <1>3, <2>2, <2>4 DEF EntryRight
  <2>6. e.format # "S"
    BY <2>5, FormatOfStore
  <2>7. rob.data[s] = {e}
    BY <1>4, OptionMember
  <2>8. QED BY <2>6, <2>7
<1>7. StoresIn(c, k) = StoresIn(rob, k) /\ s \notin StoresIn(rob, k)
  <2>1. \A f \in c.data[s] : f.format # "S"
    BY <1>5, <1>6 DEF Delivers, SameInstr
  <2>2. s \notin StoresIn(c, k) /\ s \notin StoresIn(rob, k)
    BY <1>6, <2>1 DEF StoresIn
  <2>3. \A t \in Tag : t # s => (t \in StoresIn(c, k) <=> t \in StoresIn(rob, k))
    BY <1>5 DEF StoresIn, Delivers
  <2>4. StoresIn(c, k) \subseteq Tag /\ StoresIn(rob, k) \subseteq Tag
    BY DEF StoresIn
  <2>5. QED BY <2>2, <2>3, <2>4
<1>8. ASSUME NEW t \in StoresIn(rob, k)
      PROVE  /\ KeepsReads(rob, regs, c, regs, t) /\ Age(c, t) = Age(rob, t)
             /\ \A f \in c.data[t] : \E e \in rob.data[t] : f.pc = e.pc
  <2>1. t \in Tag /\ t # s
    BY <1>7 DEF StoresIn
  <2>2. KeepsReads(rob, regs, c, regs, t)
    BY <1>3, <1>4, <1>5, <2>1, DeliveryKeepsReads
  <2>3. Age(c, t) = Age(rob, t) /\ c.data[t] = rob.data[t]
    BY <1>5, <2>1 DEF Delivers, Age, AgeRank
  <2>4. QED BY <2>2, <2>3
<1>9. LastStored(c, regs, m, amem, k, v)
  BY <1>1, <1>7, <1>8, LastStoredKept
<1>10. QED BY <1>3, <1>9

\* A store is executed: its data is what its cell will hold, and its address its result.
LEMMA LastStoredAfterStore ==
  ASSUME NEW C \in SUBSET Addr, NEW m \in [Addr \ C -> Word], HomeInv, InFlight(C, m),
         NEW x \in RsEntry, Pending(x.tag), Carries(rob, regs, m, x), IsStore(x.op),
         Waits(x) = {}, NEW a \in Word, Broadcast(x.tag, a), NEW k \in C, NEW v \in Word,
         k # a => LastStored(rob, regs, m, amem, k, v),
         k = a => v = x.rs2.val /\ \A t \in StoresIn(rob', a) : Age(rob', t) <= Age(rob', x.tag)
  PROVE  LastStored(rob', regs, m, amem, k, v)
<1>1. TypeOK /\ \A t \in Tag : EntryRight(C, rob, regs, m, t)
  BY DEF HomeInv, IInv, InFlight, RobRight
<1>2. PICK c, s : c = RobUpdated(x.tag, a) /\ s = x.tag
  OBVIOUS
<1>3. s \in Tag /\ rob' = c
  BY <1>2 DEF RsEntry, Broadcast
<1>4. /\ TagResult(rob, s) = {} /\ rob.data[s] # {} /\ rob.data[s] \in Option(RobEntry)
      /\ rob.head \in Tag
  BY <1>1, <1>2, <1>3, PendingSlot
<1>5. Delivers(rob, c, s, a)
  BY <1>1, <1>2, <1>3, RobDelivers
<1>6. PICK e \in rob.data[s] : \E i \in Decode[m[e.pc]] :
        x.op = i.op /\ ReadsReg(rob, regs, x.rs2, s, i.rs2)
  BY <1>2 DEF Carries
<1>7. PICK i \in Decode[m[e.pc]] : x.op = i.op /\ ReadsReg(rob, regs, x.rs2, s, i.rs2)
  BY <1>6
<1>8. e.pc \in Addr \ C /\ rob.data[s] = {e}
  BY <1>1, <1>3, <1>4, OptionMember DEF EntryRight
<1>9. i.op \in Opcode /\ i.rs2 \in Reg /\ Decode[m[e.pc]] = {i}
  <2>1. DecodesOnce(C, m)
    BY Decodings
  <2>2. QED BY <1>7, <1>8, <2>1 DEF DecodesOnce
<1>10. e.format = "S"
  <2>1. e.format = FormatOf(x.op)
    BY <1>1, <1>3, <1>7, <1>9 DEF EntryRight
  <2>2. QED BY <2>1 DEF FormatOf, IsStore, StoreOps
<1>11. \A f \in c.data[s] : f.pc = e.pc /\ f.format = "S" /\ f.result = {a}
  BY <1>5, <1>8, <1>10 DEF Delivers, SameInstr
<1>12. c.data[s] # {} /\ \A t \in Tag : t # s => c.data[t] = rob.data[t]
  BY <1>5, <1>8 DEF Delivers
<1>13. \A t \in Tag : Age(c, t) = Age(rob, t)
  BY <1>5 DEF Delivers, Age, AgeRank
<1>14. CASE k # a
  <2>1. s \notin StoresIn(c, k) /\ s \notin StoresIn(rob, k)
    <3>1. e.result = {}
      BY <1>4, <1>8 DEF TagResult
    <3>2. QED BY <1>8, <1>11, <1>14, <3>1 DEF StoresIn
  <2>2. StoresIn(c, k) = StoresIn(rob, k)
    <3>1. \A t \in Tag : t # s => (t \in StoresIn(c, k) <=> t \in StoresIn(rob, k))
      BY <1>12 DEF StoresIn
    <3>2. StoresIn(c, k) \subseteq Tag /\ StoresIn(rob, k) \subseteq Tag
      BY DEF StoresIn
    <3>3. QED BY <2>1, <3>1, <3>2
  <2>3. ASSUME NEW t \in StoresIn(rob, k)
        PROVE  /\ KeepsReads(rob, regs, c, regs, t) /\ Age(c, t) = Age(rob, t)
               /\ \A f \in c.data[t] : \E g \in rob.data[t] : f.pc = g.pc
    <3>1. t \in Tag /\ t # s
      BY <2>1 DEF StoresIn
    <3>2. KeepsReads(rob, regs, c, regs, t)
      BY <1>3, <1>4, <1>5, <3>1, DeliveryKeepsReads
    <3>3. QED BY <1>12, <1>13, <3>1, <3>2
  <2>4. LastStored(rob, regs, m, amem, k, v)
    BY <1>14
  <2>5. LastStored(c, regs, m, amem, k, v)
    BY <1>1, <2>2, <2>3, <2>4, LastStoredKept
  <2>6. QED BY <1>3, <2>5
<1>15. CASE k = a
  <2>1. s \in StoresIn(c, a) /\ v = x.rs2.val
    BY <1>3, <1>11, <1>12, <1>15 DEF StoresIn
  <2>2. Before(c, regs, v, s, i.rs2)
    <3>1. Before(rob, regs, v, s, i.rs2)
      BY <1>7, <2>1 DEF Waits, ReadsReg
    <3>2. KeepsReads(rob, regs, c, regs, s)
      BY <1>3, <1>4, <1>5, DeliveryKeepsReads
    <3>3. QED BY <1>9, <3>1, <3>2 DEF KeepsReads
  <2>3. ASSUME NEW t \in StoresIn(c, a), \A u \in StoresIn(c, a) : Age(c, u) <= Age(c, t)
        PROVE  t = s
    <3>1. t \in Tag /\ Age(c, s) <= Age(c, t) /\ Age(c, t) <= Age(c, s)
      BY <1>2, <1>3, <1>15, <2>1, <2>3 DEF StoresIn
    <3>2. Age(rob, s) \in Nat /\ Age(rob, t) \in Nat
      BY <1>3, <1>4, <3>1, AgeFacts
    <3>3. Age(rob, s) = Age(rob, t)
      BY <1>3, <1>13, <3>1, <3>2
    <3>4. QED BY <1>3, <1>4, <3>1, <3>3, AgeFacts
  <2>4. LastStored(c, regs, m, amem, a, v)
    <3>1. StoresIn(c, a) # {}
      BY <2>1
    <3>2. ASSUME NEW f \in c.data[s], NEW j \in Decode[m[f.pc]] PROVE Before(c, regs, v, s, j.rs2)
      BY <1>9, <1>11, <2>2, <3>2
    <3>3. QED BY <2>3, <3>1, <3>2 DEF LastStored
  <2>5. QED BY <1>3, <1>15, <2>4
<1>16. QED BY <1>14, <1>15

LEMMA LandAfterExecute ==
  ASSUME NEW C \in SUBSET Addr, NEW m \in [Addr \ C -> Word], HomeInv, InFlight(C, m),
         StoresInOrder', Execute, amem' = amem, StoresLand(C, m)
  PROVE  StoresLand(C, m)'
<1>1. TypeOK /\ AluRight(m) /\ aluMem.staged = {}
  BY DEF HomeInv, IInv, InFlight, BackendOrder, Execute
<1>2. PICK j \in DOMAIN alu.inProgress :
        LET res == AluResult(alu.inProgress[j].instr)
        IN /\ IF IsLoad(res.instr.op) THEN UNCHANGED <<rs, rob>>
                ELSE Broadcast(res.tag, res.result)
           /\ aluMem' = Staged(aluMem, res)
  BY DEF Execute
<1>3. PICK x, res : x = alu.inProgress[j].instr /\ res = AluResult(x)
  OBVIOUS
<1>4. PICK a : a = res.result
  OBVIOUS
<1>5. res.tag = x.tag /\ res.instr = x
  BY <1>3 DEF AluResult
<1>6. /\ IF IsLoad(x.op) THEN UNCHANGED <<rs, rob>> ELSE Broadcast(x.tag, a)
      /\ aluMem'.staged = {res} /\ aluMem'.active = aluMem.active
  BY <1>2, <1>3, <1>4, <1>5 DEF Staged
<1>7. x \in RsEntry /\ x.tag \in Tag /\ Pending(x.tag) /\ Waits(x) = {}
  BY <1>3, AluInFlight
<1>8. Carries(rob, regs, m, x)
  BY <1>1, <1>3 DEF AluRight
<1>9. a \in Word
  <2>1. AluResult(x) \in Result
    BY <1>7, AluResultType
  <2>2. QED BY <1>3, <1>4, <2>1 DEF Result
<1>10. UNCHANGED <<mem, regs>>
  BY DEF Execute, archVars
<1>11. ASSUME NEW k \in C, NEW v \in Word, Lands(aluMem', mem, k, v)
       PROVE  LastStored(rob', regs, m, amem, k, v)
  <2>1. CASE IsStore(x.op)
    <3>1. StoresTo(res, k) <=> k = a
      BY <1>4, <1>5, <2>1 DEF StoresTo
    <3>2. k = a => v = x.rs2.val
      BY <1>5, <1>6, <1>11, <3>1 DEF Lands
    <3>3. k # a => LastStored(rob, regs, m, amem, k, v)
      <4>1. k # a => Lands(aluMem, mem, k, v)
        BY <1>1, <1>6, <1>11, <3>1 DEF Lands
      <4>2. QED BY <4>1 DEF StoresLand
    <3>4. \A t \in StoresIn(rob', a) : Age(rob', t) <= Age(rob', x.tag)
      <4>1. res \in aluMem'.staged /\ IsStore(res.instr.op)
        BY <1>5, <1>6, <2>1
      <4>2. \A t \in StoresIn(rob', res.result) :
              AgeRank(RobSize, rob', t) <= AgeRank(RobSize, rob', res.tag)
        BY <4>1 DEF StoresInOrder, Rank, StoresIn, Tag
      <4>3. QED BY <1>4, <1>5, <4>2 DEF Age
    <3>5. Broadcast(x.tag, a)
      BY <1>6, <2>1 DEF IsLoad, IsStore, LoadOps, StoreOps
    <3>6. QED BY <1>7, <1>8, <1>9, <2>1, <3>2, <3>3, <3>4, <3>5, LastStoredAfterStore
  <2>2. CASE ~IsStore(x.op)
    <3>1. Lands(aluMem, mem, k, v)
      BY <1>1, <1>5, <1>6, <1>11, <2>2 DEF Lands, StoresTo
    <3>2. LastStored(rob, regs, m, amem, k, v)
      BY <3>1 DEF StoresLand
    <3>3. CASE IsLoad(x.op)
      BY <1>6, <3>2, <3>3
    <3>4. CASE ~IsLoad(x.op)
      BY <1>6, <1>7, <1>8, <1>9, <2>2, <3>2, <3>4, LandAfterBroadcast
    <3>5. QED BY <3>3, <3>4
  <2>3. QED BY <2>1, <2>2
<1>12. QED BY <1>10, <1>11 DEF StoresLand

\* MEM performs the older of the two stores the latch can hold.
LEMMA LandAfterMem ==
  ASSUME NEW C \in SUBSET Addr, NEW m, HomeInv, MemStage, amem' = amem, StoresLand(C, m)
  PROVE  StoresLand(C, m)'
<1>1. TypeOK
  BY DEF HomeInv, IInv
<1>2. PICK r \in aluMem.active : mem' = MemAfter(r)
  BY DEF MemStage
<1>3. aluMem.active = {r}
  BY <1>1, <1>2, OptionMember DEF TypeOK, LatchOf
<1>4. aluMem'.staged = aluMem.staged /\ aluMem'.active = {} /\ UNCHANGED <<regs, rob>>
  BY DEF MemStage, Taken, execVars
<1>5. ASSUME NEW k \in C PROVE mem'[k] = IF StoresTo(r, k) THEN r.instr.rs2.val ELSE mem[k]
  <2>1. mem \in [Addr -> Word] /\ k \in Addr
    BY <1>1 DEF TypeOK
  <2>2. mem' = IF IsStore(r.instr.op) THEN [mem EXCEPT ![r.result] = r.instr.rs2.val] ELSE mem
    BY <1>2 DEF MemAfter
  <2>3. QED BY <2>1, <2>2 DEF StoresTo
<1>6. ASSUME NEW k \in C, NEW v \in Word, Lands(aluMem', mem', k, v)
      PROVE  LastStored(rob, regs, m, amem, k, v)
  <2>1. Lands(aluMem, mem, k, v)
    BY <1>3, <1>4, <1>5, <1>6 DEF Lands
  <2>2. QED BY <2>1 DEF StoresLand
<1>7. QED BY <1>4, <1>6 DEF StoresLand

LEMMA LandAfterWriteBack ==
  ASSUME NEW C \in SUBSET Addr, NEW m \in [Addr \ C -> Word], HomeInv, InFlight(C, m),
         WriteBackLoad, amem' = amem, StoresLand(C, m)
  PROVE  StoresLand(C, m)'
<1>1. PICK r \in memRob.active : IsLoad(r.instr.op) /\ Broadcast(r.tag, r.result)
  BY DEF WriteBackLoad
<1>2. r \in Result /\ r.instr \in RsEntry /\ Pending(r.tag)
  BY <1>1, LoadInFlight
<1>3. Loaded(C, rob, regs, m, r)
  BY <1>1 DEF InFlight, LoadsRight
<1>4. PICK x, w : x = r.instr /\ w = r.result
  OBVIOUS
<1>5. /\ x \in RsEntry /\ x.tag = r.tag /\ Carries(rob, regs, m, x) /\ w \in Word /\ ~IsStore(x.op)
  BY <1>1, <1>2, <1>3, <1>4 DEF Loaded, Result, IsLoad, IsStore, LoadOps, StoreOps
<1>6. Pending(x.tag) /\ Broadcast(x.tag, w)
  BY <1>1, <1>2, <1>4, <1>5
<1>7. UNCHANGED <<mem, regs, aluMem>>
  BY DEF WriteBackLoad, archVars
<1>8. ASSUME NEW k \in C, NEW v \in Word, Lands(aluMem, mem, k, v)
      PROVE  LastStored(rob', regs, m, amem, k, v)
  <2>1. LastStored(rob, regs, m, amem, k, v)
    BY <1>8 DEF StoresLand
  <2>2. QED BY <1>5, <1>6, <2>1, LandAfterBroadcast
<1>9. QED BY <1>7, <1>8 DEF StoresLand

LEMMA LandAfterAdvance ==
  ASSUME NEW C, NEW m, HomeInv, AdvanceLatches, amem' = amem, StoresLand(C, m)
  PROVE  StoresLand(C, m)'
<1>1. aluMem.active = {}
  BY DEF HomeInv, BackendOrder, AdvanceLatches
<1>2. /\ aluMem'.staged = {} /\ aluMem'.active = aluMem.staged
      /\ UNCHANGED <<mem, regs, rob>>
  BY DEF AdvanceLatches, Advanced, archVars, execVars
<1>3. ASSUME NEW k, NEW v, Lands(aluMem', mem, k, v) PROVE Lands(aluMem, mem, k, v)
  BY <1>1, <1>2, <1>3 DEF Lands
<1>4. QED BY <1>2, <1>3 DEF StoresLand

\* Nothing else touches memory, registers, reorder buffer or the latch behind the ALU.
LEMMA LandStep ==
  ASSUME NEW C \in SUBSET Addr, NEW m \in [Addr \ C -> Word], HomeInv, InFlight(C, m),
         Separated(C), StoresInOrder', [Next]_vars, ~Commit, amem' = amem, StoresLand(C, m)
  PROVE  StoresLand(C, m)'
<1>1. TypeOK
  BY DEF HomeInv, IInv
<1>2. CASE UNCHANGED <<mem, regs, rob, aluMem>>
  BY <1>2 DEF StoresLand
<1>3. CASE MovesOn \/ UNCHANGED vars
  BY <1>1, <1>2, <1>3, MovesOnFacts DEF archVars, execVars, backVars
<1>4. CASE Fetch \/ DecodeInstr \/ DecodeZero \/ DispatchSkip \/ DispatchBlocked \/ Dispatch
           \/ DispatchNone \/ ExecuteNone \/ WriteBackOther
  BY <1>2, <1>4 DEF Fetch, DecodeInstr, DecodeZero, DispatchSkip, DispatchBlocked, Dispatch,
     DispatchNone, ExecuteNone, WriteBackOther, archVars, execVars, backVars
<1>5. QED
  BY <1>3, <1>4, LandAfterIssue, LandAfterExecute, LandAfterMem, LandAfterWriteBack,
     LandAfterAdvance DEF Next, MovesOn

\* The stores have landed in memory as it is.
LandHolds(C) == \E m \in {Rom(C, amem)} : StoresLand(C, m)

LEMMA StepLands ==
  ASSUME NEW C \in SUBSET Addr, HomeInv, DataInv(C), LandHolds(C), Separated(C), Separated(C)',
         StoresInOrder', [RefNext]_refVars
  PROVE  HomeInv' /\ DataInv(C)' /\ LandHolds(C)'
<1>1. PICK m : m = Rom(C, amem) /\ StoresLand(C, m)
  BY DEF LandHolds
<1>2. /\ HomeInv' /\ DataInv(C)' /\ Rom(C, amem') = m /\ follows' = follows
      /\ InFlight(C, m) /\ InFlight(C, m)'
      /\ \/ [Next]_vars /\ ~Commit /\ UNCHANGED <<amem, regs, apc>>
         \/ Commit /\ \E e, i, v : CommitsAs(C, m, e, i, v) /\ Sequential!ExecuteAt(e.pc)
  BY <1>1, StepOnData
<1>3. amem \in [Addr -> Word] /\ m \in [Addr \ C -> Word]
  BY <1>1 DEF DataInv, Rom
<1>4. ASSUME [Next]_vars, ~Commit, amem' = amem PROVE StoresLand(C, m)'
  BY <1>1, <1>2, <1>3, <1>4, LandStep
<1>5. ASSUME Commit, NEW e, NEW i, NEW v, CommitsAs(C, m, e, i, v)
      PROVE  StoresLand(C, m)'
  BY <1>1, <1>2, <1>3, <1>5, LandAfterCommit
<1>6. StoresLand(C, m)'
  <2>1. CASE Commit /\ \E e, i, v : CommitsAs(C, m, e, i, v)
    BY <1>5, <2>1
  <2>2. CASE [Next]_vars /\ ~Commit /\ amem' = amem
    BY <1>4, <2>2
  <2>3. QED BY <1>2, <2>1, <2>2, Zenon
<1>7. QED BY <1>2, <1>6 DEF LandHolds

LEMMA InitLands ==
  ASSUME NEW C, RefInit
  PROVE  LandHolds(C)
<1>1. /\ aluMem.staged = {} /\ aluMem.active = {} /\ amem = mem
      /\ \A t \in Tag : rob.data[t] = {}
  BY DEF RefInit, Init, EmptyLatch, EmptyBuffer, Tag
<1>2. ASSUME NEW m, NEW k, NEW v, Lands(aluMem, mem, k, v)
      PROVE  LastStored(rob, regs, m, amem, k, v)
  <2>1. StoresIn(rob, k) = {}
    BY <1>1 DEF StoresIn
  <2>2. v = amem[k]
    BY <1>1, <1>2 DEF Lands
  <2>3. QED BY <2>1, <2>2 DEF LastStored
<1>3. QED BY <1>2 DEF LandHolds, StoresLand

\* Where no store is on its way, what lands is what was committed.
LEMMA LandedIsDrained ==
  ASSUME NEW C \in SUBSET Addr, HomeInv, DataInv(C), LandHolds(C)
  PROVE  StoresDrained
<1>1. SUFFICES ASSUME \A t \in Tag : \A e \in rob.data[t] : e.format # "S",
                      \A x \in aluMem.staged \cup aluMem.active : ~IsStore(x.instr.op)
               PROVE  mem = amem
  BY DEF StoresDrained
<1>2. mem \in [Addr -> Word] /\ amem \in [Addr -> Word] /\ Rom(C, mem) = Rom(C, amem)
  BY DEF HomeInv, IInv, TypeOK, DataInv, InFlight
<1>3. ASSUME NEW k \in C PROVE mem[k] = amem[k]
  <2>1. mem[k] \in Word
    BY <1>2
  <2>2. Lands(aluMem, mem, k, mem[k])
    BY <1>1 DEF Lands, StoresTo
  <2>3. StoresIn(rob, k) = {}
    BY <1>1 DEF StoresIn
  <2>4. PICK m : LastStored(rob, regs, m, amem, k, mem[k])
    BY <2>1, <2>2 DEF LandHolds, StoresLand
  <2>5. QED BY <2>3, <2>4 DEF LastStored
<1>4. ASSUME NEW k \in Addr \ C PROVE mem[k] = amem[k]
  BY <1>2, <1>4 DEF Rom
<1>5. QED BY <1>2, <1>3, <1>4

\* A store is performed when the latch behind the ALU reaches MEM, and committed when it
\* is the oldest, without one knowing of the other.  As long as two stores to one cell are
\* executed in the order of the program, each is performed once and in that order: when none
\* is on its way, memory is what the committed stores make of it.
THEOREM CommittedStoresLand ==
  ASSUME NEW CONSTANT C \in SUBSET Addr
  PROVE  RefSpec /\ [](Separated(C) /\ StoresInOrder) => []StoresDrained
<1>1. RefInit => HomeInv /\ DataInv(C) /\ LandHolds(C)
  BY InitIsSequential, InitLands
<1>2. HomeInv /\ DataInv(C) /\ LandHolds(C) /\ Separated(C) /\ Separated(C)' /\ StoresInOrder'
      /\ [RefNext]_refVars => HomeInv' /\ DataInv(C)' /\ LandHolds(C)'
  BY StepLands
<1>3. HomeInv /\ DataInv(C) /\ LandHolds(C) => StoresDrained
  BY LandedIsDrained
<1>4. QED BY <1>1, <1>2, <1>3, PTL DEF RefSpec
=============================================================================
