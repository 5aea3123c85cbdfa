------------------------------ MODULE AluProofs ------------------------------
(***************************************************************************)
(* The sequences the core is built from, and what the operations of the    *)
(* ALU guarantee, for every configuration of its pipes.                    *)
(***************************************************************************)
EXTENDS Alu, SequenceTheorems, FiniteSetTheorems, WellFoundedInduction, TLAPS

\* remove(i) on a vector.
LEMMA RemoveAtFacts ==
  ASSUME NEW S, NEW s \in Seq(S), NEW i \in 1 .. Len(s)
  PROVE  /\ RemoveAt(s, i) \in Seq(S)
         /\ Len(RemoveAt(s, i)) = Len(s) - 1
         /\ \A j \in 1 .. Len(s) - 1 : RemoveAt(s, i)[j] = s[IF j < i THEN j ELSE j + 1]
<1> DEFINE before == SubSeq(s, 1, i - 1)
           after  == SubSeq(s, i + 1, Len(s))
<1>1. Len(s) \in Nat
  OBVIOUS
<1>2. /\ before \in Seq(S) /\ Len(before) = i - 1
      /\ \A j \in 1 .. i - 1 : before[j] = s[j]
  BY <1>1, SubSeqProperties
<1>3. /\ after \in Seq(S) /\ Len(after) = Len(s) - i
      /\ \A j \in 1 .. Len(s) - i : after[j] = s[i + j]
  BY <1>1, SubSeqProperties
<1>4. RemoveAt(s, i) = before \o after
  BY DEF RemoveAt
<1>. HIDE DEF before, after
<1>5. /\ before \o after \in Seq(S) /\ Len(before \o after) = Len(before) + Len(after)
      /\ \A j \in 1 .. Len(before) + Len(after) :
           (before \o after)[j] = IF j <= Len(before) THEN before[j] ELSE after[j - Len(before)]
  BY <1>2, <1>3, ConcatProperties
<1>6. Len(before \o after) = Len(s) - 1
  BY <1>1, <1>2, <1>3, <1>5
<1>7. ASSUME NEW j \in 1 .. Len(s) - 1
      PROVE  (before \o after)[j] = s[IF j < i THEN j ELSE j + 1]
  <2>1. CASE j < i
    <3>1. (before \o after)[j] = before[j] /\ j \in 1 .. i - 1
      BY <1>1, <1>2, <1>3, <1>5, <2>1
    <3>2. QED BY <1>2, <2>1, <3>1
  <2>2. CASE j >= i
    <3>1. (before \o after)[j] = after[j - (i - 1)] /\ j - (i - 1) \in 1 .. Len(s) - i
      BY <1>1, <1>2, <1>3, <1>5, <2>2
    <3>2. after[j - (i - 1)] = s[i + (j - (i - 1))] /\ i + (j - (i - 1)) = j + 1
      BY <1>1, <1>3, <3>1
    <3>3. QED BY <2>2, <3>1, <3>2
  <2>3. j \in Int /\ i \in Int
    BY <1>1
  <2>4. j < i \/ j >= i
    BY <2>3
  <2>5. QED BY <2>1, <2>2, <2>4
<1>8. QED BY <1>4, <1>5, <1>6, <1>7

\* remove(i) followed by insert(0, entry), as dispatch() does with a blocked entry.
LEMMA MovedToFrontFacts ==
  ASSUME NEW S, NEW s \in Seq(S), NEW i \in 1 .. Len(s)
  PROVE  /\ Cons(s[i], RemoveAt(s, i)) \in Seq(S) /\ Len(Cons(s[i], RemoveAt(s, i))) = Len(s)
         /\ \A j \in 1 .. Len(s) :
              Cons(s[i], RemoveAt(s, i))[j]
                = IF j = 1 THEN s[i] ELSE IF j <= i THEN s[j - 1] ELSE s[j]
<1> DEFINE r == RemoveAt(s, i)
           x == s[i]
<1>1. /\ r \in Seq(S) /\ Len(r) = Len(s) - 1 /\ Len(s) \in Nat /\ x \in S
      /\ \A j \in 1 .. Len(s) - 1 : r[j] = s[IF j < i THEN j ELSE j + 1]
  <2>1. Len(s) \in Nat /\ x \in S
    OBVIOUS
  <2>2. QED BY <2>1, RemoveAtFacts, Zenon
<1>. HIDE DEF r, x
<1>2. /\ <<x>> \o r \in Seq(S) /\ Len(<<x>> \o r) = 1 + Len(r)
      /\ \A j \in 1 .. 1 + Len(r) : (<<x>> \o r)[j] = IF j <= 1 THEN x ELSE r[j - 1]
  BY <1>1, ConcatProperties
<1>3. ASSUME NEW j \in 1 .. Len(s)
      PROVE  (<<x>> \o r)[j] = IF j = 1 THEN x ELSE IF j <= i THEN s[j - 1] ELSE s[j]
  <2>1. CASE j = 1
    BY <1>1, <1>2, <2>1
  <2>2. CASE j > 1
    <3>1. (<<x>> \o r)[j] = r[j - 1] /\ j - 1 \in 1 .. Len(s) - 1
      BY <1>1, <1>2, <2>2
    <3>2. r[j - 1] = s[IF j - 1 < i THEN j - 1 ELSE (j - 1) + 1]
      BY <1>1, <3>1
    <3>3. QED BY <1>1, <2>2, <3>1, <3>2
  <2>3. QED BY <1>1, <2>1, <2>2
<1>4. QED BY <1>1, <1>2, <1>3 DEF r, x, Cons

\* A vector whose elements are all replaced.
LEMMA MappedSequence ==
  ASSUME NEW S, NEW T, NEW s \in Seq(S), NEW f, f = [j \in DOMAIN s |-> f[j]],
         \A j \in DOMAIN s : f[j] \in T
  PROVE  f \in Seq(T) /\ Len(f) = Len(s) /\ DOMAIN f = 1 .. Len(s)
OBVIOUS

-----------------------------------------------------------------------------
(* Options and words *)

LEMMA OptionMember ==
  ASSUME NEW S, NEW o \in Option(S), NEW x \in o
  PROVE  x \in S /\ o = {x}
BY DEF Option

LEMMA WrapInWord == ASSUME NEW x \in Int PROVE Wrap(x) \in Word
<1>1. WordMod \in Nat \ {0}
  BY IsaAssumption
<1>2. x % WordMod \in 0 .. WordMod - 1
  BY <1>1
<1>3. QED BY <1>2 DEF Wrap, Word

LEMMA BitInWord == 0 \in Word /\ 1 \in Word
BY IsaAssumption DEF Word

\* The ALU computes words.
LEMMA ComputeInWord ==
  ASSUME NEW op \in Opcode, NEW p \in Word, NEW a \in Word, NEW b \in Word, NEW imm \in Word
  PROVE  Compute(op, p, a, b, imm) \in Word
<1>1. /\ a + b \in Int /\ a - b \in Int /\ a + imm \in Int /\ p + imm \in Int /\ p + 1 \in Int
  BY DEF Word
<1>3. CASE op \in {"Add", "Sub", "Addi", "Lw", "Sw", "Auipc", "Jal", "Jalr", "Lui"}
  <2>1. CASE op = "Add"
    BY <1>1, <2>1, WrapInWord DEF Compute
  <2>2. CASE op = "Sub"
    BY <1>1, <2>2, WrapInWord DEF Compute
  <2>3. CASE op \in {"Addi", "Lw", "Sw"}
    BY <1>1, <2>3, WrapInWord DEF Compute
  <2>4. CASE op = "Auipc"
    BY <1>1, <2>4, WrapInWord DEF Compute
  <2>5. CASE op \in {"Jal", "Jalr"}
    <3>1. Compute(op, p, a, b, imm) = Wrap(p + 1)
      BY <2>5 DEF Compute
    <3>2. QED BY <1>1, <3>1, WrapInWord
  <2>6. CASE op = "Lui"
    BY <2>6 DEF Compute
  <2>7. QED BY <1>3, <2>1, <2>2, <2>3, <2>4, <2>5, <2>6
<1>4. CASE op \in {"Slt", "Sltu", "Slti", "Sltiu"}
  <2>1. CASE op = "Slt"
    BY <2>1, BitInWord DEF Compute, Bit
  <2>2. CASE op = "Sltu"
    BY <2>2, BitInWord DEF Compute, Bit
  <2>3. CASE op = "Slti"
    BY <2>3, BitInWord DEF Compute, Bit
  <2>4. CASE op = "Sltiu"
    BY <2>4, BitInWord DEF Compute, Bit
  <2>5. QED BY <1>4, <2>1, <2>2, <2>3, <2>4
<1>5. CASE op \in {"Beq", "Bne", "Blt", "Bge", "Bltu", "Bgeu"}
  <2>1. FormatOf(op) = "B"
    BY <1>5 DEF FormatOf
  <2>2. Compute(op, p, a, b, imm)
          = IF Holds(op, a, b) THEN Wrap(p + imm) ELSE Wrap(p + 1)
    BY <1>5, <2>1 DEF Compute
  <2>3. QED BY <1>1, <2>2, WrapInWord
<1>6. QED BY <1>3, <1>4, <1>5 DEF Opcode, IntOps, LoadOps, StoreOps, BranchOps

LEMMA FormatOfType == ASSUME NEW op \in Opcode PROVE FormatOf(op) \in Format
BY DEF Opcode, IntOps, LoadOps, StoreOps, BranchOps, FormatOf, Format

-----------------------------------------------------------------------------
(* The ALU *)

\* The position() of try_enqueue() finds a pipe when there is one, and the first.
\* The smallest index is the one whose initial interval has no smaller one inside.
LEMMA FirstPipeExists ==
  ASSUME NEW a, NEW op, FreePipes(a, op) # {}
  PROVE  FirstPipe(a, op) \in FreePipes(a, op)
<1> DEFINE F  == FreePipes(a, op)
           U  == 1 .. Len(Pipes)
           up == {1 .. p : p \in F}
<1>1. Len(Pipes) \in Nat /\ F \subseteq U
  BY AluAssumption DEF FreePipes, PipeIndex
<1>2. up \subseteq FiniteSubsetsOf(U) /\ up # {}
  <2>1. IsFiniteSet(U)
    BY <1>1, FS_Interval
  <2>2. ASSUME NEW p \in F PROVE 1 .. p \in SUBSET U
    BY <1>1
  <2>3. FiniteSubsetsOf(U) = SUBSET U
    BY <2>1, FS_FiniteSubsetsOfFinite
  <2>4. up # {}
    OBVIOUS
  <2>5. up \subseteq SUBSET U
    BY <2>2
  <2>. HIDE DEF U, up
  <2>6. QED BY <2>3, <2>4, <2>5
<1>3. IsWellFoundedOn(StrictSubsetOrdering(U), FiniteSubsetsOf(U))
  BY FS_StrictSubsetOrderingWellFounded
<1>4. PICK x \in up : \A y \in up : <<y, x>> \notin StrictSubsetOrdering(U)
  <2>. HIDE DEF up, U
  <2>1. QED BY <1>2, <1>3, WFMin
<1>5. PICK p \in F : x = 1 .. p
  OBVIOUS
<1>6. ASSUME NEW q \in F PROVE p <= q
  <2>1. p \in Nat /\ q \in Nat /\ 1 .. p \in SUBSET U /\ 1 .. q \in SUBSET U
    BY <1>1
  <2>2. <<1 .. q, 1 .. p>> \notin StrictSubsetOrdering(U)
    BY <1>4, <1>5
  <2>3. ~(1 .. q \subseteq 1 .. p /\ 1 .. q # 1 .. p)
    BY <2>1, <2>2 DEF StrictSubsetOrdering
  <2>4. CASE q < p
    <3>1. 1 .. q \subseteq 1 .. p
      BY <2>1, <2>4
    <3>2. p \in 1 .. p /\ p \notin 1 .. q
      BY <1>1, <2>1, <2>4
    <3>3. QED BY <2>3, <3>1, <3>2
  <2>5. QED BY <2>1, <2>4
<1>7. QED BY <1>6 DEF FirstPipe

\* A new ALU.
LEMMA IdleAluSound == ASSUME NEW I PROVE IdleAlu \in AluOf(I)
BY EmptySeq DEF IdleAlu, AluOf

\* try_enqueue() appends the instruction, with age 0, in a pipe that was free.
LEMMA EnqueuedFacts ==
  ASSUME NEW I, NEW a \in AluOf(I), NEW instr \in I, FreePipes(a, instr.op) # {}
  PROVE  /\ Enqueued(a, instr) \in AluOf(I)
         /\ Len(Enqueued(a, instr).inProgress) = Len(a.inProgress) + 1
         /\ \A j \in 1 .. Len(a.inProgress) : Enqueued(a, instr).inProgress[j] = a.inProgress[j]
         /\ Enqueued(a, instr).inProgress[Len(a.inProgress) + 1].instr = instr
         /\ Enqueued(a, instr).inProgress[Len(a.inProgress) + 1].age = 0
<1> DEFINE p == FirstPipe(a, instr.op)
           o == [instr |-> instr, age |-> 0, pipe |-> p]
<1>1. p \in PipeIndex /\ ~a.usage[p]
  BY FirstPipeExists DEF FreePipes
<1>2. o \in Operation(I)
  BY <1>1 DEF Operation
<1>3. a.inProgress \in Seq(Operation(I)) /\ a.usage \in [PipeIndex -> BOOLEAN]
  BY DEF AluOf
<1>4. Enqueued(a, instr) = [inProgress |-> Append(a.inProgress, o),
                            usage |-> [a.usage EXCEPT ![p] = TRUE]]
  BY DEF Enqueued
<1>. HIDE DEF p
<1>. DEFINE q == Append(a.inProgress, o)
            u == [a.usage EXCEPT ![p] = TRUE]
<1>5. /\ q \in Seq(Operation(I)) /\ Len(q) = Len(a.inProgress) + 1
      /\ q[Len(a.inProgress) + 1] = o
      /\ \A j \in 1 .. Len(a.inProgress) : q[j] = a.inProgress[j]
  <2>. HIDE DEF o
  <2>1. QED BY <1>2, <1>3, AppendProperties
<1>6. u \in [PipeIndex -> BOOLEAN]
  BY <1>3
<1>7. o.pipe = p /\ o.instr = instr /\ o.age = 0
  OBVIOUS
<1>8. [inProgress |-> q, usage |-> u] \in AluOf(I)
  BY <1>5, <1>6 DEF AluOf
<1>9. Enqueued(a, instr).inProgress = q /\ Enqueued(a, instr).usage = u
  BY <1>4
<1>. HIDE DEF o, q
<1>10. QED BY <1>1, <1>4, <1>5, <1>7, <1>8, <1>9

\* tick() ages what is in the ALU, and keeps the order.
LEMMA AgedFacts ==
  ASSUME NEW I, NEW a \in AluOf(I)
  PROVE  /\ AgedAll(a) \in Seq(Operation(I))
         /\ Len(AgedAll(a)) = Len(a.inProgress)
         /\ \A j \in 1 .. Len(a.inProgress) : AgedAll(a)[j] = Aged(a.inProgress[j])
<1> DEFINE f == AgedAll(a)
<1>1. a.inProgress \in Seq(Operation(I)) /\ DOMAIN a.inProgress = 1 .. Len(a.inProgress)
  BY DEF AluOf
<1>2. f = [j \in DOMAIN a.inProgress |-> f[j]]
      /\ \A j \in DOMAIN a.inProgress : f[j] = Aged(a.inProgress[j])
  BY DEF AgedAll
<1>3. \A o \in Operation(I) : Aged(o) \in Operation(I)
  BY DEF Aged, Operation
<1>4. \A j \in DOMAIN a.inProgress : f[j] \in Operation(I)
  <2>1. \A j \in DOMAIN a.inProgress : a.inProgress[j] \in Operation(I)
    BY <1>1
  <2>2. QED BY <1>2, <1>3, <2>1, Zenon
<1>. HIDE DEF f
<1>5. f \in Seq(Operation(I)) /\ Len(f) = Len(a.inProgress)
  BY <1>1, <1>2, <1>4, MappedSequence, ZenonT(30)
<1>6. QED BY <1>1, <1>2, <1>5 DEF f

LEMMA TickIdleFacts ==
  ASSUME NEW I, NEW a \in AluOf(I)
  PROVE  /\ TickIdle(a) \in AluOf(I) /\ TickIdle(a).usage = a.usage
         /\ Len(TickIdle(a).inProgress) = Len(a.inProgress)
         /\ \A j \in 1 .. Len(a.inProgress) : TickIdle(a).inProgress[j] = Aged(a.inProgress[j])
BY AgedFacts DEF TickIdle, AluOf

\* The finished operation, and no other, leaves the ALU.
LEMMA TickFinishFacts ==
  ASSUME NEW I, NEW a \in AluOf(I), NEW i \in 1 .. Len(a.inProgress)
  PROVE  /\ TickFinish(a, i) \in AluOf(I)
         /\ Len(TickFinish(a, i).inProgress) = Len(a.inProgress) - 1
         /\ \A j \in 1 .. Len(a.inProgress) - 1 :
              TickFinish(a, i).inProgress[j] = Aged(a.inProgress[IF j < i THEN j ELSE j + 1])
<1>1. AgedAll(a) \in Seq(Operation(I)) /\ Len(AgedAll(a)) = Len(a.inProgress)
  BY AgedFacts
<1>2. /\ RemoveAt(AgedAll(a), i) \in Seq(Operation(I))
      /\ Len(RemoveAt(AgedAll(a), i)) = Len(a.inProgress) - 1
      /\ \A j \in 1 .. Len(a.inProgress) - 1 :
           RemoveAt(AgedAll(a), i)[j] = AgedAll(a)[IF j < i THEN j ELSE j + 1]
  BY <1>1, RemoveAtFacts
<1>3. \A j \in 1 .. Len(a.inProgress) - 1 :
        (IF j < i THEN j ELSE j + 1) \in 1 .. Len(a.inProgress)
  BY DEF AluOf
<1>4. \A j \in 1 .. Len(a.inProgress) - 1 :
        RemoveAt(AgedAll(a), i)[j] = Aged(a.inProgress[IF j < i THEN j ELSE j + 1])
  BY <1>2, <1>3, AgedFacts
<1>5. TickFinish(a, i) = [inProgress |-> RemoveAt(AgedAll(a), i),
                          usage |-> [a.usage EXCEPT ![a.inProgress[i].pipe] = FALSE]]
  BY DEF TickFinish
<1>6. [a.usage EXCEPT ![a.inProgress[i].pipe] = FALSE] \in [PipeIndex -> BOOLEAN]
  BY DEF AluOf
<1>. DEFINE q == RemoveAt(AgedAll(a), i)
            u == [a.usage EXCEPT ![a.inProgress[i].pipe] = FALSE]
<1>. HIDE DEF q, u
<1>7. TickFinish(a, i) = [inProgress |-> q, usage |-> u]
  BY <1>5 DEF q, u
<1>8. q \in Seq(Operation(I)) /\ u \in [PipeIndex -> BOOLEAN]
  BY <1>2, <1>6 DEF q, u
<1>9. TickFinish(a, i) \in AluOf(I) /\ TickFinish(a, i).inProgress = q
      /\ TickFinish(a, i).usage = u
  BY <1>7, <1>8 DEF AluOf
<1>10. Len(q) = Len(a.inProgress) - 1
       /\ \A j \in 1 .. Len(a.inProgress) - 1 : q[j] = Aged(a.inProgress[IF j < i THEN j ELSE j + 1])
  BY <1>2, <1>4 DEF q
<1>11. QED BY <1>9, <1>10 DEF u

-----------------------------------------------------------------------------
(* The ALU never falls behind *)

\* Every pipe in use has one occupant, operations are in order of age, and none is
\* past the age at which it can be returned.
AluSound(a) ==
  /\ \A p \in PipeIndex :
       LET occupants == {i \in DOMAIN a.inProgress : a.inProgress[i].pipe = p}
       IN IF a.usage[p] THEN \E i \in occupants : occupants = {i} ELSE occupants = {}
  /\ \A i, j \in DOMAIN a.inProgress : i < j => a.inProgress[j].age < a.inProgress[i].age
  /\ \A i \in DOMAIN a.inProgress : a.inProgress[i].age < Latency

\* What is in the ALU has seen a tick.
AllTicked(a) == \A i \in DOMAIN a.inProgress : 0 < a.inProgress[i].age

\* The three parts of AluSound on a sequence ops of n operations.
OneOccupant(ops, n, usage) ==
  \A p \in PipeIndex :
    /\ usage[p]  => \E i \in 1 .. n : \A j \in 1 .. n : ops[j].pipe = p <=> j = i
    /\ ~usage[p] => \A j \in 1 .. n : ops[j].pipe # p
ByAge(ops, n)  == \A i, j \in 1 .. n : i < j => ops[j].age < ops[i].age
InTime(ops, n) == \A i \in 1 .. n : ops[i].age < 2

LEMMA AluSoundParts ==
  ASSUME NEW a, NEW n, DOMAIN a.inProgress = 1 .. n
  PROVE  AluSound(a) <=> /\ OneOccupant(a.inProgress, n, a.usage)
                         /\ ByAge(a.inProgress, n)
                         /\ InTime(a.inProgress, n)
<1> DEFINE occ(p) == {i \in DOMAIN a.inProgress : a.inProgress[i].pipe = p}
<1>1. ASSUME NEW p
      PROVE  (IF a.usage[p] THEN \E i \in occ(p) : occ(p) = {i} ELSE occ(p) = {})
             <=> /\ a.usage[p]  => \E i \in 1 .. n : \A j \in 1 .. n :
                                      a.inProgress[j].pipe = p <=> j = i
                 /\ ~a.usage[p] => \A j \in 1 .. n : a.inProgress[j].pipe # p
  <2>1. (\E i \in occ(p) : occ(p) = {i})
        <=> \E i \in 1 .. n : \A j \in 1 .. n : a.inProgress[j].pipe = p <=> j = i
    OBVIOUS
  <2>2. occ(p) = {} <=> \A j \in 1 .. n : a.inProgress[j].pipe # p
    OBVIOUS
  <2>. HIDE DEF occ
  <2>3. QED BY <2>1, <2>2
<1>2. (\A p \in PipeIndex : IF a.usage[p] THEN \E i \in occ(p) : occ(p) = {i} ELSE occ(p) = {})
      <=> OneOccupant(a.inProgress, n, a.usage)
  <2>. HIDE DEF occ
  <2>1. QED BY <1>1 DEF OneOccupant
<1>3. (\A i \in DOMAIN a.inProgress : a.inProgress[i].age < Latency) <=> InTime(a.inProgress, n)
  BY DEF InTime, Latency
<1>4. (\A i, j \in DOMAIN a.inProgress :
         i < j => a.inProgress[j].age < a.inProgress[i].age) <=> ByAge(a.inProgress, n)
  BY DEF ByAge
<1>5. QED BY <1>2, <1>3, <1>4, Zenon DEF AluSound

\* The ALU as a sequence of n operations.
LEMMA AluShape ==
  ASSUME NEW I, NEW a \in AluOf(I)
  PROVE  /\ Len(a.inProgress) \in Nat /\ DOMAIN a.inProgress = 1 .. Len(a.inProgress)
         /\ \A j \in 1 .. Len(a.inProgress) :
              a.inProgress[j].age \in Nat /\ a.inProgress[j].pipe \in PipeIndex
         /\ a.usage \in [PipeIndex -> BOOLEAN]
<1>1. a.inProgress \in Seq(Operation(I)) /\ a.usage \in [PipeIndex -> BOOLEAN]
  BY DEF AluOf
<1>2. /\ Len(a.inProgress) \in Nat /\ DOMAIN a.inProgress = 1 .. Len(a.inProgress)
      /\ \A j \in 1 .. Len(a.inProgress) : a.inProgress[j] \in Operation(I)
  BY <1>1
<1>3. \A o \in Operation(I) : o.age \in Nat /\ o.pipe \in PipeIndex
  BY DEF Operation
<1>4. QED BY <1>1, <1>2, <1>3

LEMMA EnqueuedPipe ==
  ASSUME NEW I, NEW a \in AluOf(I), NEW instr \in I, FreePipes(a, instr.op) # {}
  PROVE  \E p \in PipeIndex, o \in Operation(I) :
           /\ ~a.usage[p]
           /\ Enqueued(a, instr).usage = [a.usage EXCEPT ![p] = TRUE]
           /\ Enqueued(a, instr).inProgress = Append(a.inProgress, o)
           /\ o.pipe = p /\ o.age = 0
<1>1. PICK p : p = FirstPipe(a, instr.op)
  OBVIOUS
<1>2. p \in PipeIndex /\ ~a.usage[p]
  BY <1>1, FirstPipeExists DEF FreePipes
<1> DEFINE o == [instr |-> instr, age |-> 0, pipe |-> p]
<1>3. o \in Operation(I) /\ o.pipe = p /\ o.age = 0
  BY <1>2 DEF Operation
<1>4. /\ Enqueued(a, instr).inProgress = Append(a.inProgress, o)
      /\ Enqueued(a, instr).usage = [a.usage EXCEPT ![p] = TRUE]
  BY <1>1 DEF Enqueued
<1>. HIDE DEF o
<1>5. QED BY <1>2, <1>3, <1>4

\* try_enqueue() between two ticks: the newest operation is the youngest, and alone in
\* its pipe.
LEMMA EnqueuedSound ==
  ASSUME NEW I, NEW a \in AluOf(I), NEW instr \in I, FreePipes(a, instr.op) # {},
         AluSound(a), AllTicked(a)
  PROVE  AluSound(Enqueued(a, instr))
<1>1. PICK b, A, B, n : /\ b = Enqueued(a, instr) /\ A = a.inProgress /\ B = b.inProgress
                        /\ n = Len(a.inProgress)
  OBVIOUS
<1>2. /\ n \in Nat /\ DOMAIN A = 1 .. n /\ a.usage \in [PipeIndex -> BOOLEAN]
      /\ \A j \in 1 .. n : A[j].age \in Nat
  BY <1>1, AluShape
<1>3. PICK p \in PipeIndex, o \in Operation(I) :
        /\ ~a.usage[p]
        /\ b.usage = [a.usage EXCEPT ![p] = TRUE]
        /\ B = Append(A, o)
        /\ o.pipe = p /\ o.age = 0
  <2>1. PICK p \in PipeIndex, o \in Operation(I) :
          /\ ~a.usage[p]
          /\ Enqueued(a, instr).usage = [a.usage EXCEPT ![p] = TRUE]
          /\ Enqueued(a, instr).inProgress = Append(a.inProgress, o)
          /\ o.pipe = p /\ o.age = 0
    BY EnqueuedPipe
  <2>2. QED BY <1>1, <2>1, Zenon
<1>4. /\ DOMAIN B = 1 .. n + 1
      /\ \A j \in 1 .. n : B[j] = A[j]
      /\ B[n + 1].age = 0 /\ B[n + 1].pipe = p
  <2>1. A \in Seq(Operation(I))
    BY <1>1 DEF AluOf
  <2>2. /\ Append(A, o) \in Seq(Operation(I)) /\ Len(Append(A, o)) = n + 1
        /\ \A j \in 1 .. n : Append(A, o)[j] = A[j]
        /\ Append(A, o)[n + 1] = o
    BY <1>1, <2>1, AppendProperties
  <2>. DEFINE q == Append(A, o)
  <2>3. DOMAIN q = 1 .. n + 1
    BY <1>1, <1>2, <2>2
  <2>. HIDE DEF q
  <2>4. B = q /\ q[n + 1] = o /\ \A j \in 1 .. n : q[j] = A[j]
    BY <1>3, <2>2 DEF q
  <2>5. QED BY <1>3, <2>3, <2>4
<1>5. OneOccupant(A, n, a.usage) /\ ByAge(A, n) /\ InTime(A, n)
  BY <1>1, <1>2, AluSoundParts
<1>6. OneOccupant(B, n + 1, b.usage)
  <2>. SUFFICES ASSUME NEW q \in PipeIndex
                PROVE  /\ b.usage[q]  => \E i \in 1 .. n + 1 : \A j \in 1 .. n + 1 :
                                           B[j].pipe = q <=> j = i
                       /\ ~b.usage[q] => \A j \in 1 .. n + 1 : B[j].pipe # q
    BY DEF OneOccupant
  <2>0. b.usage[q] = (q = p \/ a.usage[q])
    BY <1>2, <1>3
  <2>1. ASSUME NEW j \in 1 .. n + 1 PROVE j = n + 1 \/ (j \in 1 .. n /\ j # n + 1)
    BY <1>2
  <2>2. /\ a.usage[q]  => \E i \in 1 .. n : \A j \in 1 .. n : A[j].pipe = q <=> j = i
        /\ ~a.usage[q] => \A j \in 1 .. n : A[j].pipe # q
    BY <1>5 DEF OneOccupant
  <2>3. ASSUME q = p
        PROVE  \E i \in 1 .. n + 1 : \A j \in 1 .. n + 1 : B[j].pipe = q <=> j = i
    <3>1. ASSUME NEW j \in 1 .. n + 1 PROVE B[j].pipe = q <=> j = n + 1
      <4>1. \A k \in 1 .. n : A[k].pipe # q
        BY <1>3, <2>2, <2>3
      <4>2. QED BY <1>4, <2>1, <2>3, <4>1
    <3>2. n + 1 \in 1 .. n + 1
      BY <1>2
    <3>3. QED BY <3>1, <3>2
  <2>4. ASSUME q # p, a.usage[q]
        PROVE  \E i \in 1 .. n + 1 : \A j \in 1 .. n + 1 : B[j].pipe = q <=> j = i
    <3>1. PICK i \in 1 .. n : \A j \in 1 .. n : A[j].pipe = q <=> j = i
      BY <2>2, <2>4
    <3>2. i \in 1 .. n + 1 /\ i # n + 1
      BY <1>2
    <3>3. ASSUME NEW j \in 1 .. n + 1 PROVE B[j].pipe = q <=> j = i
      BY <1>4, <2>1, <2>4, <3>1, <3>2
    <3>4. QED BY <3>2, <3>3
  <2>5. ASSUME q # p, ~a.usage[q], NEW j \in 1 .. n + 1
        PROVE  B[j].pipe # q
    BY <1>4, <2>1, <2>2, <2>5
  <2>6. QED BY <2>0, <2>3, <2>4, <2>5
<1>7. ByAge(B, n + 1) /\ InTime(B, n + 1)
  <2>1. \A i \in 1 .. n : 0 < A[i].age
    BY <1>1, <1>2 DEF AllTicked
  <2>2. ASSUME NEW i \in 1 .. n + 1, NEW j \in 1 .. n + 1, i < j
        PROVE  B[j].age < B[i].age
    <3>1. i \in 1 .. n /\ (j = n + 1 \/ j \in 1 .. n)
      BY <1>2, <2>2
    <3>2. QED BY <1>4, <1>5, <2>1, <2>2, <3>1 DEF ByAge
  <2>3. ASSUME NEW i \in 1 .. n + 1
        PROVE  B[i].age < 2
    <3>1. i = n + 1 \/ i \in 1 .. n
      BY <1>2
    <3>2. QED BY <1>4, <1>5, <3>1 DEF InTime
  <2>4. QED BY <2>2, <2>3 DEF ByAge, InTime
<1>8. QED BY <1>1, <1>4, <1>6, <1>7, AluSoundParts

LEMMA AgedFields == ASSUME NEW o PROVE Aged(o).pipe = o.pipe /\ Aged(o).age = o.age + 1
BY DEF Aged

\* A tick in which nothing finishes: what is there has just been enqueued.
LEMMA TickIdleSound ==
  ASSUME NEW I, NEW a \in AluOf(I), AluSound(a), ~SomeFinishes(a)
  PROVE  AluSound(TickIdle(a)) /\ AllTicked(TickIdle(a))
<1>1. PICK b, A, B, n : /\ b = TickIdle(a) /\ A = a.inProgress /\ B = b.inProgress
                        /\ n = Len(a.inProgress)
  OBVIOUS
<1>2. n \in Nat /\ DOMAIN A = 1 .. n /\ \A j \in 1 .. n : A[j].age \in Nat
  BY <1>1, AluShape
<1>3. /\ b.usage = a.usage /\ DOMAIN B = 1 .. n
      /\ \A j \in 1 .. n : B[j].pipe = A[j].pipe /\ B[j].age = A[j].age + 1
  <2>1. b \in AluOf(I) /\ b.usage = a.usage /\ Len(B) = n
    BY <1>1, TickIdleFacts
  <2>2. \A j \in 1 .. n : B[j] = Aged(A[j])
    BY <1>1, TickIdleFacts
  <2>3. DOMAIN B = 1 .. Len(B)
    BY <1>1, <2>1, AluShape
  <2>4. QED BY <2>1, <2>2, <2>3, AgedFields
<1>4. OneOccupant(A, n, a.usage) /\ ByAge(A, n) /\ InTime(A, n)
  BY <1>1, <1>2, AluSoundParts
<1>5. \A j \in 1 .. n : A[j].age = 0
  <2>1. \A j \in 1 .. n : ~(0 < A[j].age /\ A[j].age <= 2)
    BY <1>1, <1>2 DEF SomeFinishes, Eligible, Latency
  <2>2. QED BY <1>2, <1>4, <2>1 DEF InTime
<1>6. OneOccupant(B, n, b.usage)
  BY <1>3, <1>4, SMTT(30) DEF OneOccupant
<1>7. ByAge(B, n)
  BY <1>2, <1>3, <1>4 DEF ByAge
<1>8. \A j \in 1 .. n : B[j].age = 1
  BY <1>3, <1>5
<1>9. QED BY <1>1, <1>3, <1>6, <1>7, <1>8, AluSoundParts DEF InTime, AllTicked

\* The operation tick() returns is the oldest, and at most one is left behind it.
LEMMA TickFinishSound ==
  ASSUME NEW I, NEW a \in AluOf(I), NEW i, AluSound(a), Finishes(a, i)
  PROVE  AluSound(TickFinish(a, i)) /\ AllTicked(TickFinish(a, i))
<1>1. PICK b, A, B, n : /\ b = TickFinish(a, i) /\ A = a.inProgress /\ B = b.inProgress
                        /\ n = Len(a.inProgress)
  OBVIOUS
<1>2. /\ n \in Nat /\ DOMAIN A = 1 .. n /\ a.usage \in [PipeIndex -> BOOLEAN]
      /\ \A j \in 1 .. n : A[j].age \in Nat /\ A[j].pipe \in PipeIndex
  BY <1>1, AluShape
<1>3. i \in 1 .. n
  BY <1>1, <1>2 DEF Finishes
<1>4. OneOccupant(A, n, a.usage) /\ ByAge(A, n) /\ InTime(A, n)
  BY <1>1, <1>2, AluSoundParts
<1>5. i = 1
  <2>1. ASSUME 1 < i PROVE FALSE
    <3>1. 1 \in 1 .. i - 1 /\ 1 \in 1 .. n
      BY <1>2, <1>3, <2>1
    <3>2. A[i].age < A[1].age /\ A[1].age < 2
      BY <1>3, <1>4, <2>1, <3>1 DEF ByAge, InTime
    <3>3. 0 < A[i].age /\ ~(0 < A[1].age /\ A[1].age <= 2)
      BY <1>1, <3>1 DEF Finishes, Eligible, Latency
    <3>4. A[1].age \in Nat /\ A[i].age \in Nat
      BY <1>2, <1>3, <3>1
    <3>5. QED BY <3>2, <3>3, <3>4
  <2>2. QED BY <1>2, <1>3, <2>1
<1>6. /\ b.usage = [a.usage EXCEPT ![A[1].pipe] = FALSE] /\ DOMAIN B = 1 .. n - 1
      /\ \A j \in 1 .. n - 1 : B[j].pipe = A[j + 1].pipe /\ B[j].age = A[j + 1].age + 1
  <2>0. 1 \in 1 .. Len(a.inProgress) /\ b = TickFinish(a, 1)
    BY <1>1, <1>3, <1>5
  <2>1. b \in AluOf(I) /\ Len(B) = n - 1
    BY <1>1, <2>0, TickFinishFacts
  <2>2. \A j \in 1 .. n - 1 : TickFinish(a, 1).inProgress[j] = Aged(A[IF j < 1 THEN j ELSE j + 1])
    BY <1>1, <2>0, TickFinishFacts
  <2>3. \A j \in 1 .. n - 1 : B[j] = Aged(A[j + 1])
    BY <1>1, <1>2, <2>0, <2>2
  <2>4. DOMAIN B = 1 .. Len(B)
    BY <1>1, <2>1, AluShape
  <2>5. b.usage = [a.usage EXCEPT ![A[1].pipe] = FALSE]
    <3>1. TickFinish(a, 1).usage = [a.usage EXCEPT ![a.inProgress[1].pipe] = FALSE]
      BY DEF TickFinish
    <3>2. QED BY <1>1, <2>0, <3>1, Zenon
  <2>6. QED BY <2>1, <2>3, <2>4, <2>5, AgedFields
<1>7. ASSUME NEW j \in 1 .. n - 1 PROVE j + 1 \in 1 .. n /\ A[j + 1].age = 0
  <2>1. j + 1 \in 1 .. n /\ 1 < j + 1 /\ 1 \in 1 .. n
    BY <1>2
  <2>2. A[j + 1].age < A[1].age /\ A[1].age < 2 /\ A[j + 1].age \in Nat /\ A[1].age \in Nat
    BY <1>2, <1>4, <2>1 DEF ByAge, InTime
  <2>3. QED BY <2>1, <2>2
<1>8. OneOccupant(B, n - 1, b.usage)
  <2>. SUFFICES ASSUME NEW q \in PipeIndex
                PROVE  /\ b.usage[q]  => \E k \in 1 .. n - 1 : \A j \in 1 .. n - 1 :
                                           B[j].pipe = q <=> j = k
                       /\ ~b.usage[q] => \A j \in 1 .. n - 1 : B[j].pipe # q
    BY DEF OneOccupant
  <2>0. b.usage[q] = (q # A[1].pipe /\ a.usage[q])
    BY <1>2, <1>6
  <2>1. /\ a.usage[q]  => \E k \in 1 .. n : \A j \in 1 .. n : A[j].pipe = q <=> j = k
        /\ ~a.usage[q] => \A j \in 1 .. n : A[j].pipe # q
    BY <1>4 DEF OneOccupant
  <2>2. 1 \in 1 .. n
    BY <1>3, <1>5
  <2>3. ASSUME q = A[1].pipe, NEW j \in 1 .. n - 1
        PROVE  B[j].pipe # q
    <3>1. PICK k \in 1 .. n : \A l \in 1 .. n : A[l].pipe = q <=> l = k
      BY <2>1, <2>2, <2>3
    <3>2. k = 1
      BY <2>2, <2>3, <3>1
    <3>3. j + 1 \in 1 .. n /\ j + 1 # 1
      BY <1>2
    <3>4. A[j + 1].pipe # q
      BY <3>1, <3>2, <3>3
    <3>5. QED BY <1>6, <3>4
  <2>4. ASSUME q # A[1].pipe, a.usage[q]
        PROVE  \E k \in 1 .. n - 1 : \A j \in 1 .. n - 1 : B[j].pipe = q <=> j = k
    <3>1. PICK k \in 1 .. n : \A j \in 1 .. n : A[j].pipe = q <=> j = k
      BY <2>1, <2>4
    <3>2. k # 1
      BY <2>2, <2>4, <3>1
    <3>3. k - 1 \in 1 .. n - 1
      BY <1>2, <3>2
    <3>4. ASSUME NEW j \in 1 .. n - 1 PROVE B[j].pipe = q <=> j = k - 1
      <4>1. B[j].pipe = q <=> A[j + 1].pipe = q
        BY <1>6
      <4>2. A[j + 1].pipe = q <=> j + 1 = k
        BY <1>7, <3>1
      <4>3. j + 1 = k <=> j = k - 1
        BY <1>2
      <4>4. QED BY <4>1, <4>2, <4>3
    <3>5. QED BY <3>3, <3>4
  <2>5. ASSUME q # A[1].pipe, ~a.usage[q], NEW j \in 1 .. n - 1
        PROVE  B[j].pipe # q
    BY <1>6, <1>7, <2>1, <2>5
  <2>6. QED BY <2>0, <2>3, <2>4, <2>5
<1>9. ByAge(B, n - 1)
  <2>1. ASSUME NEW j \in 1 .. n - 1, NEW k \in 1 .. n - 1, j < k
        PROVE  FALSE
    <3>1. j + 1 \in 1 .. n /\ k + 1 \in 1 .. n /\ j + 1 < k + 1
      BY <1>2, <2>1
    <3>2. A[k + 1].age < A[j + 1].age
      BY <1>4, <3>1 DEF ByAge
    <3>3. QED BY <1>7, <3>2
  <2>2. QED BY <2>1 DEF ByAge
<1>10. \A j \in 1 .. n - 1 : B[j].age = 1
  BY <1>6, <1>7
<1>11. InTime(B, n - 1)
  BY <1>10 DEF InTime
<1>12. AluSound(b)
  <2>1. PICK m : m = n - 1
    OBVIOUS
  <2>2. DOMAIN b.inProgress = 1 .. m
    BY <1>1, <1>6, <2>1
  <2>3. OneOccupant(b.inProgress, m, b.usage) /\ ByAge(b.inProgress, m) /\ InTime(b.inProgress, m)
    BY <1>1, <1>8, <1>9, <1>11, <2>1, Zenon
  <2>4. QED BY <2>2, <2>3, AluSoundParts
<1>13. AllTicked(b)
  BY <1>1, <1>6, <1>10 DEF AllTicked
<1>14. QED BY <1>1, <1>12, <1>13

LEMMA IdleAluKeepsUp == AluSound(IdleAlu) /\ AllTicked(IdleAlu)
BY DEF IdleAlu, AluSound, AllTicked
=============================================================================
