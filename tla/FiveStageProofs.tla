--------------------------- MODULE FiveStageProofs ---------------------------
(***************************************************************************)
(* The in-order core, for every memory, program, register count and policy:*)
(* its states are typed, and with the single pipe it is built with, an     *)
(* operation leaves the ALU before another enters it, so that the stall of *)
(* StallOnLoad does separate a load from the instruction that uses it; and *)
(* a program whose dependent instructions are far enough apart leaves the  *)
(* registers and the memory that executing it word by word would.          *)
(***************************************************************************)
EXTENDS FiveStageDriver, AluProofs, CommonLemmas

-----------------------------------------------------------------------------
(* The parts of a tick *)

\* An unwrapped option.
LEMMA Unwrapped ==
  ASSUME NEW S, NEW o \in Option(S), NEW x \in o
  PROVE  The(o) = x /\ x \in S /\ o = {x}
BY DEF Option, The

LEMMA OneOfOne == ASSUME NEW S, NEW x \in S PROVE {x} \in Option(S)
BY DEF Option

LEMMA AddrFacts ==
  /\ 0 \in Word /\ Addr \subseteq Word /\ \A a \in Addr : a + 1 \in Word
BY IsaAssumption, FiveAssumption DEF Word, Addr

\* What a register forwarded from a later stage is.
LEMMA SuppliedWord ==
  ASSUME TypeOK, NEW r
  PROVE  /\ Supplies(exMem, r) => The(exMem).result \in Word
         /\ Supplies(memWb, r) => The(memWb).result \in Word
<1>1. exMem \in Option(Executed) /\ memWb \in Option(Done)
  BY DEF TypeOK
<1>2. ASSUME NEW y \in exMem PROVE The(exMem).result \in Word
  <2>1. The(exMem) \in Executed
    BY <1>1, Unwrapped
  <2>2. QED BY <2>1 DEF Executed
<1>3. ASSUME NEW y \in memWb PROVE The(memWb).result \in Word
  <2>1. The(memWb) \in Done
    BY <1>1, Unwrapped
  <2>2. QED BY <2>1 DEF Done
<1>4. QED BY <1>2, <1>3 DEF Supplies

\* Forwarding replaces operands, and nothing else.
LEMMA ForwardedFacts ==
  ASSUME TypeOK, NEW x \in Decoded
  PROVE  Forwarded(x) \in Decoded /\ Forwarded(x).op = x.op /\ Forwarded(x).instr = x.instr
<1>1. ASSUME NEW v \in Word
      PROVE  /\ [x EXCEPT !.rs1 = v] \in Decoded
             /\ [x EXCEPT !.rs1 = v].op = x.op /\ [x EXCEPT !.rs1 = v].instr = x.instr
             /\ [x EXCEPT !.rs2 = v] \in Decoded
             /\ [x EXCEPT !.rs2 = v].op = x.op /\ [x EXCEPT !.rs2 = v].instr = x.instr
  BY DEF Decoded
<1>2. \/ Forwarded(x) = x
      \/ \E v \in Word : Forwarded(x) = [x EXCEPT !.rs1 = v] \/ Forwarded(x) = [x EXCEPT !.rs2 = v]
  BY SuppliedWord DEF Forwarded, FullyForwarded
<1>3. CASE Forwarded(x) = x
  BY <1>3
<1>4. ASSUME NEW v \in Word,
             Forwarded(x) = [x EXCEPT !.rs1 = v] \/ Forwarded(x) = [x EXCEPT !.rs2 = v]
      PROVE  Forwarded(x) \in Decoded /\ Forwarded(x).op = x.op /\ Forwarded(x).instr = x.instr
  <2>. DEFINE y == [x EXCEPT !.rs1 = v]
              z == [x EXCEPT !.rs2 = v]
  <2>1. y \in Decoded /\ y.op = x.op /\ y.instr = x.instr
        /\ z \in Decoded /\ z.op = x.op /\ z.instr = x.instr
    BY <1>1
  <2>2. Forwarded(x) = y \/ Forwarded(x) = z
    BY <1>4
  <2>. HIDE DEF y, z
  <2>3. QED BY <2>1, <2>2
<1>5. QED BY <1>2, <1>3, <1>4

\* The ALU after try_enqueue(): what it was, or one more operation, the decoded
\* instruction.
LEMMA OfferedFacts ==
  ASSUME TypeOK
  PROVE  /\ Offered \in AluOf(Decoded)
         /\ \/ Offered = alu
            \/ \E x \in idEx, y \in Decoded :
                 /\ FreePipes(alu, y.op) # {} /\ Offered = Enqueued(alu, y)
                 /\ y.op = x.op /\ y.instr = x.instr
<1>1. alu \in AluOf(Decoded) /\ idEx \in Option(Decoded)
  BY DEF TypeOK
<1>2. CASE ~\E x \in idEx : ~Refused(x)
  BY <1>1, <1>2 DEF Offered
<1>3. ASSUME NEW x \in idEx, ~Refused(x)
      PROVE  /\ Offered \in AluOf(Decoded)
             /\ \E y \in Decoded : /\ FreePipes(alu, y.op) # {} /\ Offered = Enqueued(alu, y)
                                   /\ y.op = x.op /\ y.instr = x.instr
  <2>1. The(idEx) = x /\ x \in Decoded
    BY <1>1, Unwrapped
  <2>2. PICK y \in Decoded : y = Forwarded(x) /\ y.op = x.op /\ y.instr = x.instr
    BY <2>1, ForwardedFacts
  <2>3. FreePipes(alu, y.op) # {}
    BY <1>3, <2>2 DEF Refused
  <2>4. Offered = Enqueued(alu, y)
    BY <1>3, <2>1, <2>2 DEF Offered
  <2>5. Enqueued(alu, y) \in AluOf(Decoded)
    BY <1>1, <2>3, EnqueuedFacts
  <2>6. QED BY <2>2, <2>3, <2>4, <2>5
<1>4. QED BY <1>2, <1>3

-----------------------------------------------------------------------------
(* Type correctness, stage by stage *)

LEMMA InitTyped == ASSUME Init PROVE TypeOK
<1>1. \A S : {} \in Option(S)
  BY DEF Option
<1>2. alu \in AluOf(Decoded)
  BY IdleAluSound DEF Init
<1>3. mem \in [Addr -> Word] /\ policy \in Policies
  BY FiveAssumption DEF Init
<1>4. regs \in [Reg -> Word] /\ pc \in Word
  BY AddrFacts DEF Init
<1>5. QED BY <1>1, <1>2, <1>3, <1>4 DEF Init, TypeOK

LEMMA FetchTyped ==
  ASSUME TypeOK, ~FetchFaults, FetchStage
  PROVE  ifId' \in Option(Fetched) /\ pc' \in Word
<1>1. CASE Stalls
  BY <1>1 DEF FetchStage, TypeOK, Option
<1>2. CASE ~Stalls
  <2>1. pc \in Addr
    BY <1>2 DEF FetchFaults
  <2>2. [pc |-> pc, word |-> mem[pc]] \in Fetched
    BY <2>1, AddrFacts DEF TypeOK, Fetched
  <2>3. ifId' = {[pc |-> pc, word |-> mem[pc]]} /\ pc' = pc + 1
    BY <1>2 DEF FetchStage
  <2>4. QED BY <2>1, <2>2, <2>3, OneOfOne, AddrFacts
<1>3. QED BY <1>1, <1>2

\* What decode stages is the fetched word's instruction, if it has one.
LEMMA DecodeFacts ==
  ASSUME TypeOK, DecodeStage
  PROVE  /\ idEx' \in Option(Decoded)
         /\ \A x \in idEx' :
              /\ ~Stalls
              /\ \E f \in ifId : f \in Fetched /\ x.instr \in Decode[f.word]
<1>1. CASE Stalls
  BY <1>1 DEF DecodeStage, Option
<1>2. CASE ifId = {} /\ ~Stalls
  BY <1>2 DEF DecodeStage, Option
<1>3. ASSUME NEW f \in ifId, ~Stalls
      PROVE  /\ idEx' \in Option(Decoded)
             /\ \A x \in idEx' : x.instr \in Decode[f.word]
             /\ f \in Fetched
  <2>1. ifId = {f} /\ f \in Fetched
    BY Unwrapped DEF TypeOK
  <2>2. f.pc \in Word /\ f.word \in Word /\ Decode[f.word] \in Option(Instr)
    BY <2>1, IsaAssumption DEF Fetched
  <2>3. idEx' = DecodedAt(f)
    <3>1. UNION {DecodedAt(g) : g \in {f}} = DecodedAt(f)
      OBVIOUS
    <3>2. QED BY <1>3, <2>1, <3>1 DEF DecodeStage
  <2>4. CASE Decode[f.word] = {}
    BY <2>1, <2>3, <2>4 DEF DecodedAt, Option
  <2>5. ASSUME NEW i \in Decode[f.word]
        PROVE  idEx' \in Option(Decoded) /\ \A x \in idEx' : x.instr = i
    <3>1. Decode[f.word] = {i} /\ i \in Instr
      BY <2>2, Unwrapped
    <3>. DEFINE d == [pc |-> f.pc, op |-> i.op, instr |-> i,
                      rs1 |-> regs[i.rs1], rs2 |-> regs[i.rs2]]
    <3>2. d \in Decoded /\ d.instr = i
      <4>1. i.op \in Opcode /\ regs[i.rs1] \in Word /\ regs[i.rs2] \in Word
        BY <3>1 DEF Instr, TypeOK
      <4>2. QED BY <2>2, <3>1, <4>1 DEF Decoded
    <3>3. idEx' = {d}
      BY <2>3, <3>1 DEF DecodedAt
    <3>. HIDE DEF d
    <3>4. QED BY <3>2, <3>3, OneOfOne
  <2>6. QED BY <2>1, <2>4, <2>5, <2>3 DEF DecodedAt
<1>4. QED BY <1>1, <1>2, <1>3

LEMMA ExecutedType ==
  ASSUME NEW x \in Decoded
  PROVE  ExecutedAs(x) \in Executed
<1>1. /\ x.instr \in Instr /\ x.op \in Opcode /\ x.pc \in Word /\ x.rs1 \in Word
      /\ x.rs2 \in Word /\ x.instr.imm \in Word
  BY DEF Decoded, Instr
<1>2. Compute(x.op, x.pc, x.rs1, x.rs2, x.instr.imm) \in Word
  BY <1>1, ComputeInWord
<1>3. QED BY <1>1, <1>2 DEF ExecutedAs, Executed

LEMMA ExecuteTyped ==
  ASSUME TypeOK, ExecuteStage
  PROVE  alu' \in AluOf(Decoded) /\ exMem' \in Option(Executed)
<1>1. PICK a \in AluOf(Decoded) : a = Offered
  BY OfferedFacts
<1>2. CASE alu' = TickIdle(a) /\ exMem' = {}
  BY <1>2, TickIdleFacts DEF Option
<1>3. ASSUME NEW i \in DOMAIN a.inProgress, alu' = TickFinish(a, i),
             exMem' = {ExecutedAs(a.inProgress[i].instr)}
      PROVE  alu' \in AluOf(Decoded) /\ exMem' \in Option(Executed)
  <2>1. i \in 1 .. Len(a.inProgress) /\ a.inProgress[i] \in Operation(Decoded)
    BY AluShape DEF AluOf
  <2>2. alu' \in AluOf(Decoded)
    BY <1>3, <2>1, TickFinishFacts
  <2>3. a.inProgress[i].instr \in Decoded
    BY <2>1 DEF Operation
  <2>4. ExecutedAs(a.inProgress[i].instr) \in Executed
    BY <2>3, ExecutedType
  <2>5. QED BY <1>3, <2>2, <2>4, OneOfOne
<1>4. QED BY <1>1, <1>2, <1>3 DEF ExecuteStage

LEMMA MemTyped ==
  ASSUME TypeOK, ~MemFaults, MemStage
  PROVE  memWb' \in Option(Done) /\ mem' \in [Addr -> Word]
<1>1. exMem \in Option(Executed) /\ mem \in [Addr -> Word]
  BY DEF TypeOK
<1>2. CASE exMem = {}
  BY <1>1, <1>2 DEF MemStage, Option
<1>3. ASSUME NEW y \in exMem
      PROVE  memWb' \in Option(Done) /\ mem' \in [Addr -> Word]
  <2>1. exMem = {y} /\ The(exMem) = y /\ y \in Executed
    BY <1>1, Unwrapped
  <2>2. y.instr \in Instr /\ y.result \in Word /\ y.rs2 \in Word
    BY <2>1 DEF Executed
  <2>3. AccessesMemory(y.instr.op) => y.result \in Addr
    BY DEF MemFaults
  <2>4. MemResult(y) \in Word
    <3>1. CASE IsLoad(y.instr.op)
      <4>1. MemResult(y) = mem[y.result]
        BY <3>1 DEF MemResult, IsLoad, IsStore, LoadOps, StoreOps
      <4>2. QED BY <1>1, <2>3, <3>1, <4>1 DEF AccessesMemory
    <3>2. CASE IsStore(y.instr.op)
      <4>1. MemResult(y) = 0
        BY <3>2 DEF MemResult, IsLoad, IsStore, LoadOps, StoreOps
      <4>2. QED BY <4>1, AddrFacts
    <3>3. CASE ~IsLoad(y.instr.op) /\ ~IsStore(y.instr.op)
      BY <2>2, <3>3 DEF MemResult
    <3>4. QED BY <3>1, <3>2, <3>3
  <2>5. memWb' = {[instr |-> y.instr, result |-> MemResult(y)]}
    BY <2>1 DEF MemStage
  <2>6. [instr |-> y.instr, result |-> MemResult(y)] \in Done
    BY <2>2, <2>4 DEF Done
  <2>7. mem' \in [Addr -> Word]
    <3>1. mem' = mem \/ mem' = [mem EXCEPT ![y.result] = y.rs2]
      BY <2>1 DEF MemStage
    <3>2. QED BY <1>1, <2>2, <3>1
  <2>8. QED BY <2>5, <2>6, <2>7, OneOfOne
<1>4. QED BY <1>2, <1>3

LEMMA WriteBackTyped ==
  ASSUME TypeOK, WriteBackStage
  PROVE  regs' \in [Reg -> Word]
<1>1. memWb \in Option(Done) /\ regs \in [Reg -> Word]
  BY DEF TypeOK
<1>2. ASSUME NEW r \in Reg
      PROVE  (IF r # 0 /\ \E w \in memWb : WritesRd(FormatOf(w.instr.op)) /\ w.instr.rd = r
                THEN The(memWb).result ELSE regs[r]) \in Word
  <2>1. ASSUME NEW w \in memWb PROVE The(memWb).result \in Word
    <3>1. The(memWb) \in Done
      BY <1>1, Unwrapped
    <3>2. QED BY <3>1 DEF Done
  <2>2. QED BY <1>1, <2>1
<1>3. QED BY <1>2 DEF WriteBackStage

LEMMA StepTyped == ASSUME TypeOK, [Next]_vars PROVE TypeOK'
<1>1. CASE Tick
  <2>1. ifId' \in Option(Fetched) /\ pc' \in Word
    BY <1>1, FetchTyped DEF Tick
  <2>2. idEx' \in Option(Decoded)
    BY <1>1, DecodeFacts DEF Tick
  <2>3. alu' \in AluOf(Decoded) /\ exMem' \in Option(Executed)
    BY <1>1, ExecuteTyped DEF Tick
  <2>4. memWb' \in Option(Done) /\ mem' \in [Addr -> Word]
    BY <1>1, MemTyped DEF Tick
  <2>5. regs' \in [Reg -> Word]
    BY <1>1, WriteBackTyped DEF Tick
  <2>6. cycle' \in Nat /\ policy' = policy /\ stage' = stage
    BY <1>1 DEF Tick, TypeOK
  <2>7. QED BY <2>1, <2>2, <2>3, <2>4, <2>5, <2>6 DEF TypeOK
<1>2. CASE FetchFault \/ MemFault \/ Panicked \/ UNCHANGED vars
  BY <1>2 DEF FetchFault, MemFault, Panicked, vars, TypeOK
<1>3. QED BY <1>1, <1>2 DEF Next

\* Every state of the in-order core is typed, whatever the configuration of the ALU.
THEOREM FiveTypeCorrect == Spec => []TypeOK
<1>1. Init => TypeOK
  BY InitTyped
<1>2. TypeOK /\ [Next]_vars => TypeOK'
  BY StepTyped
<1>3. QED BY <1>1, <1>2, PTL DEF Spec

-----------------------------------------------------------------------------
(* One pipe *)

\* The ALU when it holds the one operation o, of age 1, and its pipe is in use.
LEMMA AluOfOne ==
  ASSUME TypeOK, AluHoldsOne, alu.inProgress # <<>>
  PROVE  /\ DOMAIN alu.inProgress = {1} /\ Len(alu.inProgress) = 1
         /\ alu.inProgress[1].age = 1 /\ \A p \in PipeIndex : alu.usage[p]
<1>1. /\ Len(alu.inProgress) \in Nat /\ DOMAIN alu.inProgress = 1 .. Len(alu.inProgress)
  BY AluShape DEF TypeOK
<1>2. Len(alu.inProgress) # 0
  BY EmptySeq DEF TypeOK, AluOf
<1>3. \A i \in 1 .. Len(alu.inProgress) : i = 1
  BY <1>1 DEF AluHoldsOne
<1>4. Len(alu.inProgress) = 1
  <2>1. Len(alu.inProgress) \in 1 .. Len(alu.inProgress)
    BY <1>1, <1>2
  <2>2. QED BY <1>3, <2>1
<1>5. DOMAIN alu.inProgress = {1}
  BY <1>1, <1>4
<1>6. QED BY <1>4, <1>5 DEF AluHoldsOne

\* The ALU after a tick: empty if it was busy or was offered nothing, else with the
\* offered instruction alone in it.
LEMMA TickWithOnePipe ==
  ASSUME Len(Pipes) = 1, TypeOK, AluHoldsOne, ExecuteStage
  PROVE  /\ AluHoldsOne'
         /\ \A i \in DOMAIN alu'.inProgress : \E x \in idEx :
              /\ alu'.inProgress[i].instr.op = x.op
              /\ alu'.inProgress[i].instr.instr = x.instr
<1>. DEFINE Alone == \A i \in DOMAIN alu'.inProgress : \E x \in idEx :
                       /\ alu'.inProgress[i].instr.op = x.op
                       /\ alu'.inProgress[i].instr.instr = x.instr
<1>1. PipeIndex = {1}
  BY DEF PipeIndex
<1>2. alu \in AluOf(Decoded)
  BY DEF TypeOK
<1>3. CASE alu.inProgress # <<>>
  <2>1. /\ DOMAIN alu.inProgress = {1} /\ Len(alu.inProgress) = 1
        /\ alu.inProgress[1].age = 1 /\ alu.usage[1]
    BY <1>1, <1>3, AluOfOne
  <2>2. \A op : FreePipes(alu, op) = {}
    BY <1>1, <2>1 DEF FreePipes
  <2>3. Offered = alu
    BY <2>2, OfferedFacts
  <2>4. SomeFinishes(alu)
    BY <2>1 DEF SomeFinishes, Eligible, Latency
  <2>5. PICK i \in DOMAIN alu.inProgress : alu' = TickFinish(alu, i)
    BY <2>3, <2>4 DEF ExecuteStage
  <2>6. alu' = TickFinish(alu, 1) /\ 1 \in 1 .. Len(alu.inProgress)
    BY <2>1, <2>5
  <2>7. alu' \in AluOf(Decoded) /\ Len(alu'.inProgress) = 0
    BY <1>2, <2>1, <2>6, TickFinishFacts
  <2>8. alu'.inProgress = <<>>
    BY <2>7, EmptySeq DEF AluOf
  <2>9. ~alu'.usage[1]
    <3>1. alu.inProgress[1].pipe = 1 /\ alu.usage \in [PipeIndex -> BOOLEAN]
      BY <1>1, <1>2, <2>6, AluShape
    <3>2. alu'.usage = [alu.usage EXCEPT ![1] = FALSE]
      BY <2>6, <3>1 DEF TickFinish
    <3>3. QED BY <1>1, <3>1, <3>2
  <2>10. AluHoldsOne'
    BY <1>1, <2>8, <2>9 DEF AluHoldsOne
  <2>11. Alone
    BY <2>8
  <2>12. QED BY <2>10, <2>11
<1>4. CASE alu.inProgress = <<>>
  <2>1. ~alu.usage[1] /\ Len(alu.inProgress) = 0
    BY <1>1, <1>4 DEF AluHoldsOne
  <2>2. CASE Offered = alu
    <3>1. ~SomeFinishes(alu)
      BY <1>4 DEF SomeFinishes
    <3>2. alu' = TickIdle(alu)
      BY <2>2, <3>1, <1>4 DEF ExecuteStage
    <3>3. alu' \in AluOf(Decoded) /\ alu'.usage = alu.usage /\ Len(alu'.inProgress) = 0
      BY <1>2, <2>1, <3>2, TickIdleFacts
    <3>4. alu'.inProgress = <<>>
      BY <3>3, EmptySeq DEF AluOf
    <3>5. AluHoldsOne'
      BY <1>1, <2>1, <3>3, <3>4 DEF AluHoldsOne
    <3>6. Alone
      BY <3>4
    <3>7. QED BY <3>5, <3>6
  <2>3. ASSUME NEW x \in idEx, NEW y \in Decoded,
               FreePipes(alu, y.op) # {}, Offered = Enqueued(alu, y),
               y.op = x.op, y.instr = x.instr
        PROVE  AluHoldsOne' /\ Alone
    <3>1. PICK b \in AluOf(Decoded) : b = Enqueued(alu, y)
      BY <1>2, <2>3, EnqueuedFacts
    <3>2. Len(b.inProgress) = 1 /\ b.inProgress[1].age = 0 /\ b.inProgress[1].instr = y
      <4>1. /\ Len(Enqueued(alu, y).inProgress) = Len(alu.inProgress) + 1
            /\ Enqueued(alu, y).inProgress[Len(alu.inProgress) + 1].instr = y
            /\ Enqueued(alu, y).inProgress[Len(alu.inProgress) + 1].age = 0
        <5>1. alu \in AluOf(Decoded) /\ y \in Decoded /\ FreePipes(alu, y.op) # {}
          BY <1>2, <2>3
        <5>2. QED BY <5>1, EnqueuedFacts, SMTT(60)
      <4>2. QED BY <2>1, <3>1, <4>1
    <3>3. b.usage[1]
      <4>1. PICK p \in PipeIndex, o \in Operation(Decoded) :
              /\ ~alu.usage[p]
              /\ Enqueued(alu, y).usage = [alu.usage EXCEPT ![p] = TRUE]
              /\ Enqueued(alu, y).inProgress = Append(alu.inProgress, o)
              /\ o.pipe = p /\ o.age = 0
        BY <1>2, <2>3, EnqueuedPipe
      <4>2. p = 1 /\ alu.usage \in [PipeIndex -> BOOLEAN]
        BY <1>1, <1>2, AluShape
      <4>3. QED BY <1>1, <3>1, <4>1, <4>2
    <3>4. DOMAIN b.inProgress = {1}
      BY <3>2, AluShape
    <3>5. ~SomeFinishes(b) /\ \A i : ~Finishes(b, i)
      BY <3>2, <3>4 DEF SomeFinishes, Finishes, Eligible
    <3>6. alu' = TickIdle(b)
      BY <2>3, <3>1, <3>5 DEF ExecuteStage
    <3>7. /\ alu' \in AluOf(Decoded) /\ alu'.usage = b.usage /\ Len(alu'.inProgress) = 1
          /\ alu'.inProgress[1] = Aged(b.inProgress[1])
      <4>1. /\ TickIdle(b) \in AluOf(Decoded) /\ TickIdle(b).usage = b.usage
            /\ Len(TickIdle(b).inProgress) = Len(b.inProgress)
            /\ \A j \in 1 .. Len(b.inProgress) : TickIdle(b).inProgress[j] = Aged(b.inProgress[j])
        BY TickIdleFacts
      <4>2. QED BY <3>2, <3>6, <4>1
    <3>8. DOMAIN alu'.inProgress = {1} /\ alu'.inProgress # <<>>
      BY <3>7, AluShape
    <3>9. alu'.inProgress[1].age = 1 /\ alu'.inProgress[1].instr = y
      <4>1. \A o : Aged(o).age = o.age + 1 /\ Aged(o).instr = o.instr
        BY DEF Aged
      <4>2. QED BY <3>2, <3>7, <4>1
    <3>10. AluHoldsOne'
      BY <1>1, <3>3, <3>7, <3>8, <3>9 DEF AluHoldsOne
    <3>11. Alone
      BY <2>3, <3>8, <3>9
    <3>12. QED BY <3>10, <3>11
  <2>4. QED BY <2>2, <2>3, OfferedFacts
<1>5. QED BY <1>3, <1>4

OneInv == TypeOK /\ AluHoldsOne /\ LoadUseSeparated

\* The instruction that a stall lets through does not read the load ahead of it.
LEMMA SeparatedStep ==
  ASSUME Len(Pipes) = 1, OneInv, Tick
  PROVE  LoadUseSeparated'
<1>. SUFFICES ASSUME policy'.hazard = "StallOnLoad", NEW x \in idEx', NEW i \in DOMAIN alu'.inProgress,
                     IsLoad(alu'.inProgress[i].instr.op), alu'.inProgress[i].instr.instr.rd # 0
              PROVE  alu'.inProgress[i].instr.instr.rd \notin {x.instr.rs1, x.instr.rs2}
  BY DEF LoadUseSeparated
<1>1. TypeOK /\ AluHoldsOne /\ DecodeStage /\ ExecuteStage /\ policy' = policy
  BY DEF OneInv, Tick
<1>2. PICK y \in idEx : /\ alu'.inProgress[i].instr.op = y.op
                        /\ alu'.inProgress[i].instr.instr = y.instr
  BY <1>1, TickWithOnePipe
<1>3. PICK f \in ifId : f \in Fetched /\ x.instr \in Decode[f.word] /\ ~Stalls
  BY <1>1, DecodeFacts
<1>4. WordRegs[f.word] = {x.instr.rs1, x.instr.rs2}
  BY <1>3, FiveAssumption DEF Fetched
<1>5. ~(IsLoad(y.op) /\ y.instr.rd # 0 /\ y.instr.rd \in WordRegs[f.word])
  BY <1>1, <1>3 DEF Stalls, LoadUse
<1>6. QED BY <1>2, <1>4, <1>5

LEMMA OneStep == ASSUME Len(Pipes) = 1, OneInv, [Next]_vars PROVE OneInv'
<1>1. TypeOK'
  BY StepTyped DEF OneInv
<1>2. CASE Tick
  <2>1. AluHoldsOne'
    BY <1>2, TickWithOnePipe DEF Tick, OneInv
  <2>2. QED BY <1>1, <1>2, <2>1, SeparatedStep DEF OneInv
<1>3. CASE FetchFault \/ MemFault \/ Panicked \/ UNCHANGED vars
  BY <1>1, <1>3 DEF FetchFault, MemFault, Panicked, vars, OneInv, AluHoldsOne, LoadUseSeparated
<1>4. QED BY <1>2, <1>3 DEF Next

LEMMA OneAlways == ASSUME Len(Pipes) = 1 PROVE Spec => []OneInv
<1>1. Init => OneInv
  <2>1. SUFFICES ASSUME Init PROVE AluHoldsOne /\ LoadUseSeparated
    BY InitTyped DEF OneInv
  <2>2. alu.inProgress = <<>> /\ (\A p \in PipeIndex : ~alu.usage[p]) /\ idEx = {}
    BY <2>1 DEF Init, IdleAlu
  <2>3. QED BY <2>2 DEF AluHoldsOne, LoadUseSeparated
<1>2. OneInv /\ [Next]_vars => OneInv'
  BY OneStep
<1>3. QED BY <1>1, <1>2, PTL DEF Spec

\* With one pipe the ALU holds one operation between ticks, in its last cycle.
THEOREM OneOperationAtATime == ASSUME Len(Pipes) = 1 PROVE Spec => []AluHoldsOne
<1>1. OneInv => AluHoldsOne
  BY DEF OneInv
<1>2. QED BY <1>1, OneAlways, PTL

\* Under StallOnLoad no instruction is about to execute in the cycle after a load it
\* reads from.
THEOREM StallSeparatesLoadUse == ASSUME Len(Pipes) = 1 PROVE Spec => []LoadUseSeparated
<1>1. OneInv => LoadUseSeparated
  BY DEF OneInv
<1>2. QED BY <1>1, OneAlways, PTL

-----------------------------------------------------------------------------
(* The sequential reference *)

\* The state after the word at n.
Follow(s, n) ==
  IF Decode[image[n]] = {} THEN s ELSE After(s, The(Decode[image[n]]), n)

Start == [regs |-> [r \in Reg |-> 0], mem |-> image]

\* The reference is defined by its recursion.
LEMMA SequentialSteps ==
  /\ Sequential[0] = Start
  /\ \A n \in 0 .. MemSize - 1 : Sequential[n + 1] = Follow(Sequential[n], n)
<1>. DEFINE Runs(f, m) == f = [n \in 0 .. m |-> IF n = 0 THEN Start ELSE Follow(f[n - 1], n - 1)]
            Reached == {m \in Nat : \E f : Runs(f, m)}
<1>1. 0 \in Reached
  <2>. DEFINE f == [n \in 0 .. 0 |-> Start]
  <2>1. Runs(f, 0)
    OBVIOUS
  <2>2. QED BY <2>1
<1>2. ASSUME NEW m \in Nat, m \in Reached PROVE m + 1 \in Reached
  <2>1. PICK f : Runs(f, m)
    BY <1>2
  <2>. DEFINE g == [n \in 0 .. m + 1 |-> IF n = m + 1 THEN Follow(f[m], m) ELSE f[n]]
  <2>2. ASSUME NEW n \in 0 .. m + 1
        PROVE  g[n] = IF n = 0 THEN Start ELSE Follow(g[n - 1], n - 1)
    BY <2>1
  <2>3. Runs(g, m + 1)
    BY <2>2
  <2>4. \E h : Runs(h, m + 1)
    <3>. HIDE DEF g, Runs
    <3>1. QED BY <2>3
  <2>5. QED BY <2>4
<1>3. Nat \subseteq Reached
  <2>. HIDE DEF Reached
  <2>1. QED BY <1>1, <1>2, NatSetInduction
<1>4. MemSize \in Nat
  BY FiveAssumption
<1>5. \E f : Runs(f, MemSize)
  BY <1>3, <1>4
<1>6. Sequential = CHOOSE f : Runs(f, MemSize)
  BY Zenon DEF Sequential, Follow, Start
<1>7. Runs(Sequential, MemSize)
  <2>. HIDE DEF Runs
  <2>1. QED BY <1>5, <1>6, Zenon
<1>8. QED BY <1>4, <1>7

\* What i leaves in MEM/WB, executed at a in the state s.
Outcome(s, i, a) ==
  CASE IsLoad(i.op)  -> s.mem[Computed(s, i, a)]
    [] IsStore(i.op) -> 0
    [] OTHER         -> Computed(s, i, a)

Writes(i, r) == WritesRd(FormatOf(i.op)) /\ i.rd # 0 /\ i.rd = r

LEMMA StoresWriteNoRegister ==
  ASSUME NEW op, IsStore(op)
  PROVE  ~WritesRd(FormatOf(op)) /\ ~IsLoad(op)
BY DEF IsStore, StoreOps, IsLoad, LoadOps, FormatOf, WritesRd

\* A register and memory after an instruction.
LEMMA RegisterAfter ==
  ASSUME NEW s, NEW i \in Instr, NEW a, DOMAIN s.regs = Reg, NEW r \in Reg
  PROVE  After(s, i, a).regs[r] = IF Writes(i, r) THEN Outcome(s, i, a) ELSE s.regs[r]
<1>. DEFINE v == IF IsLoad(i.op) THEN s.mem[Computed(s, i, a)] ELSE Computed(s, i, a)
            w == WritesRd(FormatOf(i.op)) /\ i.rd # 0
<1>1. w => v = Outcome(s, i, a)
  BY StoresWriteNoRegister DEF Outcome
<1>2. After(s, i, a).regs = IF w THEN [s.regs EXCEPT ![i.rd] = v] ELSE s.regs
  BY DEF After
<1>3. Writes(i, r) <=> w /\ i.rd = r
  BY DEF Writes
<1>. HIDE DEF v, w
<1>4. QED BY <1>1, <1>2, <1>3

LEMMA DomainsAfter ==
  ASSUME NEW s, NEW i, NEW a, s.regs = [r \in Reg |-> s.regs[r]], DOMAIN s.mem = Addr
  PROVE  /\ After(s, i, a).regs = [r \in Reg |-> After(s, i, a).regs[r]]
         /\ DOMAIN After(s, i, a).mem = Addr
BY DEF After

LEMMA MemoryAfter ==
  ASSUME NEW s, NEW i, NEW a
  PROVE  After(s, i, a).mem =
           IF IsStore(i.op) THEN [s.mem EXCEPT ![Computed(s, i, a)] = s.regs[i.rs2]] ELSE s.mem
BY DEF After

LEMMA ImageDecodes ==
  ASSUME image \in [Addr -> Word], NEW n \in Addr, NEW i \in Decode[image[n]]
  PROVE  i \in Instr /\ Decode[image[n]] = {i} /\ The(Decode[image[n]]) = i
BY Unwrapped, IsaAssumption

\* The registers and the memory of the reference are functions of their index.
LEMMA SequentialDomains ==
  ASSUME image \in [Addr -> Word], NEW n \in 0 .. MemSize
  PROVE  /\ Sequential[n].regs = [r \in Reg |-> Sequential[n].regs[r]]
         /\ DOMAIN Sequential[n].regs = Reg /\ DOMAIN Sequential[n].mem = Addr
<1>. DEFINE Shaped(s) == s.regs = [r \in Reg |-> s.regs[r]] /\ DOMAIN s.mem = Addr
            Good == {m \in Nat : m <= MemSize => Shaped(Sequential[m])}
<1>1. MemSize \in Nat
  BY FiveAssumption
<1>2. Shaped(Sequential[0])
  BY SequentialSteps DEF Start
<1>3. ASSUME NEW m \in Nat, m + 1 <= MemSize, Shaped(Sequential[m])
      PROVE  Shaped(Sequential[m + 1])
  <2>1. m \in Addr /\ Sequential[m + 1] = Follow(Sequential[m], m)
    BY <1>1, <1>3, SequentialSteps DEF Addr
  <2>2. CASE Decode[image[m]] = {}
    BY <1>3, <2>1, <2>2 DEF Follow
  <2>3. ASSUME NEW i \in Decode[image[m]] PROVE Shaped(Sequential[m + 1])
    <3>1. i \in Instr /\ Sequential[m + 1] = After(Sequential[m], i, m)
      BY <2>1, <2>3, ImageDecodes DEF Follow
    <3>2. Shaped(After(Sequential[m], i, m))
      BY <1>3, DomainsAfter
    <3>3. QED BY <3>1, <3>2
  <2>4. QED BY <2>2, <2>3
<1>4. Nat \subseteq Good
  <2>1. 0 \in Good
    BY <1>2
  <2>2. ASSUME NEW m \in Nat, m \in Good PROVE m + 1 \in Good
    <3>. HIDE DEF Shaped
    <3>1. QED BY <1>1, <1>3, <2>2
  <2>. HIDE DEF Good
  <2>3. QED BY <2>1, <2>2, NatSetInduction
<1>5. n \in Nat /\ n <= MemSize
  BY <1>1
<1>6. Shaped(Sequential[n])
  BY <1>4, <1>5
<1>7. QED BY <1>6

\* One step of the reference, seen from the instruction of the word.
LEMMA SequentialAfter ==
  ASSUME image \in [Addr -> Word], NEW n \in Addr
  PROVE  /\ n \in 0 .. MemSize /\ n + 1 \in 0 .. MemSize
         /\ Decode[image[n]] = {} => Sequential[n + 1] = Sequential[n]
         /\ \A i \in Decode[image[n]] : Sequential[n + 1] = After(Sequential[n], i, n)
         /\ \A r \in Reg :
              /\ (\A i \in Decode[image[n]] : ~Writes(i, r))
                   => Sequential[n + 1].regs[r] = Sequential[n].regs[r]
              /\ \A i \in Decode[image[n]] : Writes(i, r)
                   => Sequential[n + 1].regs[r] = Outcome(Sequential[n], i, n)
<1>1. n \in 0 .. MemSize - 1 /\ n \in 0 .. MemSize /\ n + 1 \in 0 .. MemSize
  BY FiveAssumption DEF Addr
<1>2. Sequential[n + 1] = Follow(Sequential[n], n)
  BY <1>1, SequentialSteps
<1>3. Decode[image[n]] = {} => Sequential[n + 1] = Sequential[n]
  BY <1>2 DEF Follow
<1>4. ASSUME NEW i \in Decode[image[n]]
      PROVE  /\ Sequential[n + 1] = After(Sequential[n], i, n)
             /\ \A r \in Reg : Sequential[n + 1].regs[r] =
                  IF Writes(i, r) THEN Outcome(Sequential[n], i, n) ELSE Sequential[n].regs[r]
             /\ Decode[image[n]] = {i}
  <2>1. i \in Instr /\ Decode[image[n]] = {i} /\ Sequential[n + 1] = After(Sequential[n], i, n)
    BY <1>2, ImageDecodes DEF Follow
  <2>2. DOMAIN Sequential[n].regs = Reg /\ DOMAIN Sequential[n].mem = Addr
    BY <1>1, SequentialDomains
  <2>3. \A r \in Reg : After(Sequential[n], i, n).regs[r] =
          IF Writes(i, r) THEN Outcome(Sequential[n], i, n) ELSE Sequential[n].regs[r]
    <3>. DEFINE s == Sequential[n]
    <3>1. i \in Instr /\ DOMAIN s.regs = Reg /\ DOMAIN s.mem = Addr
      BY <2>1, <2>2
    <3>. HIDE DEF s
    <3>2. ASSUME NEW r \in Reg
          PROVE  After(s, i, n).regs[r] = IF Writes(i, r) THEN Outcome(s, i, n) ELSE s.regs[r]
      BY <3>1, RegisterAfter
    <3>3. QED BY <3>2 DEF s
  <2>4. QED BY <2>1, <2>3
<1>5. QED BY <1>1, <1>3, <1>4

-----------------------------------------------------------------------------
(* The instructions in flight *)

\* The instruction of the word fetched d ticks ago, and the sequential state in front
\* of it.
InFlight(d) == IF d <= pc THEN Decode[image[pc - d]] ELSE {}
Seen(d)     == Sequential[IF d <= pc THEN pc - d ELSE 0]

\* i in EX, with the operands it has in the state s.
Operands(s, i, a) ==
  [pc |-> a, op |-> i.op, instr |-> i, rs1 |-> s.regs[i.rs1], rs2 |-> s.regs[i.rs2]]

\* Each latch, the ALU, the register file and memory is as the sequential machine has
\* it at the word that is there.  ID has read the registers two words early.
Aligned ==
  /\ pc <= MemSize
  /\ ifId = IF pc = 0 THEN {} ELSE {[pc |-> pc - 1, word |-> image[pc - 1]]}
  /\ idEx = {Operands(Seen(6), i, pc - 2) : i \in InFlight(2)}
  /\ {alu.inProgress[n].instr : n \in DOMAIN alu.inProgress}
       = {Operands(Seen(3), i, pc - 3) : i \in InFlight(3)}
  /\ exMem = {[instr |-> i, result |-> Computed(Seen(4), i, pc - 4), rs2 |-> Seen(4).regs[i.rs2]] :
                i \in InFlight(4)}
  /\ memWb = {[instr |-> i, result |-> Outcome(Seen(5), i, pc - 5)] : i \in InFlight(5)}
  /\ regs = Seen(5).regs
  /\ mem = Seen(4).mem

ImageTyped == image \in [Addr -> Word]

LEMMA InFlightFacts ==
  ASSUME ImageTyped, pc \in Nat, pc <= MemSize, NEW d \in Nat \ {0}, NEW i \in InFlight(d)
  PROVE  /\ d <= pc /\ pc - d \in Addr /\ i \in Decode[image[pc - d]]
         /\ i \in Instr /\ InFlight(d) = {i}
<1>1. d <= pc /\ InFlight(d) = Decode[image[pc - d]]
  BY DEF InFlight
<1>2. pc - d \in Addr
  BY <1>1, FiveAssumption DEF Addr
<1>3. i \in Instr /\ Decode[image[pc - d]] = {i}
  BY <1>1, <1>2, ImageDecodes DEF ImageTyped
<1>4. QED BY <1>1, <1>2, <1>3

\* The sequential state behind the word fetched d ticks ago.
LEMMA SeenAfter ==
  ASSUME ImageTyped, pc \in Nat, pc <= MemSize, NEW d \in Nat \ {0}
  PROVE  /\ InFlight(d) = {} => Seen(d - 1) = Seen(d)
         /\ \A i \in InFlight(d) : Seen(d - 1) = After(Seen(d), i, pc - d)
         /\ \A r \in Reg :
              /\ (\A i \in InFlight(d) : ~Writes(i, r)) => Seen(d - 1).regs[r] = Seen(d).regs[r]
              /\ \A i \in InFlight(d) : Writes(i, r)
                   => Seen(d - 1).regs[r] = Outcome(Seen(d), i, pc - d)
<1>1. CASE d <= pc
  <2>1. PICK n \in Addr : n = pc - d
    BY <1>1, FiveAssumption DEF Addr
  <2>2. InFlight(d) = Decode[image[n]] /\ Seen(d) = Sequential[n]
    BY <1>1, <2>1 DEF InFlight, Seen
  <2>3. Seen(d - 1) = Sequential[n + 1]
    <3>1. d - 1 <= pc /\ pc - (d - 1) = n + 1
      BY <1>1, <2>1
    <3>2. QED BY <3>1 DEF Seen
  <2>4. QED BY <2>1, <2>2, <2>3, SequentialAfter DEF ImageTyped
<1>2. CASE ~(d <= pc)
  <2>1. InFlight(d) = {}
    BY <1>2 DEF InFlight
  <2>2. Seen(d) = Sequential[0] /\ Seen(d - 1) = Sequential[0]
    <3>1. CASE d - 1 <= pc
      BY <1>2, <3>1 DEF Seen
    <3>2. CASE ~(d - 1 <= pc)
      BY <1>2, <3>2 DEF Seen
    <3>3. QED BY <3>1, <3>2
  <2>3. QED BY <2>1, <2>2
<1>3. QED BY <1>1, <1>2

\* Words are in flight at the distance they have in memory.
LEMMA SpacedInFlight ==
  ASSUME ImageTyped, pc \in Nat, pc <= MemSize, WellSpaced(image, policy.forwarding),
         NEW d \in Nat, NEW e \in Nat, 0 < e, e < d,
         NEW i \in InFlight(d), NEW j \in InFlight(e)
  PROVE  /\ d - e > 1
         /\ policy.forwarding = "FullForwarding" => MayFollow(i, j, d - e)
         /\ policy.forwarding # "FullForwarding" =>
              (d - e < 5 => \A r \in Reads(j) : ~Writes(i, r))
<1>. DEFINE a == pc - d
            b == pc - e
<1>1. a \in Addr /\ b \in Addr /\ i \in Decode[image[a]] /\ j \in Decode[image[b]]
  BY InFlightFacts
<1>2. a < b /\ b - a = d - e
  BY <1>1 DEF Addr
<1>. HIDE DEF a, b
<1>3. IF policy.forwarding = "FullForwarding" THEN MayFollow(i, j, b - a)
      ELSE b - a > 1 /\ (b - a < 5 /\ WritesRd(FormatOf(i.op)) /\ i.rd # 0 => i.rd \notin Reads(j))
  BY <1>1, <1>2 DEF WellSpaced
<1>4. MayFollow(i, j, b - a) => b - a > 1
  <2>1. b - a \in Int
    BY <1>2
  <2>2. QED BY <2>1 DEF MayFollow
<1>5. QED BY <1>2, <1>3, <1>4 DEF Writes

\* Where the youngest older writer of an operand is, without and with forwarding.
LEMMA ReadWithoutForwarding ==
  ASSUME ImageTyped, pc \in Nat, pc <= MemSize, WellSpaced(image, policy.forwarding),
         policy.forwarding # "FullForwarding",
         NEW i \in InFlight(2), NEW r \in Reg, r \in Reads(i)
  PROVE  Seen(2).regs[r] = Seen(6).regs[r]
<1>1. ASSUME NEW d \in 3 .. 6 PROVE Seen(d - 1).regs[r] = Seen(d).regs[r]
  <2>1. \A j \in InFlight(d) : ~Writes(j, r)
    BY SpacedInFlight
  <2>2. QED BY <2>1, SeenAfter
<1>2. Seen(3 - 1).regs[r] = Seen(3).regs[r] /\ Seen(4 - 1).regs[r] = Seen(4).regs[r]
      /\ Seen(5 - 1).regs[r] = Seen(5).regs[r] /\ Seen(6 - 1).regs[r] = Seen(6).regs[r]
  BY <1>1
<1>3. 3 - 1 = 2 /\ 4 - 1 = 3 /\ 5 - 1 = 4 /\ 6 - 1 = 5
  OBVIOUS
<1>4. QED BY <1>2, <1>3

\* The instruction in a later stage has an rd field that is an operand: it is the only
\* one in these two stages, it writes the operand, and no other operand is supplied.
LEMMA Supplied ==
  ASSUME ImageTyped, pc \in Nat, pc <= MemSize, WellSpaced(image, policy.forwarding),
         policy.forwarding = "FullForwarding", NEW i \in InFlight(2), NEW d \in {4, 5},
         NEW j \in InFlight(d), j.rd # 0, j.rd \in Reads(i)
  PROVE  /\ i.rs1 # i.rs2
         /\ Writes(j, j.rd)
         /\ Seen(2).regs[j.rd] = Outcome(Seen(d), j, pc - d)
         /\ d = 4 => Outcome(Seen(d), j, pc - d) = Computed(Seen(d), j, pc - d)
         /\ InFlight(9 - d) = {}
<1>1. MayFollow(j, i, d - 2)
  BY SpacedInFlight
<1>2. i.rs1 # i.rs2 /\ WritesRd(FormatOf(j.op)) /\ (d = 4 => ~IsLoad(j.op))
  BY <1>1 DEF MayFollow
<1>3. Writes(j, j.rd)
  BY <1>2 DEF Writes
<1>4. d = 4 => Outcome(Seen(d), j, pc - d) = Computed(Seen(d), j, pc - d)
  BY <1>2, StoresWriteNoRegister DEF Outcome
<1>5. InFlight(3) = {} /\ InFlight(9 - d) = {}
  <2>1. InFlight(3) = {}
    <3>1. ASSUME NEW k \in InFlight(3) PROVE FALSE
      <4>1. 3 - 2 > 1
        BY SpacedInFlight
      <4>2. QED BY <4>1
    <3>2. QED BY <3>1
  <2>2. ASSUME d = 4, NEW k \in InFlight(5) PROVE FALSE
    <3>1. 5 - 4 > 1
      BY <2>2, SpacedInFlight
    <3>2. QED BY <3>1
  <2>3. ASSUME d = 5, NEW k \in InFlight(4) PROVE FALSE
    <3>1. 5 - 4 > 1
      BY <2>3, SpacedInFlight
    <3>2. QED BY <3>1
  <2>4. QED BY <2>1, <2>2, <2>3
<1>6. j.rd \in Reg
  BY InFlightFacts DEF Instr
<1>7. Seen(d - 1).regs[j.rd] = Outcome(Seen(d), j, pc - d)
  BY <1>3, <1>6, SeenAfter
<1>8. Seen(3 - 1).regs[j.rd] = Seen(3).regs[j.rd]
  BY <1>5, <1>6, SeenAfter
<1>9. d = 5 => Seen(4 - 1).regs[j.rd] = Seen(4).regs[j.rd]
  <2>1. d = 5 => InFlight(4) = {}
    BY <1>5
  <2>2. QED BY <1>6, <2>1, SeenAfter
<1>10. Seen(2).regs[j.rd] = Outcome(Seen(d), j, pc - d)
  <2>1. 3 - 1 = 2 /\ 4 - 1 = 3 /\ 5 - 1 = 4
    OBVIOUS
  <2>2. QED BY <1>7, <1>8, <1>9, <2>1
<1>11. QED BY <1>2, <1>3, <1>4, <1>5, <1>10

\* No later stage has an rd field that is this operand: ID read it right.
LEMMA NotSupplied ==
  ASSUME ImageTyped, pc \in Nat, pc <= MemSize, WellSpaced(image, policy.forwarding),
         policy.forwarding = "FullForwarding", NEW i \in InFlight(2),
         NEW r \in Reg, r \in Reads(i),
         \A j \in InFlight(4) \cup InFlight(5) : ~(j.rd # 0 /\ j.rd = r)
  PROVE  Seen(2).regs[r] = Seen(6).regs[r]
<1>1. ASSUME NEW d \in 3 .. 6 PROVE Seen(d - 1).regs[r] = Seen(d).regs[r]
  <2>1. ASSUME NEW j \in InFlight(d) PROVE ~Writes(j, r)
    <3>1. CASE d = 3
      <4>1. 3 - 2 > 1
        BY <3>1, SpacedInFlight
      <4>2. QED BY <4>1
    <3>2. CASE d \in {4, 5}
      BY <3>2 DEF Writes
    <3>3. CASE d = 6
      <4>1. MayFollow(j, i, 6 - 2)
        BY <3>3, SpacedInFlight
      <4>2. QED BY <4>1 DEF MayFollow, Writes
    <3>4. QED BY <3>1, <3>2, <3>3
  <2>2. QED BY <2>1, SeenAfter
<1>2. Seen(3 - 1).regs[r] = Seen(3).regs[r] /\ Seen(4 - 1).regs[r] = Seen(4).regs[r]
      /\ Seen(5 - 1).regs[r] = Seen(5).regs[r] /\ Seen(6 - 1).regs[r] = Seen(6).regs[r]
  BY <1>1
<1>3. 3 - 1 = 2 /\ 4 - 1 = 3 /\ 5 - 1 = 4 /\ 6 - 1 = 5
  OBVIOUS
<1>4. QED BY <1>2, <1>3

\* What ID read, with what is forwarded, are the operands.
LEMMA ForwardedRight ==
  ASSUME ImageTyped, pc \in Nat, Aligned, WellSpaced(image, policy.forwarding),
         NEW i \in InFlight(2)
  PROVE  Forwarded(Operands(Seen(6), i, pc - 2)) = Operands(Seen(2), i, pc - 2)
<1>. DEFINE x == Operands(Seen(6), i, pc - 2)
            z == Operands(Seen(2), i, pc - 2)
<1>1. pc <= MemSize /\ i.rs1 \in Reg /\ i.rs2 \in Reg /\ Reads(i) = {i.rs1, i.rs2}
  BY InFlightFacts DEF Aligned, Instr, Reads
<1>2. CASE policy.forwarding # "FullForwarding"
  <2>1. \A r \in Reads(i) : Seen(2).regs[r] = Seen(6).regs[r]
    BY <1>1, <1>2, ReadWithoutForwarding
  <2>2. x = z
    BY <1>1, <2>1 DEF Operands
  <2>3. QED BY <1>2, <2>2 DEF Forwarded
<1>3. CASE policy.forwarding = "FullForwarding"
  <2>1. x.instr = i /\ z.instr = i /\ x.rs1 = Seen(6).regs[i.rs1] /\ x.rs2 = Seen(6).regs[i.rs2]
        /\ z.rs1 = Seen(2).regs[i.rs1] /\ z.rs2 = Seen(2).regs[i.rs2]
    BY DEF Operands
  <2>2. /\ x.rs2 = z.rs2 => z = [x EXCEPT !.rs1 = z.rs1]
        /\ x.rs1 = z.rs1 => z = [x EXCEPT !.rs2 = z.rs2]
        /\ x.rs1 = z.rs1 /\ x.rs2 = z.rs2 => z = x
    <3>1. ASSUME NEW a, NEW op, NEW u1, NEW u2, NEW v1, NEW v2,
                 x = [pc |-> a, op |-> op, instr |-> i, rs1 |-> u1, rs2 |-> u2],
                 z = [pc |-> a, op |-> op, instr |-> i, rs1 |-> v1, rs2 |-> v2]
          PROVE  /\ u2 = v2 => z = [x EXCEPT !.rs1 = v1]
                 /\ u1 = v1 => z = [x EXCEPT !.rs2 = v2]
                 /\ u1 = v1 /\ u2 = v2 => z = x
                 /\ x.rs1 = u1 /\ x.rs2 = u2 /\ z.rs1 = v1 /\ z.rs2 = v2
      <4>. HIDE DEF x, z
      <4>1. QED BY <3>1
    <3>2. QED BY <3>1 DEF Operands
  <2>3. \A r \in Reads(i) :
          Supplies(exMem, r) =>
            /\ The(exMem).result = Seen(2).regs[r]
            /\ memWb = {} /\ i.rs1 # i.rs2
            /\ \A q : Supplies(exMem, q) => q = r
    <3>1. SUFFICES ASSUME NEW r \in Reads(i), Supplies(exMem, r)
                   PROVE  /\ The(exMem).result = Seen(2).regs[r]
                          /\ memWb = {} /\ i.rs1 # i.rs2
                          /\ \A q : Supplies(exMem, q) => q = r
      OBVIOUS
    <3>2. PICK j \in InFlight(4) : j.rd # 0 /\ j.rd = r
      BY <3>1 DEF Supplies, Aligned
    <3>. DEFINE y == [instr |-> j, result |-> Computed(Seen(4), j, pc - 4), rs2 |-> Seen(4).regs[j.rs2]]
    <3>3. exMem = {y}
      <4>1. InFlight(4) = {j}
        BY <1>1, InFlightFacts
      <4>2. QED BY <4>1 DEF Aligned
    <3>4. y.instr = j /\ y.result = Computed(Seen(4), j, pc - 4)
      OBVIOUS
    <3>. HIDE DEF y
    <3>5. The(exMem) = y
      BY <3>3 DEF The
    <3>6. /\ i.rs1 # i.rs2 /\ Seen(2).regs[r] = Computed(Seen(4), j, pc - 4)
          /\ InFlight(9 - 4) = {}
      BY <1>1, <1>3, <3>2, Supplied
    <3>7. InFlight(5) = {}
      <4>1. 9 - 4 = 5
        OBVIOUS
      <4>2. QED BY <3>6, <4>1
    <3>8. memWb = {}
      BY <3>7 DEF Aligned
    <3>9. \A q : Supplies(exMem, q) => q = r
      BY <3>2, <3>3, <3>4 DEF Supplies
    <3>10. QED BY <3>4, <3>5, <3>6, <3>8, <3>9
  <2>4. \A r \in Reads(i) :
          Supplies(memWb, r) =>
            /\ The(memWb).result = Seen(2).regs[r]
            /\ i.rs1 # i.rs2
            /\ \A q : Supplies(memWb, q) => q = r
    <3>1. SUFFICES ASSUME NEW r \in Reads(i), Supplies(memWb, r)
                   PROVE  /\ The(memWb).result = Seen(2).regs[r]
                          /\ i.rs1 # i.rs2
                          /\ \A q : Supplies(memWb, q) => q = r
      OBVIOUS
    <3>2. PICK j \in InFlight(5) : j.rd # 0 /\ j.rd = r
      BY <3>1 DEF Supplies, Aligned
    <3>. DEFINE y == [instr |-> j, result |-> Outcome(Seen(5), j, pc - 5)]
    <3>3. memWb = {y}
      <4>1. InFlight(5) = {j}
        BY <1>1, InFlightFacts
      <4>2. QED BY <4>1 DEF Aligned
    <3>4. y.instr = j /\ y.result = Outcome(Seen(5), j, pc - 5)
      OBVIOUS
    <3>. HIDE DEF y
    <3>5. The(memWb) = y
      BY <3>3 DEF The
    <3>6. i.rs1 # i.rs2 /\ Seen(2).regs[r] = Outcome(Seen(5), j, pc - 5)
      BY <1>1, <1>3, <3>2, Supplied
    <3>7. \A q : Supplies(memWb, q) => q = r
      BY <3>2, <3>3, <3>4 DEF Supplies
    <3>8. QED BY <3>4, <3>5, <3>6, <3>7
  <2>5. ASSUME NEW r \in Reads(i), ~Supplies(exMem, r), ~Supplies(memWb, r)
        PROVE  Seen(2).regs[r] = Seen(6).regs[r]
    <3>1. ASSUME NEW j \in InFlight(4), j.rd # 0, j.rd = r PROVE FALSE
      <4>. DEFINE y == [instr |-> j, result |-> Computed(Seen(4), j, pc - 4), rs2 |-> Seen(4).regs[j.rs2]]
      <4>1. y \in exMem /\ y.instr = j
        BY DEF Aligned
      <4>. HIDE DEF y
      <4>2. QED BY <2>5, <3>1, <4>1 DEF Supplies
    <3>2. ASSUME NEW j \in InFlight(5), j.rd # 0, j.rd = r PROVE FALSE
      <4>. DEFINE y == [instr |-> j, result |-> Outcome(Seen(5), j, pc - 5)]
      <4>1. y \in memWb /\ y.instr = j
        BY DEF Aligned
      <4>. HIDE DEF y
      <4>2. QED BY <2>5, <3>2, <4>1 DEF Supplies
    <3>3. QED BY <1>1, <1>3, <3>1, <3>2, NotSupplied
  <2>6. ~Supplies({}, i.rs1) /\ ~Supplies({}, i.rs2)
    BY DEF Supplies
  <2>. HIDE DEF x, z
  <2>7. FullyForwarded(x) = z
    <3>1. CASE Supplies(exMem, i.rs1)
      BY <1>1, <2>1, <2>2, <2>3, <2>5, <2>6, <3>1 DEF FullyForwarded
    <3>2. CASE ~Supplies(exMem, i.rs1) /\ Supplies(exMem, i.rs2)
      BY <1>1, <2>1, <2>2, <2>3, <2>5, <2>6, <3>2 DEF FullyForwarded
    <3>3. CASE ~Supplies(exMem, i.rs1) /\ ~Supplies(exMem, i.rs2) /\ Supplies(memWb, i.rs1)
      BY <1>1, <2>1, <2>2, <2>4, <2>5, <3>3 DEF FullyForwarded
    <3>4. CASE ~Supplies(exMem, i.rs1) /\ ~Supplies(exMem, i.rs2) /\ ~Supplies(memWb, i.rs1)
               /\ Supplies(memWb, i.rs2)
      BY <1>1, <2>1, <2>2, <2>4, <2>5, <3>4 DEF FullyForwarded
    <3>5. CASE ~Supplies(exMem, i.rs1) /\ ~Supplies(exMem, i.rs2) /\ ~Supplies(memWb, i.rs1)
               /\ ~Supplies(memWb, i.rs2)
      BY <1>1, <2>1, <2>2, <2>5, <3>5 DEF FullyForwarded
    <3>6. QED BY <3>1, <3>2, <3>3, <3>4, <3>5
  <2>8. QED BY <1>3, <2>7 DEF Forwarded, x, z
<1>4. QED BY <1>2, <1>3

\* The single pipe takes every opcode, as default_alu() builds it.
OnePipe == Len(Pipes) = 1 /\ \A op \in Opcode : PipeSupports(1, op)

\* A tick of the ALU: what it held leaves it or, if it was empty, it takes what ID/EX
\* holds, with the operands forwarded to it.
LEMMA ExecuteWithOnePipe ==
  ASSUME OnePipe, TypeOK, AluHoldsOne, ExecuteStage
  PROVE  /\ alu.inProgress = <<>> =>
              /\ exMem' = {}
              /\ {alu'.inProgress[n].instr : n \in DOMAIN alu'.inProgress} = {Forwarded(x) : x \in idEx}
         /\ alu.inProgress # <<>> =>
              /\ exMem' = {ExecutedAs(alu.inProgress[1].instr)}
              /\ DOMAIN alu.inProgress = {1}
              /\ alu'.inProgress = <<>>
<1>1. PipeIndex = {1} /\ alu \in AluOf(Decoded) /\ idEx \in Option(Decoded)
  BY DEF OnePipe, PipeIndex, TypeOK
<1>2. CASE alu.inProgress # <<>>
  <2>1. /\ DOMAIN alu.inProgress = {1} /\ Len(alu.inProgress) = 1
        /\ alu.inProgress[1].age = 1 /\ alu.usage[1]
    BY <1>1, <1>2, AluOfOne
  <2>2. \A op : FreePipes(alu, op) = {}
    BY <1>1, <2>1 DEF FreePipes
  <2>3. Offered = alu
    BY <2>2, OfferedFacts
  <2>4. SomeFinishes(alu)
    BY <2>1 DEF SomeFinishes, Eligible, Latency
  <2>5. alu' = TickFinish(alu, 1) /\ exMem' = {ExecutedAs(alu.inProgress[1].instr)}
    BY <2>1, <2>3, <2>4 DEF ExecuteStage
  <2>6. alu' \in AluOf(Decoded) /\ Len(alu'.inProgress) = 0
    <3>1. 1 \in 1 .. Len(alu.inProgress) /\ alu \in AluOf(Decoded)
      BY <1>1, <2>1
    <3>2. TickFinish(alu, 1) \in AluOf(Decoded)
          /\ Len(TickFinish(alu, 1).inProgress) = Len(alu.inProgress) - 1
      BY <3>1, TickFinishFacts
    <3>3. QED BY <2>1, <2>5, <3>2
  <2>7. alu'.inProgress = <<>>
    BY <2>6, EmptySeq DEF AluOf
  <2>8. QED BY <1>2, <2>1, <2>5, <2>7
<1>3. CASE alu.inProgress = <<>>
  <2>1. ~alu.usage[1] /\ Len(alu.inProgress) = 0
    BY <1>1, <1>3 DEF AluHoldsOne
  <2>2. CASE idEx = {}
    <3>1. Offered = alu
      BY <2>2 DEF Offered
    <3>2. ~SomeFinishes(alu)
      BY <1>3 DEF SomeFinishes
    <3>3. alu' = TickIdle(alu) /\ exMem' = {}
      BY <1>3, <3>1, <3>2 DEF ExecuteStage
    <3>4. alu' \in AluOf(Decoded) /\ Len(alu'.inProgress) = 0
      BY <1>1, <2>1, <3>3, TickIdleFacts
    <3>5. alu'.inProgress = <<>>
      BY <3>4, EmptySeq DEF AluOf
    <3>6. QED BY <1>3, <2>2, <3>3, <3>5
  <2>3. ASSUME NEW x \in idEx
        PROVE  /\ exMem' = {}
               /\ {alu'.inProgress[n].instr : n \in DOMAIN alu'.inProgress} = {Forwarded(x)}
               /\ idEx = {x}
    <3>1. idEx = {x} /\ The(idEx) = x /\ x \in Decoded
      BY <1>1, Unwrapped
    <3>2. x.op \in Opcode /\ 1 \in PipeIndex
      BY <1>1, <3>1 DEF Decoded
    <3>3. FreePipes(alu, x.op) # {}
      <4>1. 1 \in FreePipes(alu, x.op)
        BY <2>1, <3>2 DEF FreePipes, OnePipe
      <4>2. QED BY <4>1
    <3>4. PICK y \in Decoded : y = Forwarded(x) /\ y.op = x.op
      BY <3>1, ForwardedFacts
    <3>5. Offered = Enqueued(alu, y)
      BY <3>1, <3>3, <3>4 DEF Offered, Refused
    <3>6. FreePipes(alu, y.op) # {}
      BY <3>3, <3>4
    <3>7. PICK b \in AluOf(Decoded) : b = Enqueued(alu, y)
      BY <1>1, <3>4, <3>6, EnqueuedFacts
    <3>8. Len(b.inProgress) = 1 /\ b.inProgress[1].age = 0 /\ b.inProgress[1].instr = y
      <4>1. /\ Len(Enqueued(alu, y).inProgress) = Len(alu.inProgress) + 1
            /\ Enqueued(alu, y).inProgress[Len(alu.inProgress) + 1].instr = y
            /\ Enqueued(alu, y).inProgress[Len(alu.inProgress) + 1].age = 0
        BY <1>1, <3>4, <3>6, EnqueuedFacts, SMTT(60)
      <4>2. QED BY <2>1, <3>7, <4>1
    <3>9. DOMAIN b.inProgress = {1}
      BY <3>8, AluShape
    <3>10. ~SomeFinishes(b) /\ \A n : ~Finishes(b, n)
      BY <3>8, <3>9 DEF SomeFinishes, Finishes, Eligible
    <3>11. alu' = TickIdle(b) /\ exMem' = {}
      BY <3>5, <3>7, <3>10 DEF ExecuteStage
    <3>12. /\ alu' \in AluOf(Decoded) /\ Len(alu'.inProgress) = 1
           /\ alu'.inProgress[1] = Aged(b.inProgress[1])
      <4>1. /\ TickIdle(b) \in AluOf(Decoded)
            /\ Len(TickIdle(b).inProgress) = Len(b.inProgress)
            /\ \A j \in 1 .. Len(b.inProgress) : TickIdle(b).inProgress[j] = Aged(b.inProgress[j])
        BY TickIdleFacts
      <4>2. QED BY <3>8, <3>11, <4>1
    <3>13. DOMAIN alu'.inProgress = {1}
      BY <3>12, AluShape
    <3>14. alu'.inProgress[1].instr = y
      <4>1. \A o : Aged(o).instr = o.instr
        BY DEF Aged
      <4>2. QED BY <3>8, <3>12, <4>1
    <3>15. QED BY <3>1, <3>4, <3>11, <3>13, <3>14
  <2>4. CASE idEx # {}
    <3>1. PICK x : x \in idEx
      BY <2>4
    <3>2. {Forwarded(z) : z \in idEx} = {Forwarded(x)}
      BY <2>3, <3>1
    <3>3. QED BY <1>3, <2>3, <3>1, <3>2
  <2>5. QED BY <2>2, <2>4
<1>4. QED BY <1>2, <1>3

-----------------------------------------------------------------------------
(* A tick keeps the alignment *)

LEMMA SequentialStays == ASSUME image' = image PROVE Sequential' = Sequential
BY DEF Sequential, After, Computed

\* A tick takes everything a word further behind the program counter.
LEMMA Shifted ==
  ASSUME NEW d \in Nat, pc \in Nat, pc' = pc + 1, image' = image
  PROVE  InFlight(d + 1)' = InFlight(d) /\ Seen(d + 1)' = Seen(d)
<1>1. (d + 1 <= pc + 1 <=> d <= pc) /\ (pc + 1) - (d + 1) = pc - d
  OBVIOUS
<1>2. InFlight(d + 1)' = InFlight(d)
  BY <1>1 DEF InFlight
<1>3. Seen(d + 1)' = Seen(d)
  BY <1>1, SequentialStays DEF Seen
<1>4. QED BY <1>2, <1>3

LEMMA SpacedBefore ==
  ASSUME pc \in Nat, pc' = pc + 1, image' = image, policy' = policy, Spaced'
  PROVE  Spaced /\ \A n \in 0 .. pc : Sequential[n].mem[pc] = image[pc]
<1>1. WellSpaced(image, policy.forwarding) /\ (policy.hazard = "StallOnLoad" => NeverStalls(image))
  BY DEF Spaced, WellSpaced, NeverStalls
<1>2. \A a \in 0 .. pc : \A n \in 0 .. a : Sequential[n].mem[a] = image[a]
  <2>1. (pc + 1) - 1 = pc
    OBVIOUS
  <2>2. QED BY <2>1, SequentialStays DEF Spaced, RunsItsImage
<1>3. QED BY <1>1, <1>2 DEF Spaced, RunsItsImage

LEMMA SpacedNeverStalls ==
  ASSUME TypeOK, ImageTyped, Aligned, Spaced
  PROVE  ~Stalls
<1>1. SUFFICES ASSUME policy.hazard = "StallOnLoad", NEW f \in ifId, NEW x \in idEx,
                      IsLoad(x.op), x.instr.rd # 0, x.instr.rd \in WordRegs[f.word]
               PROVE  FALSE
  BY DEF Stalls, LoadUse
<1>2. pc \in Nat /\ pc <= MemSize
  BY DEF TypeOK, Word, Aligned
<1>3. pc # 0 /\ f = [pc |-> pc - 1, word |-> image[pc - 1]]
  BY DEF Aligned
<1>4. PICK i \in InFlight(2) : x = Operands(Seen(6), i, pc - 2)
  BY DEF Aligned
<1>5. x.op = i.op /\ x.instr = i /\ f.word = image[pc - 1]
  BY <1>3, <1>4 DEF Operands
<1>6. pc - 2 \in Addr /\ i \in Decode[image[pc - 2]]
  BY <1>2, InFlightFacts
<1>7. pc - 1 \in Addr /\ pc - 1 = (pc - 2) + 1
  BY <1>2, <1>6, FiveAssumption DEF Addr
<1>8. NeverStalls(image)
  BY <1>1 DEF Spaced
<1>9. i.rd \notin WordRegs[image[pc - 1]]
  BY <1>1, <1>5, <1>6, <1>7, <1>8 DEF NeverStalls
<1>10. QED BY <1>1, <1>5, <1>9

LEMMA AlignedFetch ==
  ASSUME TypeOK, ImageTyped, Aligned, ~Stalls, ~FetchFaults, FetchStage, image' = image,
         \A n \in 0 .. pc : Sequential[n].mem[pc] = image[pc]
  PROVE  /\ pc \in Nat /\ pc' = pc + 1 /\ pc' <= MemSize
         /\ ifId' = IF pc' = 0 THEN {} ELSE {[pc |-> pc' - 1, word |-> image'[pc' - 1]]}
<1>1. pc \in Addr /\ pc \in Nat /\ pc + 1 <= MemSize
  BY FiveAssumption DEF FetchFaults, Addr
<1>2. ifId' = {[pc |-> pc, word |-> mem[pc]]} /\ pc' = pc + 1
  BY DEF FetchStage
<1>3. PICK n \in 0 .. pc : n = IF 4 <= pc THEN pc - 4 ELSE 0
  BY <1>1
<1>4. mem = Sequential[n].mem
  BY <1>3 DEF Aligned, Seen
<1>5. mem[pc] = image[pc]
  BY <1>4
<1>6. pc' # 0 /\ pc' - 1 = pc
  BY <1>1, <1>2
<1>7. QED BY <1>1, <1>2, <1>5, <1>6

LEMMA AlignedDecode ==
  ASSUME TypeOK, ImageTyped, Aligned, ~Stalls, DecodeStage, pc' = pc + 1, image' = image
  PROVE  idEx' = {Operands(Seen(6), i, pc - 2) : i \in InFlight(2)}'
<1>1. pc \in Nat
  BY DEF TypeOK, Word
<1>2. InFlight(2)' = InFlight(1) /\ Seen(6)' = Seen(5) /\ (pc - 2)' = pc - 1
  <2>1. InFlight(1 + 1)' = InFlight(1) /\ Seen(5 + 1)' = Seen(5)
    BY <1>1, Shifted
  <2>2. 1 + 1 = 2 /\ 5 + 1 = 6 /\ (pc + 1) - 2 = pc - 1
    BY <1>1
  <2>3. QED BY <2>1, <2>2
<1>3. idEx' = {Operands(Seen(5), i, pc - 1) : i \in InFlight(1)}
  <2>1. CASE pc = 0
    <3>1. ifId = {} /\ InFlight(1) = {}
      BY <2>1 DEF Aligned, InFlight
    <3>2. QED BY <3>1 DEF DecodeStage
  <2>2. CASE pc # 0
    <3>. DEFINE f == [pc |-> pc - 1, word |-> image[pc - 1]]
    <3>1. ifId = {f} /\ InFlight(1) = Decode[f.word] /\ f.pc = pc - 1
      BY <1>1, <2>2 DEF Aligned, InFlight
    <3>. HIDE DEF f
    <3>2. idEx' = DecodedAt(f)
      <4>1. UNION {DecodedAt(g) : g \in {f}} = DecodedAt(f)
        OBVIOUS
      <4>2. QED BY <3>1, <4>1 DEF DecodeStage
    <3>3. regs = Seen(5).regs
      BY DEF Aligned
    <3>4. QED BY <3>1, <3>2, <3>3 DEF DecodedAt, Operands
  <2>3. QED BY <2>1, <2>2
<1>4. QED BY <1>2, <1>3 DEF Operands

LEMMA AlignedExecute ==
  ASSUME OnePipe, TypeOK, AluHoldsOne, ImageTyped, Aligned, WellSpaced(image, policy.forwarding),
         ExecuteStage, pc' = pc + 1, image' = image
  PROVE  /\ {alu'.inProgress[n].instr : n \in DOMAIN alu'.inProgress}
               = {Operands(Seen(3), i, pc - 3) : i \in InFlight(3)}'
         /\ exMem' = {[instr |-> i, result |-> Computed(Seen(4), i, pc - 4),
                        rs2 |-> Seen(4).regs[i.rs2]] : i \in InFlight(4)}'
<1>1. pc \in Nat /\ pc <= MemSize
  BY DEF TypeOK, Word, Aligned
<1>2. /\ InFlight(3)' = InFlight(2) /\ Seen(3)' = Seen(2) /\ (pc - 3)' = pc - 2
      /\ InFlight(4)' = InFlight(3) /\ Seen(4)' = Seen(3) /\ (pc - 4)' = pc - 3
  <2>1. /\ InFlight(2 + 1)' = InFlight(2) /\ Seen(2 + 1)' = Seen(2)
        /\ InFlight(3 + 1)' = InFlight(3) /\ Seen(3 + 1)' = Seen(3)
    BY <1>1, Shifted
  <2>2. 2 + 1 = 3 /\ 3 + 1 = 4 /\ (pc + 1) - 3 = pc - 2 /\ (pc + 1) - 4 = pc - 3
    BY <1>1
  <2>3. QED BY <2>1, <2>2
<1>. DEFINE InAlu == {alu'.inProgress[n].instr : n \in DOMAIN alu'.inProgress}
            Out(i) == [instr |-> i, result |-> Computed(Seen(3), i, pc - 3), rs2 |-> Seen(3).regs[i.rs2]]
<1>3. /\ InAlu = {Operands(Seen(2), i, pc - 2) : i \in InFlight(2)}
      /\ exMem' = {Out(i) : i \in InFlight(3)}
  <2>1. CASE alu.inProgress = <<>>
    <3>1. InFlight(3) = {}
      BY <2>1 DEF Aligned
    <3>2. exMem' = {} /\ InAlu = {Forwarded(x) : x \in idEx}
      BY <2>1, ExecuteWithOnePipe
    <3>3. \A i \in InFlight(2) :
            Forwarded(Operands(Seen(6), i, pc - 2)) = Operands(Seen(2), i, pc - 2)
      BY <1>1, ForwardedRight
    <3>4. idEx = {Operands(Seen(6), i, pc - 2) : i \in InFlight(2)}
      BY DEF Aligned
    <3>. HIDE DEF InAlu
    <3>5. InAlu = {Operands(Seen(2), i, pc - 2) : i \in InFlight(2)}
      BY <3>2, <3>3, <3>4
    <3>6. QED BY <3>1, <3>2, <3>5
  <2>2. CASE alu.inProgress # <<>>
    <3>1. /\ exMem' = {ExecutedAs(alu.inProgress[1].instr)} /\ DOMAIN alu.inProgress = {1}
          /\ alu'.inProgress = <<>>
      BY <2>2, ExecuteWithOnePipe
    <3>2. {alu.inProgress[1].instr} = {Operands(Seen(3), i, pc - 3) : i \in InFlight(3)}
      BY <3>1 DEF Aligned
    <3>3. PICK i \in InFlight(3) : alu.inProgress[1].instr = Operands(Seen(3), i, pc - 3)
      BY <3>2
    <3>4. InFlight(3) = {i}
      BY <1>1, InFlightFacts
    <3>5. InFlight(2) = {}
      <4>1. ASSUME NEW j \in InFlight(2) PROVE FALSE
        <5>1. 3 - 2 > 1
          BY <1>1, SpacedInFlight
        <5>2. QED BY <5>1
      <4>2. QED BY <4>1
    <3>6. ExecutedAs(alu.inProgress[1].instr) = Out(i)
      BY <3>3 DEF ExecutedAs, Operands, Computed
    <3>7. InAlu = {}
      <4>1. DOMAIN alu'.inProgress = {}
        BY <3>1
      <4>2. QED BY <4>1
    <3>. HIDE DEF InAlu, Out
    <3>8. QED BY <3>1, <3>4, <3>5, <3>6, <3>7
  <2>3. QED BY <2>1, <2>2
<1>4. QED BY <1>2, <1>3 DEF Operands, Computed

LEMMA AlignedMem ==
  ASSUME TypeOK, ImageTyped, Aligned, MemStage, pc' = pc + 1, image' = image
  PROVE  /\ memWb' = {[instr |-> i, result |-> Outcome(Seen(5), i, pc - 5)] : i \in InFlight(5)}'
         /\ mem' = Seen(4).mem'
<1>1. pc \in Nat /\ pc <= MemSize
  BY DEF TypeOK, Word, Aligned
<1>2. /\ InFlight(5)' = InFlight(4) /\ Seen(5)' = Seen(4) /\ (pc - 5)' = pc - 4
      /\ Seen(4)' = Seen(3)
  <2>1. /\ InFlight(4 + 1)' = InFlight(4) /\ Seen(4 + 1)' = Seen(4) /\ Seen(3 + 1)' = Seen(3)
    BY <1>1, Shifted
  <2>2. 4 + 1 = 5 /\ 3 + 1 = 4 /\ (pc + 1) - 5 = pc - 4
    BY <1>1
  <2>3. QED BY <2>1, <2>2
<1>3. mem = Seen(4).mem
  BY DEF Aligned
<1>4. /\ memWb' = {[instr |-> i, result |-> Outcome(Seen(4), i, pc - 4)] : i \in InFlight(4)}
      /\ mem' = Seen(3).mem
  <2>1. CASE InFlight(4) = {}
    <3>1. exMem = {}
      BY <2>1 DEF Aligned
    <3>2. Seen(4 - 1) = Seen(4) /\ 4 - 1 = 3
      BY <1>1, <2>1, SeenAfter
    <3>3. QED BY <1>3, <2>1, <3>1, <3>2 DEF MemStage
  <2>2. ASSUME NEW i \in InFlight(4)
        PROVE  /\ memWb' = {[instr |-> i, result |-> Outcome(Seen(4), i, pc - 4)]}
               /\ mem' = Seen(3).mem
               /\ InFlight(4) = {i}
    <3>. DEFINE y == [instr |-> i, result |-> Computed(Seen(4), i, pc - 4), rs2 |-> Seen(4).regs[i.rs2]]
    <3>1. InFlight(4) = {i}
      BY <1>1, InFlightFacts
    <3>2. exMem = {y}
      BY <3>1 DEF Aligned
    <3>3. y.instr = i /\ y.result = Computed(Seen(4), i, pc - 4) /\ y.rs2 = Seen(4).regs[i.rs2]
      OBVIOUS
    <3>. HIDE DEF y
    <3>4. The(exMem) = y
      BY <3>2 DEF The
    <3>5. MemResult(y) = Outcome(Seen(4), i, pc - 4)
      BY <1>3, <3>3 DEF MemResult, Outcome
    <3>6. memWb' = {[instr |-> y.instr, result |-> MemResult(y)]}
      BY <3>2 DEF MemStage
    <3>7. Seen(4 - 1) = After(Seen(4), i, pc - 4) /\ 4 - 1 = 3
      BY <1>1, SeenAfter
    <3>8. mem' = IF IsStore(i.op) THEN [mem EXCEPT ![Computed(Seen(4), i, pc - 4)] = Seen(4).regs[i.rs2]]
                                  ELSE mem
      BY <3>2, <3>3, <3>4 DEF MemStage
    <3>9. mem' = Seen(3).mem
      BY <1>3, <3>7, <3>8, MemoryAfter
    <3>10. QED BY <3>1, <3>3, <3>5, <3>6, <3>9
  <2>3. CASE InFlight(4) # {}
    <3>1. PICK i : i \in InFlight(4)
      BY <2>3
    <3>2. QED BY <2>2, <3>1
  <2>4. QED BY <2>1, <2>3
<1>5. QED BY <1>2, <1>4 DEF Outcome, Computed

LEMMA AlignedWriteBack ==
  ASSUME TypeOK, ImageTyped, Aligned, WriteBackStage, pc' = pc + 1, image' = image
  PROVE  regs' = Seen(5).regs'
<1>1. pc \in Nat /\ pc <= MemSize
  BY DEF TypeOK, Word, Aligned
<1>2. Seen(5)' = Seen(4)
  <2>1. Seen(4 + 1)' = Seen(4) /\ 4 + 1 = 5
    BY <1>1, Shifted
  <2>2. QED BY <2>1
<1>3. regs = Seen(5).regs
  BY DEF Aligned
<1>4. Seen(4).regs = [r \in Reg |-> Seen(4).regs[r]]
  <2>1. PICK n \in 0 .. MemSize : n = IF 4 <= pc THEN pc - 4 ELSE 0
    BY <1>1, FiveAssumption
  <2>2. QED BY <2>1, SequentialDomains DEF Seen, ImageTyped
<1>5. ASSUME NEW r \in Reg
      PROVE  Seen(4).regs[r] =
               IF r # 0 /\ \E w \in memWb : WritesRd(FormatOf(w.instr.op)) /\ w.instr.rd = r
                 THEN The(memWb).result ELSE regs[r]
  <2>1. 5 - 1 = 4
    OBVIOUS
  <2>2. CASE InFlight(5) = {}
    <3>1. memWb = {}
      BY <2>2 DEF Aligned
    <3>2. Seen(4).regs[r] = Seen(5).regs[r]
      BY <1>1, <2>1, <2>2, SeenAfter
    <3>3. QED BY <1>3, <3>1, <3>2
  <2>3. ASSUME NEW i \in InFlight(5)
        PROVE  Seen(4).regs[r] =
                 IF r # 0 /\ \E w \in memWb : WritesRd(FormatOf(w.instr.op)) /\ w.instr.rd = r
                   THEN The(memWb).result ELSE regs[r]
    <3>. DEFINE y == [instr |-> i, result |-> Outcome(Seen(5), i, pc - 5)]
    <3>1. InFlight(5) = {i}
      BY <1>1, InFlightFacts
    <3>2. memWb = {y}
      BY <3>1 DEF Aligned
    <3>3. y.instr = i /\ y.result = Outcome(Seen(5), i, pc - 5)
      OBVIOUS
    <3>. HIDE DEF y
    <3>4. The(memWb) = y
      BY <3>2 DEF The
    <3>5. (r # 0 /\ \E w \in memWb : WritesRd(FormatOf(w.instr.op)) /\ w.instr.rd = r) <=> Writes(i, r)
      BY <3>2, <3>3 DEF Writes
    <3>6. Writes(i, r) => Seen(4).regs[r] = Outcome(Seen(5), i, pc - 5)
      BY <1>1, <2>1, SeenAfter
    <3>7. ~Writes(i, r) => Seen(4).regs[r] = Seen(5).regs[r]
      BY <1>1, <2>1, <3>1, SeenAfter
    <3>8. QED BY <1>3, <3>3, <3>4, <3>5, <3>6, <3>7
  <2>4. QED BY <2>2, <2>3
<1>6. regs' = [r \in Reg |-> Seen(4).regs[r]]
  BY <1>5 DEF WriteBackStage
<1>7. regs' = Seen(4).regs
  BY <1>4, <1>6
<1>8. QED BY <1>2, <1>7

DriverInv == OneInv /\ ImageTyped /\ (Spaced => Aligned)

LEMMA DriverInitHolds == ASSUME OnePipe, DriverInit PROVE DriverInv
<1>1. Init /\ image = mem
  BY DEF DriverInit
<1>2. OneInv
  <2>1. alu.inProgress = <<>> /\ (\A p \in PipeIndex : ~alu.usage[p]) /\ idEx = {}
    BY <1>1 DEF Init, IdleAlu
  <2>2. QED BY <1>1, <2>1, InitTyped DEF OneInv, AluHoldsOne, LoadUseSeparated
<1>3. ImageTyped
  BY <1>1, <1>2 DEF OneInv, TypeOK, ImageTyped
<1>4. Aligned
  <2>1. pc = 0 /\ ifId = {} /\ idEx = {} /\ exMem = {} /\ memWb = {} /\ alu.inProgress = <<>>
        /\ regs = [r \in Reg |-> 0]
    BY <1>1 DEF Init, IdleAlu
  <2>2. InFlight(2) = {} /\ InFlight(3) = {} /\ InFlight(4) = {} /\ InFlight(5) = {}
    BY <2>1 DEF InFlight
  <2>3. Seen(4) = Start /\ Seen(5) = Start
    BY <2>1, SequentialSteps DEF Seen
  <2>4. {alu.inProgress[n].instr : n \in DOMAIN alu.inProgress} = {}
    <3>1. DOMAIN alu.inProgress = {}
      BY <2>1
    <3>2. QED BY <3>1
  <2>5. regs = Seen(5).regs /\ mem = Seen(4).mem
    BY <1>1, <2>1, <2>3 DEF Start
  <2>6. QED BY <2>1, <2>2, <2>4, <2>5, FiveAssumption DEF Aligned
<1>5. QED BY <1>2, <1>3, <1>4 DEF DriverInv

LEMMA TickAligned ==
  ASSUME OnePipe, DriverInv, Tick, image' = image, Spaced'
  PROVE  Aligned'
<1>1. TypeOK /\ AluHoldsOne /\ ImageTyped /\ pc \in Nat /\ policy' = policy
  BY DEF DriverInv, OneInv, TypeOK, Word, Tick
<1>2. CASE pc' = pc + 1
  <2>1. Spaced /\ \A n \in 0 .. pc : Sequential[n].mem[pc] = image[pc]
    BY <1>1, <1>2, SpacedBefore
  <2>2. Aligned /\ WellSpaced(image, policy.forwarding)
    BY <2>1 DEF DriverInv, Spaced
  <2>3. ~Stalls
    BY <1>1, <2>1, <2>2, SpacedNeverStalls
  <2>4. /\ pc' <= MemSize
        /\ ifId' = IF pc' = 0 THEN {} ELSE {[pc |-> pc' - 1, word |-> image'[pc' - 1]]}
    BY <1>1, <2>1, <2>2, <2>3, AlignedFetch DEF Tick
  <2>5. idEx' = {Operands(Seen(6), i, pc - 2) : i \in InFlight(2)}'
    BY <1>1, <1>2, <2>2, <2>3, AlignedDecode DEF Tick
  <2>6. /\ {alu'.inProgress[n].instr : n \in DOMAIN alu'.inProgress}
              = {Operands(Seen(3), i, pc - 3) : i \in InFlight(3)}'
        /\ exMem' = {[instr |-> i, result |-> Computed(Seen(4), i, pc - 4),
                       rs2 |-> Seen(4).regs[i.rs2]] : i \in InFlight(4)}'
    BY <1>1, <1>2, <2>2, AlignedExecute DEF Tick
  <2>7. /\ memWb' = {[instr |-> i, result |-> Outcome(Seen(5), i, pc - 5)] : i \in InFlight(5)}'
        /\ mem' = Seen(4).mem'
    BY <1>1, <1>2, <2>2, AlignedMem DEF Tick
  <2>8. regs' = Seen(5).regs'
    BY <1>1, <1>2, <2>2, AlignedWriteBack DEF Tick
  <2>9. QED BY <2>4, <2>5, <2>6, <2>7, <2>8 DEF Aligned
<1>3. CASE pc' = pc /\ Stalls
  <2>1. Spaced
    BY <1>1, <1>3, SequentialStays DEF Spaced, WellSpaced, NeverStalls, RunsItsImage
  <2>2. Aligned
    BY <2>1 DEF DriverInv
  <2>3. QED BY <1>1, <1>3, <2>1, <2>2, SpacedNeverStalls
<1>4. QED BY <1>2, <1>3 DEF Tick, FetchStage

LEMMA DriverAlways == ASSUME OnePipe PROVE DriverSpec => []DriverInv
<1>1. DriverInit => DriverInv
  BY DriverInitHolds
<1>2. DriverInv /\ [DriverNext]_driverVars => DriverInv'
  <2>. SUFFICES ASSUME DriverInv, [DriverNext]_driverVars PROVE DriverInv'
    OBVIOUS
  <2>1. [Next]_vars /\ image' = image
    BY DEF DriverNext, DriverTick, Finished, driverVars
  <2>2. OneInv'
    BY <2>1, OneStep DEF OnePipe, DriverInv
  <2>3. ImageTyped'
    BY <2>1 DEF DriverInv, ImageTyped
  <2>4. CASE Tick
    BY <2>1, <2>2, <2>3, <2>4, TickAligned DEF DriverInv
  <2>5. CASE FetchFault \/ MemFault \/ Panicked \/ UNCHANGED vars
    <3>1. UNCHANGED <<mem, regs, pc, ifId, idEx, exMem, memWb, alu, policy>>
      BY <2>5 DEF FetchFault, MemFault, Panicked, vars
    <3>2. (Spaced => Aligned)' <=> (Spaced => Aligned)
      BY <2>1, <3>1, SequentialStays
         DEF Spaced, WellSpaced, NeverStalls, RunsItsImage, Aligned, InFlight, Seen, Operands,
             Computed, Outcome
    <3>3. QED BY <2>2, <2>3, <3>2 DEF DriverInv
  <2>6. QED BY <2>1, <2>4, <2>5 DEF Next
<1>3. QED BY <1>1, <1>2, PTL DEF DriverSpec

\* A program whose dependent instructions are far enough apart, and that does not
\* overwrite the words it is about to execute, leaves in the registers and in memory
\* what executing its words one after the other does: whenever the pipeline has
\* drained, for every program, policy, memory and word size.
THEOREM SpacedProgramsAreSequential ==
  ASSUME OnePipe PROVE DriverSpec => []WellSpacedIsSequential
<1>1. DriverInv => WellSpacedIsSequential
  <2>1. SUFFICES ASSUME DriverInv, Spaced, Drained
                 PROVE  regs = Sequential[pc].regs /\ mem = Sequential[pc].mem
    BY DEF WellSpacedIsSequential, MatchesSequential
  <2>2. Aligned /\ ImageTyped /\ pc \in Nat /\ pc <= MemSize
    <3>1. Aligned /\ ImageTyped /\ pc \in Nat
      BY <2>1 DEF DriverInv, OneInv, TypeOK, Word
    <3>2. QED BY <3>1 DEF Aligned
  <2>3. InFlight(1) = {}
    <3>1. CASE pc = 0
      BY <3>1 DEF InFlight
    <3>2. CASE pc # 0
      <4>1. [pc |-> pc - 1, word |-> image[pc - 1]] \in ifId /\ 1 <= pc
        BY <2>2, <3>2 DEF Aligned
      <4>2. Decode[image[pc - 1]] = {}
        BY <2>1, <4>1 DEF Drained
      <4>3. QED BY <4>1, <4>2 DEF InFlight
    <3>3. QED BY <3>1, <3>2
  <2>4. InFlight(2) = {} /\ InFlight(3) = {} /\ InFlight(4) = {} /\ InFlight(5) = {}
    <3>1. idEx = {} /\ exMem = {} /\ memWb = {}
      BY <2>1 DEF Drained
    <3>2. {alu.inProgress[n].instr : n \in DOMAIN alu.inProgress} = {}
      <4>1. DOMAIN alu.inProgress = {}
        BY <2>1 DEF Drained
      <4>2. QED BY <4>1
    <3>3. QED BY <2>2, <3>1, <3>2 DEF Aligned
  <2>5. Seen(1 - 1) = Seen(1) /\ Seen(2 - 1) = Seen(2) /\ Seen(3 - 1) = Seen(3)
        /\ Seen(4 - 1) = Seen(4) /\ Seen(5 - 1) = Seen(5)
    BY <2>2, <2>3, <2>4, SeenAfter
  <2>6. Seen(0) = Seen(4) /\ Seen(0) = Seen(5)
    <3>1. 1 - 1 = 0 /\ 2 - 1 = 1 /\ 3 - 1 = 2 /\ 4 - 1 = 3 /\ 5 - 1 = 4
      OBVIOUS
    <3>2. QED BY <2>5, <3>1
  <2>7. Seen(0) = Sequential[pc]
    BY <2>2 DEF Seen
  <2>8. QED BY <2>2, <2>6, <2>7 DEF Aligned
<1>2. QED BY <1>1, DriverAlways, PTL
=============================================================================
