------------------------------ MODULE FiveStage ------------------------------
(***************************************************************************)
(* The in-order core of src/src/five_stage/: FiveStageCpu::tick() with its *)
(* hazard and forwarding policies and the shared ALU.                      *)
(*                                                                         *)
(* tick() looks at the latches through snapshots taken at its start, so it *)
(* is one action, with an operator per stage.  A latch is empty on its     *)
(* staged side between ticks: the variable is its active side, an option,  *)
(* and what a stage stages is the latch's next value.  regs and mem are    *)
(* not snapshots: ID reads regs before WB writes them, IF reads mem before *)
(* MEM writes it.                                                          *)
(***************************************************************************)
EXTENDS Alu

CONSTANTS
  MemSize,     \* words of memory (256 in the code)
  InitMems,    \* the memory images load() may have left
  Policies,    \* the pairs of a hazard and a forwarding policy new() may be given
  WordRegs     \* Word -> the registers in the rs1 and rs2 fields of the word

VARIABLES
  mem, regs, pc,
  cycle,                      \* ticks so far
  ifId, idEx, exMem, memWb,   \* options
  alu,
  policy,
  stage   \* "running", or the panic that ended the process

vars == <<mem, regs, pc, cycle, ifId, idEx, exMem, memWb, alu, policy, stage>>

Addr == 0 .. MemSize - 1

Policy == [hazard : {"NoHazardDetection", "StallOnLoad"},
           forwarding : {"NoForwarding", "FullForwarding"}]

\* IfId, IdEx (op is what get_opcode() returns), ExMem and MemWb.
Fetched  == [pc : Word, word : Word]
Decoded  == [pc : Word, op : Opcode, instr : Instr, rs1 : Word, rs2 : Word]
Executed == [instr : Instr, result : Word, rs2 : Word]
Done     == [instr : Instr, result : Word]

ASSUME FiveAssumption ==
  /\ MemSize \in Nat /\ 0 < MemSize /\ MemSize < WordMod
  /\ InitMems \subseteq [Addr -> Word]
  /\ Policies \subseteq Policy
  /\ WordRegs \in [Word -> SUBSET Reg]
  /\ \A w \in Word : \A i \in Decode[w] : WordRegs[w] = {i.rs1, i.rs2}

Init ==
  /\ mem \in InitMems
  /\ regs = [r \in Reg |-> 0]
  /\ pc = 0 /\ cycle = 0
  /\ ifId = {} /\ idEx = {} /\ exMem = {} /\ memWb = {}
  /\ alu = IdleAlu
  /\ policy \in Policies
  /\ stage = "running"

-----------------------------------------------------------------------------
(* The hazard policy, on the latches as the cycle finds them. *)

\* should_stall() of StallOnLoad: a load is about to execute and the fetched word
\* names its destination, as raw bits.
LoadUse ==
  \E f \in ifId, x \in idEx :
    IsLoad(x.op) /\ x.instr.rd # 0 /\ x.instr.rd \in WordRegs[f.word]

Stalls == policy.hazard = "StallOnLoad" /\ LoadUse

(* IF and ID *)

FetchStage ==
  IF Stalls
    THEN ifId' = {} /\ UNCHANGED pc
    ELSE ifId' = {[pc |-> pc, word |-> mem[pc]]} /\ pc' = pc + 1

\* The option of what ID stages for the fetched word f.
DecodedAt(f) ==
  {[pc |-> f.pc, op |-> i.op, instr |-> i, rs1 |-> regs[i.rs1], rs2 |-> regs[i.rs2]] :
     i \in Decode[f.word]}

\* Mutant: a stall does not hold decode.
DecodeStageUnstalled == idEx' = UNION {DecodedAt(f) : f \in ifId}

\* A word that does not decode stages nothing.
DecodeStage ==
  idEx' = IF Stalls THEN {} ELSE UNION {DecodedAt(f) : f \in ifId}

-----------------------------------------------------------------------------
(* EX *)

\* The later stage's latch l holds a result for register r.
Supplies(l, r) == \E y \in l : y.instr.rd # 0 /\ y.instr.rd = r

\* forward() of FullForwarding: it returns at the first operand it overrides,
\* and asks for no more than an equal rd field of the later instruction.
FullyForwarded(x) ==
  IF Supplies(exMem, x.instr.rs1)      THEN [x EXCEPT !.rs1 = The(exMem).result]
  ELSE IF Supplies(exMem, x.instr.rs2) THEN [x EXCEPT !.rs2 = The(exMem).result]
  ELSE IF Supplies(memWb, x.instr.rs1) THEN [x EXCEPT !.rs1 = The(memWb).result]
  ELSE IF Supplies(memWb, x.instr.rs2) THEN [x EXCEPT !.rs2 = The(memWb).result]
  ELSE x

Forwarded(x) == IF policy.forwarding = "FullForwarding" THEN FullyForwarded(x) ELSE x

\* The boolean try_enqueue() returns is not looked at: with every pipe in use the
\* instruction is gone.
Refused(x) == FreePipes(alu, x.op) = {}

Offered ==
  IF \E x \in idEx : ~Refused(x) THEN Enqueued(alu, Forwarded(The(idEx))) ELSE alu

ExecutedAs(x) ==
  [instr |-> x.instr, result |-> Compute(x.op, x.pc, x.rs1, x.rs2, x.instr.imm), rs2 |-> x.rs2]

\* The ALU is offered the decoded instruction, then advanced by a cycle.
ExecuteStage ==
  \/ /\ ~SomeFinishes(Offered)
     /\ alu' = TickIdle(Offered)
     /\ exMem' = {}
  \/ \E i \in DOMAIN Offered.inProgress :
       /\ Finishes(Offered, i)
       /\ alu' = TickFinish(Offered, i)
       /\ exMem' = {ExecutedAs(Offered.inProgress[i].instr)}

-----------------------------------------------------------------------------
(* MEM and WB *)

AccessesMemory(op) == IsLoad(op) \/ IsStore(op)

\* compute_memory()
MemResult(y) ==
  CASE IsLoad(y.instr.op)  -> mem[y.result]
    [] IsStore(y.instr.op) -> 0
    [] OTHER               -> y.result

MemStage ==
  /\ memWb' = {[instr |-> y.instr, result |-> MemResult(y)] : y \in exMem}
  /\ mem' = IF \E y \in exMem : IsStore(y.instr.op)
              THEN [mem EXCEPT ![The(exMem).result] = The(exMem).rs2] ELSE mem

\* Mutant: every instruction writes its rd field.
WriteBackStageAnyFormat ==
  regs' = [r \in Reg |->
             IF r # 0 /\ \E w \in memWb : w.instr.rd = r THEN The(memWb).result ELSE regs[r]]

WriteBackStage ==
  regs' = [r \in Reg |->
             IF r # 0 /\ \E w \in memWb : WritesRd(FormatOf(w.instr.op)) /\ w.instr.rd = r
               THEN The(memWb).result ELSE regs[r]]

-----------------------------------------------------------------------------

FetchFaults == ~Stalls /\ pc \notin Addr
MemFaults   == \E y \in exMem : AccessesMemory(y.instr.op) /\ y.result \notin Addr

Tick ==
  /\ stage = "running"
  /\ ~FetchFaults /\ ~MemFaults
  /\ FetchStage /\ DecodeStage /\ ExecuteStage /\ MemStage /\ WriteBackStage
  /\ cycle' = cycle + 1
  /\ UNCHANGED <<policy, stage>>

\* An access outside memory panics; IF comes before MEM.
FetchFault ==
  /\ stage = "running"
  /\ FetchFaults
  /\ stage' = "FetchFault"
  /\ UNCHANGED <<mem, regs, pc, cycle, ifId, idEx, exMem, memWb, alu, policy>>

MemFault ==
  /\ stage = "running"
  /\ ~FetchFaults /\ MemFaults
  /\ stage' = "MemFault"
  /\ UNCHANGED <<mem, regs, pc, cycle, ifId, idEx, exMem, memWb, alu, policy>>

Panicked == stage # "running" /\ UNCHANGED vars

Next == Tick \/ FetchFault \/ MemFault \/ Panicked

Spec == Init /\ [][Next]_vars

-----------------------------------------------------------------------------
(* Properties *)

TypeOK ==
  /\ mem \in [Addr -> Word]
  /\ regs \in [Reg -> Word]
  /\ pc \in Word /\ cycle \in Nat
  /\ ifId \in Option(Fetched)
  /\ idEx \in Option(Decoded)
  /\ exMem \in Option(Executed)
  /\ memWb \in Option(Done)
  /\ alu \in AluOf(Decoded)
  /\ policy \in Policies
  /\ stage \in {"running", "FetchFault", "MemFault"}

\* With a single pipe the ALU holds one operation between ticks, in its second and
\* last cycle, and the pipe is marked in use exactly while it does.
AluHoldsOne ==
  /\ \A i \in DOMAIN alu.inProgress : i = 1 /\ alu.inProgress[i].age = 1
  /\ \A p \in PipeIndex : alu.usage[p] <=> alu.inProgress # <<>>

\* What a stall is for: an instruction is never about to execute in the cycle after a
\* load it reads from, when the value is neither in a latch nor in the registers.
LoadUseSeparated ==
  policy.hazard = "StallOnLoad" =>
    \A x \in idEx : \A i \in DOMAIN alu.inProgress :
      LET ahead == alu.inProgress[i].instr
      IN IsLoad(ahead.op) /\ ahead.instr.rd # 0 => ahead.instr.rd \notin {x.instr.rs1, x.instr.rs2}

\* Nothing of the program is left in the pipeline: a word that does not decode has no
\* effect.
Drained ==
  /\ \A f \in ifId : Decode[f.word] = {}
  /\ idEx = {} /\ exMem = {} /\ memWb = {}
  /\ alu.inProgress = <<>>

-----------------------------------------------------------------------------
(* What the comments say and the code does not do. *)

\* "Return true if the pipeline should stall - i.e. hold fetch/decode and inject a
\* bubble into execute this cycle" (src/src/five_stage/hazard.rs:12-13): the fetched
\* word is still in IF/ID after a stall.
StallHoldsDecode == [][stage' = "running" /\ Stalls => ifId' = ifId]_vars
=============================================================================
