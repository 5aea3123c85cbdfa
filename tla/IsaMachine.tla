----------------------------- MODULE IsaMachine -----------------------------
(***************************************************************************)
(* What the simulated cores promise: "preserving the illusion of           *)
(* sequential execution for the programmer" (src/src/simple_ooo/mod.rs:19).*)
(* One instruction is executed at a time, at the program counter, with its *)
(* whole effect on registers, memory and program counter at once.          *)
(***************************************************************************)
EXTENDS Isa

CONSTANTS MemSize, InitMems

VARIABLES
  mem, regs, pc,
  follows   \* whether the promise covers control flow, or data alone

vars == <<mem, regs, pc, follows>>

Addr == 0 .. MemSize - 1

Init ==
  /\ mem \in InitMems
  /\ regs = [r \in Reg |-> 0]
  /\ pc = 0
  /\ follows \in BOOLEAN

EffectiveAddr(i) == Wrap(regs[i.rs1] + i.imm)

\* The value an instruction at p leaves in rd.
RdValue(i, p) ==
  IF IsLoad(i.op) THEN mem[EffectiveAddr(i)]
                  ELSE Compute(i.op, p, regs[i.rs1], regs[i.rs2], i.imm)

Target(i, p) ==
  CASE i.op = "Jal"                                       -> Wrap(p + i.imm)
    [] i.op = "Jalr"                                      -> EffectiveAddr(i)
    [] FormatOf(i.op) = "B"
         /\ Holds(i.op, regs[i.rs1], regs[i.rs2])         -> Wrap(p + i.imm)
    [] OTHER                                              -> Wrap(p + 1)

\* Execute the instruction at p.
ExecuteAt(p) ==
  /\ p \in Addr
  /\ \E i \in Decode[mem[p]] :
       /\ IsLoad(i.op) \/ IsStore(i.op) => EffectiveAddr(i) \in Addr
       /\ regs' = IF WritesRd(FormatOf(i.op)) /\ i.rd # 0
                    THEN [regs EXCEPT ![i.rd] = RdValue(i, p)] ELSE regs
       /\ mem' = IF IsStore(i.op)
                   THEN [mem EXCEPT ![EffectiveAddr(i)] = regs[i.rs2]] ELSE mem
       /\ pc' = Target(i, p)

\* Whatever runs is a sequential execution of some stream of instructions; where
\* `follows` holds, it is the one the program counter leads through.
Next ==
  /\ \E p \in Addr : (follows => p = pc) /\ ExecuteAt(p)
  /\ UNCHANGED follows

Spec == Init /\ [][Next]_vars
=============================================================================
