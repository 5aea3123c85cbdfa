-------------------------------- MODULE Isa --------------------------------
(***************************************************************************)
(* The instruction set the simulated cores share: the decoded instruction  *)
(* of src/src/utils/isa.rs, the classification of opcodes by format and by *)
(* functional unit, and the ALU's result function (src/src/alu.rs).        *)
(*                                                                         *)
(* Words are machine integers of a chosen width (WordMod = 2^width; 2^32   *)
(* in the code).  An address counts words, not bytes, so pc + 4 is pc + 1  *)
(* here.  Instruction encoding is a parameter: Decode maps a word to the   *)
(* option of the instruction it encodes.  Opcodes that differ from the     *)
(* ones kept only in the arithmetic they do (And, Or, Xor, shifts and      *)
(* their immediates) or in the width of the access (Lb, Lh, Sb, ...) have  *)
(* no representative of their own.                                         *)
(***************************************************************************)
EXTENDS Integers, Latch

CONSTANTS
  WordMod,   \* number of machine words
  NumRegs,   \* architectural registers, x0 included (32 in the code)
  Decode     \* Word -> option of a decoded instruction

Word == 0 .. WordMod - 1
Reg  == 0 .. NumRegs - 1

IntOps    == {"Add", "Sub", "Slt", "Sltu", "Addi", "Slti", "Sltiu", "Lui", "Auipc"}
LoadOps   == {"Lw"}
StoreOps  == {"Sw"}
BranchOps == {"Beq", "Bne", "Blt", "Bge", "Bltu", "Bgeu", "Jal", "Jalr"}
Opcode    == IntOps \cup LoadOps \cup StoreOps \cup BranchOps

IsLoad(op)   == op \in LoadOps
IsStore(op)  == op \in StoreOps
IsBranch(op) == op \in BranchOps

Format == {"R", "I", "S", "B", "U", "J"}

\* decode() pairs every opcode with one format.
FormatOf(op) ==
  CASE op \in {"Add", "Sub", "Slt", "Sltu"}                    -> "R"
    [] op \in {"Addi", "Slti", "Sltiu", "Lw", "Jalr"}          -> "I"
    [] op \in {"Lui", "Auipc"}                                 -> "U"
    [] op = "Sw"                                               -> "S"
    [] op = "Jal"                                              -> "J"
    [] op \in {"Beq", "Bne", "Blt", "Bge", "Bltu", "Bgeu"}     -> "B"

\* The formats whose rd field is a destination; S and B keep immediate bits there.
WritesRd(format) == format \in {"R", "I", "U", "J"}

\* Every field is extracted from every word: an I-type instruction has an rs2
\* (the low bits of its immediate), an S- or B-type one an rd.  imm is the
\* sign-extended immediate, kept as the word `imm as u32`.
Instr == [op : Opcode, rd : Reg, rs1 : Reg, rs2 : Reg, imm : Word]

\* Functional unit kinds and the opcodes each supports.
FuncUnitKind == {"IntAlu", "IntMul", "LoadStore", "Branch"}

KindSupports(kind, op) ==
  \/ kind = "IntAlu"    /\ op \in IntOps
  \/ kind = "LoadStore" /\ op \in LoadOps \cup StoreOps
  \/ kind = "Branch"    /\ op \in BranchOps

\* x as i32
Signed(x) == IF 2 * x < WordMod THEN x ELSE x - WordMod

\* Mutant: arithmetic that does not wrap.
WrapMissing(x) == x

\* wrapping_add() and wrapping_sub()
Wrap(x) == x % WordMod

Bit(cond) == IF cond THEN 1 ELSE 0

\* The predicate of a conditional branch on its two operands.
Holds(op, a, b) ==
  CASE op = "Beq"  -> a = b
    [] op = "Bne"  -> a # b
    [] op = "Blt"  -> Signed(a) < Signed(b)
    [] op = "Bge"  -> Signed(a) >= Signed(b)
    [] op = "Bltu" -> a < b
    [] op = "Bgeu" -> a >= b

\* compute(): a memory operation yields its address, a branch its next pc, and
\* Jal and Jalr the return address.
Compute(op, pc, a, b, imm) ==
  CASE op = "Add"                    -> Wrap(a + b)
    [] op = "Sub"                    -> Wrap(a - b)
    [] op = "Slt"                    -> Bit(Signed(a) < Signed(b))
    [] op = "Sltu"                   -> Bit(a < b)
    [] op \in {"Addi", "Lw", "Sw"}   -> Wrap(a + imm)
    [] op = "Slti"                   -> Bit(Signed(a) < Signed(imm))
    [] op = "Sltiu"                  -> Bit(a < imm)
    [] op = "Lui"                    -> imm
    [] op = "Auipc"                  -> Wrap(pc + imm)
    [] op \in {"Jal", "Jalr"}        -> Wrap(pc + 1)
    [] OTHER                         ->
         IF Holds(op, a, b) THEN Wrap(pc + imm) ELSE Wrap(pc + 1)

ASSUME IsaAssumption ==
  /\ WordMod \in Nat /\ WordMod > 1
  /\ NumRegs \in Nat \ {0}
  /\ Decode \in [Word -> Option(Instr)]
=============================================================================
