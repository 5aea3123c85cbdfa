----------------------------- MODULE OooPrograms -----------------------------
(***************************************************************************)
(* Instruction constructors and program memories for the instances TLC     *)
(* checks.  A word w of memory encodes the w-th instruction of a list; 0   *)
(* encodes nothing, as in the code.                                        *)
(***************************************************************************)
EXTENDS Integers, Sequences

\* Instructions by format.  The fields a format does not use hold immediate bits.
R(op, rd, rs1, rs2) == [op |-> op, rd |-> rd, rs1 |-> rs1, rs2 |-> rs2, imm |-> 0]
I(op, rd, rs1, imm) == [op |-> op, rd |-> rd, rs1 |-> rs1, rs2 |-> imm % 4, imm |-> imm]
S(op, rs1, rs2, imm) == [op |-> op, rd |-> imm % 4, rs1 |-> rs1, rs2 |-> rs2, imm |-> imm]

J(op, rd, imm) == [op |-> op, rd |-> rd, rs1 |-> 0, rs2 |-> imm % 4, imm |-> imm]

McWordMod == 16
Neg(x) == McWordMod - x
McPipes == <<{"IntAlu"}, {"LoadStore"}, {"Branch"}>>

Encoding(list) == [w \in 0 .. McWordMod - 1 |-> IF w \in DOMAIN list THEN {list[w]} ELSE {}]

\* The memories that hold a program of n words, then a fixed tail.
Memories(n, codes, tail) ==
  {[a \in 0 .. n + Len(tail) - 1 |-> IF a < n THEN p[a] ELSE tail[a - n + 1]] :
     p \in [0 .. n - 1 -> codes]}

\* The memory that holds the given words.
MemoryOf(words) == [a \in 0 .. Len(words) - 1 |-> words[a + 1]]
=============================================================================
