------------------------------ MODULE Encoding ------------------------------
(***************************************************************************)
(* Instruction words: what the encoding helpers of                         *)
(* src/src/utils/assembler.rs put into a word and what decode() of         *)
(* src/src/utils/isa.rs takes out of it.                                   *)
(*                                                                         *)
(* A 32-bit word is the set of the positions of its ones.  Then | is union,*)
(* & with a mask is intersection with a range of positions, and a shift    *)
(* moves positions; bits shifted beyond either end are lost, and the       *)
(* arithmetic shift right copies position 31.  An i32 is the same set in   *)
(* two's complement.                                                       *)
(***************************************************************************)
EXTENDS Integers

Word32 == SUBSET (0 .. 31)

Shl(w, k) == {i \in 0 .. 31 : i - k \in w}
Shr(w, k) == {i \in 0 .. 31 : i + k \in w}
Sar(w, k) == {i \in 0 .. 31 : (IF i + k < 31 THEN i + k ELSE 31) \in w}

\* The n lowest bits, and the bits from position lo to hi moved down.
Low(w, n)         == w \cap 0 .. n - 1
Field(w, lo, hi)  == Low(Shr(w, lo), hi - lo + 1)

-----------------------------------------------------------------------------
(* The encoding helpers.  Registers are u8 and wider than their fields;    *)
(* functs, opcode and immediates are words as well.                        *)

RType(rd, rs1, rs2, funct3, funct7, opcode) ==
  opcode \cup Shl(rd, 7) \cup Shl(funct3, 12) \cup Shl(rs1, 15) \cup Shl(rs2, 20)
    \cup Shl(funct7, 25)

IType(rd, rs1, imm, funct3, opcode) ==
  opcode \cup Shl(rd, 7) \cup Shl(funct3, 12) \cup Shl(rs1, 15) \cup Shl(Low(imm, 12), 20)

SType(rs1, rs2, imm, funct3, opcode) ==
  opcode \cup Shl(funct3, 12) \cup Shl(rs1, 15) \cup Shl(rs2, 20)
    \cup Shl(Low(imm, 5), 7) \cup Shl(Shr(imm, 5), 25)

\* Mutant: bit 11 goes where bit 12 belongs.
BTypeSwapped(rs1, rs2, imm, funct3, opcode) ==
  opcode \cup Shl(funct3, 12) \cup Shl(rs1, 15) \cup Shl(rs2, 20)
    \cup Shl(Field(imm, 12, 12), 7) \cup Shl(Field(imm, 1, 4), 8)
    \cup Shl(Field(imm, 5, 10), 25) \cup Shl(Field(imm, 11, 11), 31)

BType(rs1, rs2, imm, funct3, opcode) ==
  opcode \cup Shl(funct3, 12) \cup Shl(rs1, 15) \cup Shl(rs2, 20)
    \cup Shl(Field(imm, 11, 11), 7) \cup Shl(Field(imm, 1, 4), 8)
    \cup Shl(Field(imm, 5, 10), 25) \cup Shl(Field(imm, 12, 12), 31)

UType(rd, imm, opcode) == opcode \cup Shl(rd, 7) \cup (imm \cap 12 .. 31)

JType(rd, imm, opcode) ==
  opcode \cup Shl(rd, 7) \cup (imm \cap 12 .. 19)
    \cup Shl(Field(imm, 11, 11), 20) \cup Shl(Field(imm, 1, 10), 21)
    \cup Shl(Field(imm, 20, 20), 31)

-----------------------------------------------------------------------------
(* The fields decode() extracts from every word. *)

OpcodeBits(w) == Field(w, 0, 6)
Rd(w)         == Field(w, 7, 11)
Funct3(w)     == Field(w, 12, 14)
Rs1(w)        == Field(w, 15, 19)
Rs2(w)        == Field(w, 20, 24)
Funct7(w)     == Field(w, 25, 31)

ImmI(w) == Sar(w, 20)

\* The upper part is shifted as an unsigned word: no sign extension.
ImmS(w) == Shl(Shr(w, 25), 5) \cup Field(w, 7, 11)

ImmB(w) == Shl(Sar(w, 31), 12) \cup Shl(Field(w, 7, 7), 11)
             \cup Shl(Field(w, 25, 30), 5) \cup Shl(Field(w, 8, 11), 1)

ImmU(w) == w \cap 12 .. 31

ImmJ(w) == Shl(Sar(w, 31), 20) \cup Shl(Field(w, 12, 19), 12)
             \cup Shl(Field(w, 20, 20), 11) \cup Shl(Field(w, 21, 30), 1)

-----------------------------------------------------------------------------
(* decode() *)

\* An unsigned number below 2^8, or a non-negative one below 2^31, as a word.
Unsigned(n) == {i \in 0 .. 30 : (n \div 2 ^ i) % 2 = 1}

\* The opcode of an R-type word by funct3 and funct7, of the others by funct3.
RegOps == {<<0, 0, "Add">>, <<0, 32, "Sub">>, <<7, 0, "And">>, <<6, 0, "Or">>, <<4, 0, "Xor">>,
           <<1, 0, "Sll">>, <<5, 0, "Srl">>, <<5, 32, "Sra">>, <<2, 0, "Slt">>, <<3, 0, "Sltu">>}
ImmOps    == {<<0, "Addi">>, <<7, "Andi">>, <<6, "Ori">>, <<4, "Xori">>, <<1, "Slli">>,
              <<2, "Slti">>, <<3, "Sltiu">>}
LoadOps   == {<<0, "Lb">>, <<1, "Lh">>, <<2, "Lw">>, <<4, "Lbu">>, <<5, "Lhu">>}
StoreOps  == {<<0, "Sb">>, <<1, "Sh">>, <<2, "Sw">>}
BranchOps == {<<0, "Beq">>, <<1, "Bne">>, <<4, "Blt">>, <<5, "Bge">>, <<6, "Bltu">>, <<7, "Bgeu">>}

\* The opcodes a row of a table gives the word: none or one.
Among(ops, w) == {t[2] : t \in {u \in ops : Unsigned(u[1]) = Funct3(w)}}

OpsOf(w) ==
  LET opcode == OpcodeBits(w)
  IN CASE opcode = Unsigned(\b0110011) ->
            {t[3] : t \in {u \in RegOps : /\ Unsigned(u[1]) = Funct3(w)
                                          /\ Unsigned(u[2]) = Funct7(w)}}
       [] opcode = Unsigned(\b0010011) ->
            IF Funct3(w) = Unsigned(5)
              THEN {IF Funct7(w) = Unsigned(32) THEN "Srai" ELSE "Srli"}
              ELSE Among(ImmOps, w)
       [] opcode = Unsigned(\b0000011) -> Among(LoadOps, w)
       [] opcode = Unsigned(\b0100011) -> Among(StoreOps, w)
       [] opcode = Unsigned(\b1100011) -> Among(BranchOps, w)
       [] opcode = Unsigned(\b1101111) -> {"Jal"}
       [] opcode = Unsigned(\b1100111) -> {"Jalr"}
       [] opcode = Unsigned(\b0110111) -> {"Lui"}
       [] opcode = Unsigned(\b0010111) -> {"Auipc"}
       [] OTHER                        -> {}

FormatFor(w) ==
  LET opcode == OpcodeBits(w)
  IN CASE opcode = Unsigned(\b0110011)                            -> "R"
       [] opcode = Unsigned(\b0100011)                            -> "S"
       [] opcode = Unsigned(\b1100011)                            -> "B"
       [] opcode = Unsigned(\b1101111)                            -> "J"
       [] opcode \in {Unsigned(\b0110111), Unsigned(\b0010111)}   -> "U"
       [] OTHER                                                   -> "I"

ImmOf(w) ==
  CASE FormatFor(w) = "R" -> {}
    [] FormatFor(w) = "I" -> ImmI(w)
    [] FormatFor(w) = "S" -> ImmS(w)
    [] FormatFor(w) = "B" -> ImmB(w)
    [] FormatFor(w) = "U" -> ImmU(w)
    [] FormatFor(w) = "J" -> ImmJ(w)

\* The decoded instruction, or none.
Decode(w) ==
  {[op |-> op, format |-> FormatFor(w), rd |-> Rd(w), rs1 |-> Rs1(w), rs2 |-> Rs2(w),
    imm |-> ImmOf(w)] : op \in OpsOf(w)}
=============================================================================
