-------------------------- MODULE AssemblerProofs --------------------------
(***************************************************************************)
(* decode() takes out of a word what the assembler put into it: every      *)
(* register, funct and opcode that fits its field, and of every one of the *)
(* 2^32 immediates exactly the part its format keeps.  assemble() accepts  *)
(* the sources of which every line is well formed, and puts the word of    *)
(* each line where it belongs; that word means what its line asks for      *)
(* exactly if the operands fit.  The run of MCAssembler tries the edges of *)
(* the fields and short programs; these theorems are about every value and *)
(* every source.                                                           *)
(*                                                                         *)
(* The last is the longest.  It needs to know of every i32, not only of    *)
(* its bits, whether its format carries it: halving a number again and     *)
(* again strips its bits, so that the bits from k on are all the sign      *)
(* exactly if what is left after k halvings is 0 or -1, and two numbers    *)
(* with the same bits are the same.  A register beyond 31 is lost because  *)
(* no field of five bits is its number.                                    *)
(***************************************************************************)
EXTENDS Assembler, CommonLemmas, SequenceTheorems, FiniteSetTheorems, WellFoundedInduction,
        TLAPS

\* Values of the fields of a word.
RegField    == SUBSET (0 .. 4)
Funct3Field == SUBSET (0 .. 2)
SevenBits   == SUBSET (0 .. 6)

\* The i32 that bits 0 .. n of imm are, bit n being the sign.
Extended(imm, n) == {i \in 0 .. 31 : (IF i < n THEN i ELSE n) \in imm}

-----------------------------------------------------------------------------

\* A bit of a shifted word.
LEMMA ShlBit ==
  ASSUME NEW w, NEW k \in Nat, NEW i
  PROVE  i \in Shl(w, k) <=> i \in 0 .. 31 /\ i - k \in w
BY DEF Shl

\* A bit of a field.
LEMMA FieldBit ==
  ASSUME NEW w, NEW lo \in 0 .. 31, NEW hi \in lo .. 31, NEW i
  PROVE  i \in Field(w, lo, hi) <=> i \in 0 .. hi - lo /\ i + lo \in w
BY DEF Field, Low, Shr

\* A field is what stands in its bits.
LEMMA FieldIs ==
  ASSUME NEW w, NEW lo \in 0 .. 31, NEW hi \in lo .. 31, NEW f \in SUBSET (0 .. hi - lo),
         \A i \in 0 .. hi - lo : i + lo \in w <=> i \in f
  PROVE  Field(w, lo, hi) = f
BY FieldBit

\* Two words with the same bits are equal.
LEMMA SameBits ==
  ASSUME NEW u \in Word32, NEW v \in Word32, \A i \in 0 .. 31 : i \in u <=> i \in v
  PROVE  u = v
BY DEF Word32

-----------------------------------------------------------------------------
(* The six formats. *)

\* An R-type word has the opcode, functs and registers it was made of.
THEOREM RTypeRoundTrip ==
  ASSUME NEW rd \in RegField, NEW rs1 \in RegField, NEW rs2 \in RegField,
         NEW funct3 \in Funct3Field, NEW funct7 \in SevenBits, NEW opcode \in SevenBits,
         NEW w, w = RType(rd, rs1, rs2, funct3, funct7, opcode)
  PROVE  /\ OpcodeBits(w) = opcode /\ Funct3(w) = funct3 /\ Funct7(w) = funct7
         /\ Rd(w) = rd /\ Rs1(w) = rs1 /\ Rs2(w) = rs2
<1>0. \A j \in 0 .. 31 : j \in w <=>
        \/ j \in opcode \/ j - 7 \in rd \/ j - 12 \in funct3 \/ j - 15 \in rs1
        \/ j - 20 \in rs2 \/ j - 25 \in funct7
  BY DEF RType, Shl
<1> USE DEF RegField, Funct3Field, SevenBits
<1>1. OpcodeBits(w) = opcode
  BY <1>0, FieldIs, SMTT(30) DEF OpcodeBits
<1>2. Funct3(w) = funct3
  BY <1>0, FieldIs, SMTT(30) DEF Funct3
<1>3. Funct7(w) = funct7
  BY <1>0, FieldIs, SMTT(30) DEF Funct7
<1>4. Rd(w) = rd
  BY <1>0, FieldIs, SMTT(30) DEF Rd
<1>5. Rs1(w) = rs1
  BY <1>0, FieldIs, SMTT(30) DEF Rs1
<1>6. Rs2(w) = rs2
  BY <1>0, FieldIs, SMTT(30) DEF Rs2
<1> QED BY <1>1, <1>2, <1>3, <1>4, <1>5, <1>6

\* An I-type word keeps the low twelve bits of its immediate, as a signed number.
THEOREM ITypeRoundTrip ==
  ASSUME NEW rd \in RegField, NEW rs1 \in RegField, NEW funct3 \in Funct3Field,
         NEW opcode \in SevenBits, NEW imm \in Word32,
         NEW w, w = IType(rd, rs1, imm, funct3, opcode)
  PROVE  /\ OpcodeBits(w) = opcode /\ Funct3(w) = funct3 /\ Rd(w) = rd /\ Rs1(w) = rs1
         /\ ImmI(w) = Extended(imm, 11)
<1>0. \A j \in 0 .. 31 : j \in w <=>
        \/ j \in opcode \/ j - 7 \in rd \/ j - 12 \in funct3 \/ j - 15 \in rs1
        \/ j - 20 \in 0 .. 11 /\ j - 20 \in imm
  BY DEF IType, Shl, Low
<1> USE DEF RegField, Funct3Field, SevenBits
<1>1. OpcodeBits(w) = opcode
  BY <1>0, FieldIs, SMTT(30) DEF OpcodeBits
<1>2. Funct3(w) = funct3
  BY <1>0, FieldIs, SMTT(30) DEF Funct3
<1>3. Rd(w) = rd
  BY <1>0, FieldIs, SMTT(30) DEF Rd
<1>4. Rs1(w) = rs1
  BY <1>0, FieldIs, SMTT(30) DEF Rs1
<1>5. ImmI(w) = Extended(imm, 11)
  <2>1. \A i \in 0 .. 31 : i \in ImmI(w) <=> i \in Extended(imm, 11)
    BY <1>0 DEF ImmI, Sar, Extended
  <2> QED BY <2>1, SameBits DEF ImmI, Sar, Extended, Word32
<1> QED BY <1>1, <1>2, <1>3, <1>4, <1>5

\* An S-type word keeps the low twelve bits too, but as an unsigned number: a negative
\* store offset comes back 4096 too large.
THEOREM STypeRoundTrip ==
  ASSUME NEW rs1 \in RegField, NEW rs2 \in RegField, NEW funct3 \in Funct3Field,
         NEW opcode \in SevenBits, NEW imm \in Word32,
         NEW w, w = SType(rs1, rs2, imm, funct3, opcode)
  PROVE  /\ OpcodeBits(w) = opcode /\ Funct3(w) = funct3 /\ Rs1(w) = rs1 /\ Rs2(w) = rs2
         /\ ImmS(w) = Low(imm, 12)
<1>0. \A j \in 0 .. 31 : j \in w <=>
        \/ j \in opcode \/ j - 12 \in funct3 \/ j - 15 \in rs1 \/ j - 20 \in rs2
        \/ j - 7 \in 0 .. 4 /\ j - 7 \in imm
        \/ j - 25 \in 0 .. 31 /\ j - 20 \in imm
  BY DEF SType, Shl, Shr, Low
<1>w. w \in Word32
  <2>1. \A v, k : Shl(v, k) \subseteq 0 .. 31
    BY DEF Shl
  <2>2. opcode \subseteq 0 .. 31
    BY DEF SevenBits
  <2> QED BY <2>1, <2>2 DEF SType, Word32
<1> USE DEF RegField, Funct3Field, SevenBits
<1>1. OpcodeBits(w) = opcode
  BY <1>0, FieldIs, SMTT(30) DEF OpcodeBits
<1>2. Funct3(w) = funct3
  BY <1>0, FieldIs, SMTT(30) DEF Funct3
<1>3. Rs1(w) = rs1
  BY <1>0, FieldIs, SMTT(30) DEF Rs1
<1>4. Rs2(w) = rs2
  BY <1>0, FieldIs, SMTT(30) DEF Rs2
<1>5. ImmS(w) = Low(imm, 12)
  <2>1. \A i \in 0 .. 31 : i \in ImmS(w) <=>
          \/ i \in 5 .. 11 /\ i + 20 \in w
          \/ i \in 0 .. 4 /\ i + 7 \in w
    BY <1>w DEF ImmS, Shl, Shr, Field, Low, Word32
  <2>2. \A i \in 0 .. 31 : i \in ImmS(w) <=> i \in Low(imm, 12)
    BY <1>0, <2>1 DEF Low, Word32
  <2>3. ImmS(w) \in Word32
    BY FieldBit DEF ImmS, Shl, Word32
  <2> QED BY <2>2, <2>3, SameBits DEF Low, Word32
<1> QED BY <1>1, <1>2, <1>3, <1>4, <1>5

\* A B-type word keeps bits 1 to 12 of its immediate, as a signed number: the distance
\* to a label within 4 KiB arrives as it was.
THEOREM BTypeRoundTrip ==
  ASSUME NEW rs1 \in RegField, NEW rs2 \in RegField, NEW funct3 \in Funct3Field,
         NEW opcode \in SevenBits, NEW imm \in Word32,
         NEW w, w = BType(rs1, rs2, imm, funct3, opcode)
  PROVE  /\ OpcodeBits(w) = opcode /\ Funct3(w) = funct3 /\ Rs1(w) = rs1 /\ Rs2(w) = rs2
         /\ ImmB(w) = Extended(imm, 12) \ {0}
<1>0. \A j \in 0 .. 31 : j \in w <=>
        \/ j \in opcode \/ j - 12 \in funct3 \/ j - 15 \in rs1 \/ j - 20 \in rs2
        \/ j = 7 /\ 11 \in imm
        \/ j \in 8 .. 11 /\ j - 7 \in imm
        \/ j \in 25 .. 30 /\ j - 20 \in imm
        \/ j = 31 /\ 12 \in imm
  BY FieldBit DEF BType, Shl
<1> USE DEF RegField, Funct3Field, SevenBits
<1>1. OpcodeBits(w) = opcode
  BY <1>0, FieldIs, SMTT(30) DEF OpcodeBits
<1>2. Funct3(w) = funct3
  BY <1>0, FieldIs, SMTT(30) DEF Funct3
<1>3. Rs1(w) = rs1
  BY <1>0, FieldIs, SMTT(30) DEF Rs1
<1>4. Rs2(w) = rs2
  BY <1>0, FieldIs, SMTT(30) DEF Rs2
<1>5. ImmB(w) = Extended(imm, 12) \ {0}
  <2>1. \A i \in 0 .. 31 : i \in ImmB(w) <=>
          \/ i \in 12 .. 31 /\ 31 \in w
          \/ i = 11 /\ 7 \in w
          \/ i \in 5 .. 10 /\ i + 20 \in w
          \/ i \in 1 .. 4 /\ i + 7 \in w
    BY FieldBit, SMTT(30) DEF ImmB, Shl, Sar
  <2>2. \A i \in 0 .. 31 : i \in ImmB(w) <=> i \in Extended(imm, 12) \ {0}
    BY <1>0, <2>1 DEF Extended
  <2>3. ImmB(w) \in Word32
    BY DEF ImmB, Shl, Word32
  <2> QED BY <2>2, <2>3, SameBits DEF Extended, Word32
<1> QED BY <1>1, <1>2, <1>3, <1>4, <1>5

\* A J-type word keeps bits 1 to 20.
THEOREM JTypeRoundTrip ==
  ASSUME NEW rd \in RegField, NEW opcode \in SevenBits, NEW imm \in Word32,
         NEW w, w = JType(rd, imm, opcode)
  PROVE  /\ OpcodeBits(w) = opcode /\ Rd(w) = rd
         /\ ImmJ(w) = Extended(imm, 20) \ {0}
<1>0. \A j \in 0 .. 31 : j \in w <=>
        \/ j \in opcode \/ j - 7 \in rd
        \/ j \in 12 .. 19 /\ j \in imm
        \/ j = 20 /\ 11 \in imm
        \/ j \in 21 .. 30 /\ j - 20 \in imm
        \/ j = 31 /\ 20 \in imm
  BY FieldBit DEF JType, Shl
<1> USE DEF RegField, SevenBits
<1>1. OpcodeBits(w) = opcode
  BY <1>0, FieldIs, SMTT(30) DEF OpcodeBits
<1>2. Rd(w) = rd
  BY <1>0, FieldIs, SMTT(30) DEF Rd
<1>3. ImmJ(w) = Extended(imm, 20) \ {0}
  <2>1. \A i \in 0 .. 31 : i \in ImmJ(w) <=>
          \/ i \in 20 .. 31 /\ 31 \in w
          \/ i \in 12 .. 19 /\ i \in w
          \/ i = 11 /\ 20 \in w
          \/ i \in 1 .. 10 /\ i + 20 \in w
    BY FieldBit, SMTT(30) DEF ImmJ, Shl, Sar
  <2>2. \A i \in 0 .. 31 : i \in ImmJ(w) <=> i \in Extended(imm, 20) \ {0}
    BY <1>0, <2>1 DEF Extended
  <2>3. ImmJ(w) \in Word32
    BY DEF ImmJ, Shl, Word32
  <2> QED BY <2>2, <2>3, SameBits DEF Extended, Word32
<1> QED BY <1>1, <1>2, <1>3

\* A U-type word keeps bits 12 to 31 where they are.
THEOREM UTypeRoundTrip ==
  ASSUME NEW rd \in RegField, NEW opcode \in SevenBits, NEW imm \in Word32,
         NEW w, w = UType(rd, imm, opcode)
  PROVE  OpcodeBits(w) = opcode /\ Rd(w) = rd /\ ImmU(w) = imm \cap 12 .. 31
<1>0. \A j \in 0 .. 31 : j \in w <=>
        j \in opcode \/ j - 7 \in rd \/ (j \in 12 .. 31 /\ j \in imm)
  BY DEF UType, Shl, SevenBits
<1>1. OpcodeBits(w) = opcode
  BY <1>0, FieldIs, SMTT(30) DEF OpcodeBits, RegField, SevenBits
<1>2. Rd(w) = rd
  BY <1>0, FieldIs, SMTT(30) DEF Rd, RegField, SevenBits
<1>3. ImmU(w) = imm \cap 12 .. 31
  BY <1>0 DEF ImmU, RegField, SevenBits, Word32
<1> QED BY <1>1, <1>2, <1>3

-----------------------------------------------------------------------------
(* The assembler: sets of line numbers, and how many are instructions. *)

\* A set of line numbers that is not empty has a first element and a last one.
LEMMA FirstOf ==
  ASSUME NEW n \in Nat, NEW F \in SUBSET (1 .. n), F # {}
  PROVE  \E p \in F : \A q \in F : p <= q
<1> DEFINE U  == 1 .. n
           up == {1 .. p : p \in F}
<1>1. up \subseteq FiniteSubsetsOf(U) /\ up # {}
  <2>1. IsFiniteSet(U)
    BY FS_Interval
  <2>2. \A p \in F : 1 .. p \in SUBSET U
    OBVIOUS
  <2>3. up \subseteq SUBSET U /\ up # {}
    BY <2>2
  <2> HIDE DEF U, up
  <2>4. FiniteSubsetsOf(U) = SUBSET U
    BY <2>1, FS_FiniteSubsetsOfFinite
  <2>5. QED BY <2>3, <2>4
<1>2. IsWellFoundedOn(StrictSubsetOrdering(U), FiniteSubsetsOf(U))
  BY FS_StrictSubsetOrderingWellFounded
<1>3. PICK x \in up : \A y \in up : <<y, x>> \notin StrictSubsetOrdering(U)
  <2> HIDE DEF up, U
  <2>1. QED BY <1>1, <1>2, WFMin
<1>4. PICK p \in F : x = 1 .. p
  OBVIOUS
<1>5. ASSUME NEW q \in F PROVE p <= q
  <2>1. p \in 1 .. n /\ q \in 1 .. n /\ 1 .. p \in SUBSET U /\ 1 .. q \in SUBSET U
    OBVIOUS
  <2>2. <<1 .. q, 1 .. p>> \notin StrictSubsetOrdering(U)
    BY <1>3, <1>4
  <2>3. ~(1 .. q \subseteq 1 .. p /\ 1 .. q # 1 .. p)
    BY <2>1, <2>2 DEF StrictSubsetOrdering
  <2>4. SUFFICES ASSUME q < p PROVE FALSE
    BY <2>1
  <2>5. 1 .. q \subseteq 1 .. p
    BY <2>1, <2>4
  <2>6. p \in 1 .. p /\ p \notin 1 .. q
    BY <2>1, <2>4
  <2>7. QED BY <2>3, <2>5, <2>6
<1>6. QED BY <1>5

LEMMA LastOf ==
  ASSUME NEW n \in Nat, NEW F \in SUBSET (1 .. n), F # {}
  PROVE  \E p \in F : \A q \in F : q <= p
<1> DEFINE G == {n + 1 - p : p \in F}
<1>1. G \in SUBSET (1 .. n) /\ G # {}
  <2>1. \A p \in F : n + 1 - p \in 1 .. n
    OBVIOUS
  <2>2. QED BY <2>1
<1>2. PICK g \in G : \A h \in G : g <= h
  <2> HIDE DEF G
  <2>1. QED BY <1>1, FirstOf
<1>3. PICK p \in F : g = n + 1 - p
  OBVIOUS
<1>4. ASSUME NEW q \in F PROVE q <= p
  <2>1. n + 1 - q \in G /\ p \in 1 .. n /\ q \in 1 .. n
    OBVIOUS
  <2>2. n + 1 - p <= n + 1 - q
    BY <1>2, <1>3, <2>1
  <2>3. QED BY <2>1, <2>2
<1>5. QED BY <1>4

\* The number of instructions among the first i lines of s.
Instrs(s, i) == Cardinality({j \in 1 .. i : s[j].kind = "instr"})

LEMMA InstrsFinite ==
  ASSUME NEW s, NEW i \in Nat
  PROVE  IsFiniteSet({j \in 1 .. i : s[j].kind = "instr"}) /\ Instrs(s, i) \in Nat
<1>1. IsFiniteSet({j \in 1 .. i : s[j].kind = "instr"})
  <2>1. IsFiniteSet(1 .. i)
    BY FS_Interval
  <2>2. {j \in 1 .. i : s[j].kind = "instr"} \in SUBSET (1 .. i)
    OBVIOUS
  <2>3. QED BY <2>1, <2>2, FS_Subset
<1>2. QED BY <1>1, FS_CardinalityType DEF Instrs

\* It grows by one at each of them, and at no other line.
LEMMA InstrsNext ==
  ASSUME NEW s, NEW i \in Nat \ {0}
  PROVE  Instrs(s, i) = Instrs(s, i - 1) + (IF s[i].kind = "instr" THEN 1 ELSE 0)
<1> DEFINE S(k) == {j \in 1 .. k : s[j].kind = "instr"}
<1>1. IsFiniteSet(S(i - 1)) /\ Cardinality(S(i - 1)) \in Nat
  <2>1. i - 1 \in Nat
    OBVIOUS
  <2>2. QED BY <2>1, InstrsFinite DEF Instrs
<1>2. i \notin S(i - 1)
  OBVIOUS
<1>3. Instrs(s, i) = Cardinality(S(i)) /\ Instrs(s, i - 1) = Cardinality(S(i - 1))
  BY DEF Instrs
<1>4. CASE s[i].kind = "instr"
  <2>1. S(i) = S(i - 1) \cup {i}
    BY <1>4
  <2> HIDE DEF S
  <2>2. Cardinality(S(i)) = Cardinality(S(i - 1)) + 1
    BY <1>1, <1>2, <2>1, FS_AddElement
  <2>3. QED BY <1>3, <1>4, <2>2
<1>5. CASE s[i].kind # "instr"
  <2>1. S(i) = S(i - 1)
    BY <1>5
  <2> HIDE DEF S
  <2>2. QED BY <1>3, <1>1, <1>5, <2>1
<1>6. QED BY <1>4, <1>5

LEMMA InstrsGrow ==
  ASSUME NEW s, NEW i \in Nat, NEW k \in Nat, i <= k
  PROVE  /\ Instrs(s, i) <= Instrs(s, k)
         /\ (\A j \in i + 1 .. k : s[j].kind # "instr") => Instrs(s, k) = Instrs(s, i)
<1> DEFINE S(m) == {j \in 1 .. m : s[j].kind = "instr"}
<1>1. S(i) \in SUBSET S(k) /\ IsFiniteSet(S(k))
  BY InstrsFinite
<1>2. Cardinality(S(i)) <= Cardinality(S(k))
  <2> HIDE DEF S
  <2>1. QED BY <1>1, FS_Subset
<1>3. ASSUME \A j \in i + 1 .. k : s[j].kind # "instr" PROVE S(k) = S(i)
  BY <1>3
<1>4. QED BY <1>2, <1>3 DEF Instrs

LEMMA NoInstrs == ASSUME NEW s PROVE Instrs(s, 0) = 0
<1>1. {j \in 1 .. 0 : s[j].kind = "instr"} = {}
  OBVIOUS
<1>2. QED BY <1>1, FS_EmptySet DEF Instrs

-----------------------------------------------------------------------------
(* The assembler: which lines are accepted. *)

LEMMA FirstFailure ==
  ASSUME NEW n \in Nat, NEW c, DOMAIN c = 1 .. n, NEW j \in DOMAIN c, ~c[j].ok
  PROVE  \E i \in DOMAIN c : ~c[i].ok /\ \A k \in 1 .. i - 1 : c[k].ok
<1> DEFINE F == {k \in 1 .. n : ~c[k].ok}
<1>1. F \in SUBSET (1 .. n) /\ F # {}
  OBVIOUS
<1>2. PICK i \in F : \A k \in F : i <= k
  <2> HIDE DEF F
  <2>1. QED BY <1>1, FirstOf
<1>3. ASSUME NEW k \in 1 .. i - 1 PROVE c[k].ok
  <2>1. k \in 1 .. n /\ ~(i <= k)
    BY <1>2
  <2>2. QED BY <1>2, <2>1
<1>4. QED BY <1>2, <1>3

Check == [ok : BOOLEAN, error : AsmError]

LEMMA ChecksTyped ==
  ASSUME NEW l, NEW t, NEW pc, NEW n
  PROVE  /\ Enough(l, n) \in Check /\ IsReg(t) \in Check /\ Resolves(t, pc) \in Check
         /\ IsMem(t) \in Check /\ [ok |-> FALSE, error |-> "UnknownInstruction"] \in Check
BY DEF Check, Enough, IsReg, Resolves, IsMem, AsmError

\* All of a sequence of checks pass.
Pass(c) == \A j \in DOMAIN c : c[j].ok

LEMMA PassOne ==
  ASSUME NEW x \in Check
  PROVE  <<x>> \in Seq(Check) /\ (Pass(<<x>>) <=> x.ok)
BY DEF Pass

LEMMA PassThree ==
  ASSUME NEW x \in Check, NEW y \in Check, NEW z \in Check
  PROVE  <<x, y, z>> \in Seq(Check) /\ (Pass(<<x, y, z>>) <=> x.ok /\ y.ok /\ z.ok)
<1>1. DOMAIN <<x, y, z>> = {1, 2, 3}
  OBVIOUS
<1>2. QED BY <1>1 DEF Pass

LEMMA PassFour ==
  ASSUME NEW x \in Check, NEW y \in Check, NEW z \in Check, NEW u \in Check
  PROVE  <<x, y, z, u>> \in Seq(Check) /\ (Pass(<<x, y, z, u>>) <=> x.ok /\ y.ok /\ z.ok /\ u.ok)
<1>1. DOMAIN <<x, y, z, u>> = {1, 2, 3, 4}
  OBVIOUS
<1>2. QED BY <1>1 DEF Pass

LEMMA PassBoth ==
  ASSUME NEW c \in Seq(Check), NEW d \in Seq(Check)
  PROVE  c \o d \in Seq(Check) /\ (Pass(c \o d) <=> Pass(c) /\ Pass(d))
<1>1. Len(c) \in Nat /\ Len(d) \in Nat /\ DOMAIN c = 1 .. Len(c) /\ DOMAIN d = 1 .. Len(d)
  BY LenProperties
<1>2. c \o d \in Seq(Check) /\ Len(c \o d) = Len(c) + Len(d)
  BY ConcatProperties
<1>3. DOMAIN (c \o d) = 1 .. Len(c) + Len(d)
  BY <1>2, LenProperties
<1>4. \A i \in 1 .. Len(c) + Len(d) : (c \o d)[i] = IF i <= Len(c) THEN c[i] ELSE d[i - Len(c)]
  BY ConcatProperties
<1> DEFINE m == Len(c)
           n == Len(d)
           e == c \o d
<1>5. (\A i \in 1 .. m + n : e[i].ok) => (\A i \in 1 .. m : c[i].ok) /\ (\A i \in 1 .. n : d[i].ok)
  <2>1. SUFFICES ASSUME \A i \in 1 .. m + n : e[i].ok
                 PROVE  (\A i \in 1 .. m : c[i].ok) /\ (\A i \in 1 .. n : d[i].ok)
    OBVIOUS
  <2> HIDE DEF m, n, e
  <2>2. ASSUME NEW i \in 1 .. m PROVE c[i].ok
    <3>1. i \in 1 .. m + n /\ i <= m
      BY <1>1 DEF m, n
    <3>2. QED BY <1>4, <2>1, <3>1 DEF m, n, e
  <2>3. ASSUME NEW i \in 1 .. n PROVE d[i].ok
    <3>1. m + i \in 1 .. m + n /\ ~(m + i <= m) /\ (m + i) - m = i
      BY <1>1 DEF m, n
    <3>2. e[m + i] = d[(m + i) - m]
      BY <1>4, <3>1 DEF m, n, e
    <3>3. QED BY <2>1, <3>1, <3>2
  <2>4. QED BY <2>2, <2>3
<1>6. (\A i \in 1 .. m : c[i].ok) /\ (\A i \in 1 .. n : d[i].ok) => \A i \in 1 .. m + n : e[i].ok
  <2>1. SUFFICES ASSUME \A i \in 1 .. m : c[i].ok, \A i \in 1 .. n : d[i].ok, NEW i \in 1 .. m + n
                 PROVE  e[i].ok
    OBVIOUS
  <2> HIDE DEF m, n, e
  <2>2. CASE i <= m
    <3>1. i \in 1 .. m /\ e[i] = c[i]
      BY <1>1, <1>4, <2>2 DEF m, n, e
    <3>2. QED BY <2>1, <3>1
  <2>3. CASE ~(i <= m)
    <3>1. i - m \in 1 .. n
      BY <1>1, <2>3 DEF m, n
    <3>2. e[i] = d[i - m]
      BY <1>4, <2>3 DEF m, n, e
    <3>3. QED BY <2>1, <3>1, <3>2
  <2>4. QED BY <2>2, <2>3
<1>7. QED BY <1>1, <1>2, <1>3, <1>5, <1>6, Zenon DEF Pass

\* What the checks of each parser come to.
LEMMA ChecksOfParser ==
  ASSUME NEW l, NEW pc
  PROVE  LET by == Parser(l.mnemonic)
             P   == Pass(Checks(l, pc))
         IN /\ Checks(l, pc) \in Seq(Check)
            /\ by \in {{}, {"nothing"}, {"reg"}, {"resolve"}, {"reg2"}, {"reg3"}, {"reg_imm"},
                       {"reg_reg_imm"}, {"reg_reg_label"}, {"reg_mem"}}
            /\ by = {} => ~P
            /\ by = {"nothing"} => P
            /\ by = {"reg"} => (P <=> IsReg(Op(l, 1)).ok)
            /\ by = {"resolve"} => (P <=> Resolves(Op(l, 1), pc).ok)
            /\ by = {"reg2"} =>
                 (P <=> Enough(l, 2).ok /\ IsReg(Op(l, 1)).ok /\ IsReg(Op(l, 2)).ok)
            /\ by = {"reg3"} =>
                 (P <=> /\ Enough(l, 3).ok /\ IsReg(Op(l, 1)).ok /\ IsReg(Op(l, 2)).ok
                        /\ IsReg(Op(l, 3)).ok)
            /\ by = {"reg_imm"} =>
                 (P <=> Enough(l, 2).ok /\ IsReg(Op(l, 1)).ok /\ Resolves(Op(l, 2), pc).ok)
            /\ by \in {{"reg_reg_imm"}, {"reg_reg_label"}} =>
                 (P <=> /\ Enough(l, 3).ok /\ IsReg(Op(l, 1)).ok /\ IsReg(Op(l, 2)).ok
                        /\ Resolves(Op(l, 3), pc).ok)
            /\ by = {"reg_mem"} =>
                 (P <=> /\ Enough(l, 2).ok /\ IsReg(Op(l, 1)).ok /\ IsMem(Op(l, 2)).ok
                        /\ Op(l, 2).kind = "mem" => IsReg(Op(l, 2).base).ok)
<1> DEFINE by == Parser(l.mnemonic)
           unknown == [ok |-> FALSE, error |-> "UnknownInstruction"]
<1>1. by \in {{}, {"nothing"}, {"reg"}, {"resolve"}, {"reg2"}, {"reg3"}, {"reg_imm"},
              {"reg_reg_imm"}, {"reg_reg_label"}, {"reg_mem"}}
  BY DEF Parser
<1>2. /\ unknown \in Check /\ ~unknown.ok
      /\ \A n : Enough(l, n) \in Check
      /\ \A t : IsReg(t) \in Check /\ Resolves(t, pc) \in Check /\ IsMem(t) \in Check
  BY ChecksTyped
<1>3. <<>> \in Seq(Check) /\ Pass(<<>>)
  BY DEF Pass
<1> HIDE DEF by, unknown
<1>4. CASE by = {}
  <2>1. Checks(l, pc) = <<unknown>>
    BY <1>4 DEF Checks, by, unknown
  <2>2. QED BY <1>1, <1>2, <1>4, <2>1, PassOne DEF by
<1>5. CASE by = {"nothing"}
  <2>1. Checks(l, pc) = <<>>
    BY <1>5 DEF Checks, by
  <2>2. QED BY <1>1, <1>3, <1>5, <2>1 DEF by
<1>6. CASE by = {"reg"}
  <2>1. Checks(l, pc) = <<IsReg(Op(l, 1))>>
    BY <1>6 DEF Checks, by
  <2>2. QED BY <1>1, <1>2, <1>6, <2>1, PassOne DEF by
<1>7. CASE by = {"resolve"}
  <2>1. Checks(l, pc) = <<Resolves(Op(l, 1), pc)>>
    BY <1>7 DEF Checks, by
  <2>2. QED BY <1>1, <1>2, <1>7, <2>1, PassOne DEF by
<1>8. CASE by = {"reg2"}
  <2>1. Checks(l, pc) = <<Enough(l, 2), IsReg(Op(l, 1)), IsReg(Op(l, 2))>>
    BY <1>8 DEF Checks, by
  <2>2. QED BY <1>1, <1>2, <1>8, <2>1, PassThree DEF by
<1>9. CASE by = {"reg3"}
  <2>1. Checks(l, pc) = <<Enough(l, 3), IsReg(Op(l, 1)), IsReg(Op(l, 2)), IsReg(Op(l, 3))>>
    BY <1>9 DEF Checks, by
  <2>2. QED BY <1>1, <1>2, <1>9, <2>1, PassFour DEF by
<1>10. CASE by = {"reg_imm"}
  <2>1. Checks(l, pc) = <<Enough(l, 2), IsReg(Op(l, 1)), Resolves(Op(l, 2), pc)>>
    BY <1>10 DEF Checks, by
  <2>2. QED BY <1>1, <1>2, <1>10, <2>1, PassThree DEF by
<1>11. CASE by = {"reg_reg_imm"}
  <2>1. Checks(l, pc) = <<Enough(l, 3), IsReg(Op(l, 1)), IsReg(Op(l, 2)), Resolves(Op(l, 3), pc)>>
    BY <1>11 DEF Checks, by
  <2>2. QED BY <1>1, <1>2, <1>11, <2>1, PassFour DEF by
<1>12. CASE by = {"reg_reg_label"}
  <2>1. Checks(l, pc) = <<Enough(l, 3), Resolves(Op(l, 3), pc), IsReg(Op(l, 1)), IsReg(Op(l, 2))>>
    BY <1>12 DEF Checks, by
  <2>2. QED BY <1>1, <1>2, <1>12, <2>1, PassFour DEF by
<1>13. CASE by = {"reg_mem"}
  <2> DEFINE front == <<Enough(l, 2), IsReg(Op(l, 1)), IsMem(Op(l, 2))>>
             back  == IF Op(l, 2).kind = "mem" THEN <<IsReg(Op(l, 2).base)>> ELSE <<>>
  <2>1. Checks(l, pc) = front \o back
    BY <1>13 DEF Checks, by
  <2>2. /\ front \in Seq(Check)
        /\ Pass(front) <=> Enough(l, 2).ok /\ IsReg(Op(l, 1)).ok /\ IsMem(Op(l, 2)).ok
    BY <1>2, PassThree
  <2>3. /\ back \in Seq(Check)
        /\ Pass(back) <=> (Op(l, 2).kind = "mem" => IsReg(Op(l, 2).base).ok)
    <3>1. CASE Op(l, 2).kind = "mem"
      BY <1>2, <3>1, PassOne
    <3>2. CASE Op(l, 2).kind # "mem"
      BY <1>3, <3>2
    <3>3. QED BY <3>1, <3>2
  <2> HIDE DEF front, back
  <2>4. Checks(l, pc) \in Seq(Check) /\ (Pass(Checks(l, pc)) <=> Pass(front) /\ Pass(back))
    BY <2>1, <2>2, <2>3, PassBoth
  <2>5. QED BY <1>1, <1>13, <2>2, <2>3, <2>4 DEF by
<1>14. QED
  BY <1>1, <1>4, <1>5, <1>6, <1>7, <1>8, <1>9, <1>10, <1>11, <1>12, <1>13

\* A line has an error unless all checks pass, and never two.
LEMMA ErrorsAre ==
  ASSUME NEW l, NEW pc
  PROVE  (ErrorsOf(l, pc) = {} <=> Pass(Checks(l, pc))) /\ ErrorsOf(l, pc) \in Option(AsmError)
<1>1. PICK c : c = Checks(l, pc)
  OBVIOUS
<1>2. c \in Seq(Check)
  BY <1>1, ChecksOfParser
<1>3. Len(c) \in Nat /\ DOMAIN c = 1 .. Len(c) /\ \A j \in DOMAIN c : c[j] \in Check
  BY <1>2
<1> DEFINE F == {j \in DOMAIN c : ~c[j].ok /\ \A k \in 1 .. j - 1 : c[k].ok}
<1>4. ErrorsOf(l, pc) = {c[i].error : i \in F}
  BY <1>1 DEF ErrorsOf
<1>5. F = {} <=> Pass(c)
  <2>1. ASSUME F = {}, NEW j \in DOMAIN c PROVE c[j].ok
    BY <1>3, <2>1, FirstFailure
  <2>2. QED BY <2>1 DEF Pass
<1>6. ASSUME NEW i \in F, NEW j \in F PROVE i = j
  <2>1. i \in Nat \ {0} /\ j \in Nat \ {0} /\ ~c[i].ok /\ ~c[j].ok
    BY <1>3
  <2>2. ~(i < j)
    <3>1. SUFFICES ASSUME i < j PROVE FALSE
      OBVIOUS
    <3>2. i \in 1 .. j - 1
      BY <2>1, <3>1
    <3>3. QED BY <2>1, <3>2
  <2>3. ~(j < i)
    <3>1. SUFFICES ASSUME j < i PROVE FALSE
      OBVIOUS
    <3>2. j \in 1 .. i - 1
      BY <2>1, <3>1
    <3>3. QED BY <2>1, <3>2
  <2>4. QED BY <2>1, <2>2, <2>3
<1>7. \A i \in F : c[i].error \in AsmError
  BY <1>3 DEF Check
<1> HIDE DEF F
<1>8. CASE F = {}
  BY <1>1, <1>4, <1>5, <1>8 DEF Option
<1>9. CASE F # {}
  <2>1. PICK i \in F : F = {i}
    BY <1>6, <1>9
  <2>2. ErrorsOf(l, pc) = {c[i].error}
    BY <1>4, <2>1
  <2>3. QED BY <1>1, <1>5, <1>7, <1>9, <2>2 DEF Option
<1>10. QED BY <1>8, <1>9

\* The labels are those that stand somewhere in the source.
LabelsKnown == DOMAIN labels = Defined

\* A check of an operand passes for what WellFormed says of its text.
LEMMA OperandChecks ==
  ASSUME LabelsKnown, NEW t, NEW pc
  PROVE  /\ IsReg(t).ok <=> RegText(t)
         /\ Resolves(t, pc).ok <=> ImmText(t)
         /\ IsMem(t).ok /\ (t.kind = "mem" => IsReg(t.base).ok) <=> MemText(t)
<1>1. \A u : RegOf(u) # {} <=> RegText(u)
  BY DEF RegOf, RegText
<1>2. Resolved(t, pc) # {} <=> ImmText(t)
  BY DEF Resolved, ImmText, LabelsKnown
<1>3. QED BY <1>1, <1>2 DEF IsReg, Resolves, IsMem, MemText

LEMMA OperandsThere ==
  ASSUME NEW l, IsSequence(l.ops)
  PROVE  /\ Len(l.ops) \in Nat
         /\ \A i \in {1, 2, 3} :
              /\ Len(l.ops) >= i => Op(l, i) = l.ops[i]
              /\ ~(Len(l.ops) >= i) =>
                   ~RegText(Op(l, i)) /\ ~ImmText(Op(l, i)) /\ ~MemText(Op(l, i))
<1>1. PICK S : l.ops \in Seq(S)
  BY DEF IsSequence
<1>2. Len(l.ops) \in Nat /\ DOMAIN l.ops = 1 .. Len(l.ops)
  BY <1>1
<1>3. ~RegText(Empty) /\ ~ImmText(Empty) /\ ~MemText(Empty)
  BY DEF Empty, RegText, ImmText, MemText
<1>4. QED BY <1>2, <1>3 DEF Op

LEMMA TakesOperands ==
  ASSUME NEW l, NEW a, NEW b, NEW c
  PROVE  /\ Takes(l, <<a>>) <=> Len(l.ops) >= 1 /\ IsText(a, l.ops[1])
         /\ Takes(l, <<a, b>>) <=> Len(l.ops) >= 2 /\ IsText(a, l.ops[1]) /\ IsText(b, l.ops[2])
         /\ Takes(l, <<a, b, c>>) <=>
              Len(l.ops) >= 3 /\ IsText(a, l.ops[1]) /\ IsText(b, l.ops[2]) /\ IsText(c, l.ops[3])
<1>1. Len(<<a>>) = 1 /\ Len(<<a, b>>) = 2 /\ Len(<<a, b, c>>) = 3
  OBVIOUS
<1>2. DOMAIN <<a>> = {1} /\ DOMAIN <<a, b>> = {1, 2} /\ DOMAIN <<a, b, c>> = {1, 2, 3}
  OBVIOUS
<1>3. QED BY <1>1, <1>2 DEF Takes

LEMMA WellFormedByParser ==
  ASSUME NEW l
  PROVE  LET by == Parser(l.mnemonic)
             W  == WellFormed(l)
             t1 == l.ops[1]
             t2 == l.ops[2]
             t3 == l.ops[3]
             n  == Len(l.ops)
         IN /\ by = {} => ~W
            /\ by = {"nothing"} => (W <=> n >= 0)
            /\ by = {"reg"} => (W <=> n >= 1 /\ RegText(t1))
            /\ by = {"resolve"} => (W <=> n >= 1 /\ ImmText(t1))
            /\ by = {"reg2"} => (W <=> n >= 2 /\ RegText(t1) /\ RegText(t2))
            /\ by = {"reg3"} => (W <=> n >= 3 /\ RegText(t1) /\ RegText(t2) /\ RegText(t3))
            /\ by = {"reg_imm"} => (W <=> n >= 2 /\ RegText(t1) /\ ImmText(t2))
            /\ by \in {{"reg_reg_imm"}, {"reg_reg_label"}} =>
                 (W <=> n >= 3 /\ RegText(t1) /\ RegText(t2) /\ ImmText(t3))
            /\ by = {"reg_mem"} => (W <=> n >= 2 /\ RegText(t1) /\ MemText(t2))
<1> DEFINE by == Parser(l.mnemonic)
           t1 == l.ops[1]
           t2 == l.ops[2]
           t3 == l.ops[3]
           n  == Len(l.ops)
<1>1. \A t : /\ IsText("reg", t) <=> RegText(t)
             /\ IsText("imm", t) <=> ImmText(t)
             /\ IsText("mem", t) <=> MemText(t)
  BY DEF IsText
<1>2. /\ OperandKinds["nothing"] = <<>>
      /\ OperandKinds["reg"] = <<"reg">> /\ OperandKinds["resolve"] = <<"imm">>
      /\ OperandKinds["reg2"] = <<"reg", "reg">> /\ OperandKinds["reg_imm"] = <<"reg", "imm">>
      /\ OperandKinds["reg_mem"] = <<"reg", "mem">>
      /\ OperandKinds["reg3"] = <<"reg", "reg", "reg">>
      /\ OperandKinds["reg_reg_imm"] = <<"reg", "reg", "imm">>
      /\ OperandKinds["reg_reg_label"] = <<"reg", "reg", "imm">>
  BY DEF OperandKinds
<1>3. Takes(l, <<>>) <=> n >= 0
  BY DEF Takes
<1>4. \A p : by = {p} => (WellFormed(l) <=> Takes(l, OperandKinds[p]))
  BY DEF WellFormed
<1>5. by = {} => ~WellFormed(l)
  BY DEF WellFormed
<1> HIDE DEF by, n, t1, t2, t3
<1>6. by = {"nothing"} => (WellFormed(l) <=> n >= 0)
  BY <1>2, <1>3, <1>4
<1>7. by = {"reg"} => (WellFormed(l) <=> n >= 1 /\ RegText(t1))
  BY <1>1, <1>2, <1>4, TakesOperands DEF n, t1
<1>8. by = {"resolve"} => (WellFormed(l) <=> n >= 1 /\ ImmText(t1))
  BY <1>1, <1>2, <1>4, TakesOperands DEF n, t1
<1>9. by = {"reg2"} => (WellFormed(l) <=> n >= 2 /\ RegText(t1) /\ RegText(t2))
  BY <1>1, <1>2, <1>4, TakesOperands DEF n, t1, t2
<1>10. by = {"reg3"} => (WellFormed(l) <=> n >= 3 /\ RegText(t1) /\ RegText(t2) /\ RegText(t3))
  BY <1>1, <1>2, <1>4, TakesOperands DEF n, t1, t2, t3
<1>11. by = {"reg_imm"} => (WellFormed(l) <=> n >= 2 /\ RegText(t1) /\ ImmText(t2))
  BY <1>1, <1>2, <1>4, TakesOperands DEF n, t1, t2
<1>12. by \in {{"reg_reg_imm"}, {"reg_reg_label"}} =>
         (WellFormed(l) <=> n >= 3 /\ RegText(t1) /\ RegText(t2) /\ ImmText(t3))
  <2>1. Takes(l, <<"reg", "reg", "imm">>)
          <=> n >= 3 /\ RegText(t1) /\ RegText(t2) /\ ImmText(t3)
    BY <1>1, TakesOperands DEF n, t1, t2, t3
  <2>2. by \in {{"reg_reg_imm"}, {"reg_reg_label"}} =>
          (WellFormed(l) <=> Takes(l, <<"reg", "reg", "imm">>))
    BY <1>2, <1>4
  <2>3. QED BY <2>1, <2>2
<1>13. by = {"reg_mem"} => (WellFormed(l) <=> n >= 2 /\ RegText(t1) /\ MemText(t2))
  BY <1>1, <1>2, <1>4, TakesOperands DEF n, t1, t2
<1>14. QED BY <1>5, <1>6, <1>7, <1>8, <1>9, <1>10, <1>11, <1>12, <1>13 DEF by, n, t1, t2, t3

LEMMA AcceptedIsWellFormed ==
  ASSUME LabelsKnown, NEW l, IsSequence(l.ops), NEW pc
  PROVE  ErrorsOf(l, pc) = {} <=> WellFormed(l)
<1> DEFINE by == Parser(l.mnemonic)
           n  == Len(l.ops)
<1>1. \A t : /\ IsReg(t).ok <=> RegText(t)
             /\ Resolves(t, pc).ok <=> ImmText(t)
             /\ IsMem(t).ok /\ (t.kind = "mem" => IsReg(t.base).ok) <=> MemText(t)
  BY OperandChecks
<1>2. \A k : Enough(l, k).ok <=> n >= k
  BY DEF Enough
<1>3. n \in Nat /\ \A i \in {1, 2, 3} :
        /\ n >= i => Op(l, i) = l.ops[i]
        /\ ~(n >= i) => ~RegText(Op(l, i)) /\ ~ImmText(Op(l, i)) /\ ~MemText(Op(l, i))
  BY OperandsThere
<1> DEFINE P == Pass(Checks(l, pc))
           W == WellFormed(l)
<1>4. ErrorsOf(l, pc) = {} <=> P
  BY ErrorsAre
<1>5. /\ by \in {{}, {"nothing"}, {"reg"}, {"resolve"}, {"reg2"}, {"reg3"}, {"reg_imm"},
                 {"reg_reg_imm"}, {"reg_reg_label"}, {"reg_mem"}}
      /\ by = {"nothing"} => (WellFormed(l) <=> n >= 0)
  BY ChecksOfParser, WellFormedByParser
<1> HIDE DEF by, n, P, W
<1>6. CASE by \in {{}, {"nothing"}}
  BY <1>3, <1>4, <1>5, <1>6, ChecksOfParser, WellFormedByParser DEF by, P
<1>7. CASE by \in {{"reg"}, {"resolve"}}
  BY <1>1, <1>3, <1>4, <1>7, ChecksOfParser, WellFormedByParser DEF by, n, P
<1>8. CASE by = {"reg2"}
  <2>1. P <=> /\ Enough(l, 2).ok /\ IsReg(Op(l, 1)).ok
               /\ IsReg(Op(l, 2)).ok
    BY <1>8, ChecksOfParser DEF by, P
  <2>2. W <=> /\ n >= 2 /\ RegText(l.ops[1])
               /\ RegText(l.ops[2])
    BY <1>8, WellFormedByParser DEF by, n, W
  <2>3. P <=> /\ n >= 2 /\ RegText(Op(l, 1))
               /\ RegText(Op(l, 2))
    BY <1>1, <1>2, <2>1
  <2>4. n >= 2 => Op(l, 1) = l.ops[1] /\ Op(l, 2) = l.ops[2]
    BY <1>3
  <2>5. QED BY <1>4, <2>2, <2>3, <2>4 DEF W
<1>9. CASE by = {"reg3"}
  <2>1. P <=> /\ Enough(l, 3).ok /\ IsReg(Op(l, 1)).ok
               /\ IsReg(Op(l, 2)).ok /\ IsReg(Op(l, 3)).ok
    BY <1>9, ChecksOfParser DEF by, P
  <2>2. W <=> /\ n >= 3 /\ RegText(l.ops[1])
               /\ RegText(l.ops[2]) /\ RegText(l.ops[3])
    BY <1>9, WellFormedByParser DEF by, n, W
  <2>3. P <=> /\ n >= 3 /\ RegText(Op(l, 1))
               /\ RegText(Op(l, 2)) /\ RegText(Op(l, 3))
    BY <1>1, <1>2, <2>1
  <2>4. n >= 3 => Op(l, 1) = l.ops[1] /\ Op(l, 2) = l.ops[2] /\ Op(l, 3) = l.ops[3]
    BY <1>3
  <2>5. QED BY <1>4, <2>2, <2>3, <2>4 DEF W
<1>10. CASE by = {"reg_imm"}
  <2>1. P <=> /\ Enough(l, 2).ok /\ IsReg(Op(l, 1)).ok
               /\ Resolves(Op(l, 2), pc).ok
    BY <1>10, ChecksOfParser DEF by, P
  <2>2. W <=> /\ n >= 2 /\ RegText(l.ops[1])
               /\ ImmText(l.ops[2])
    BY <1>10, WellFormedByParser DEF by, n, W
  <2>3. P <=> /\ n >= 2 /\ RegText(Op(l, 1))
               /\ ImmText(Op(l, 2))
    BY <1>1, <1>2, <2>1
  <2>4. n >= 2 => Op(l, 1) = l.ops[1] /\ Op(l, 2) = l.ops[2]
    BY <1>3
  <2>5. QED BY <1>4, <2>2, <2>3, <2>4 DEF W
<1>11. CASE by \in {{"reg_reg_imm"}, {"reg_reg_label"}}
  <2>1. P <=> /\ Enough(l, 3).ok /\ IsReg(Op(l, 1)).ok
               /\ IsReg(Op(l, 2)).ok /\ Resolves(Op(l, 3), pc).ok
    BY <1>11, ChecksOfParser DEF by, P
  <2>2. W <=> /\ n >= 3 /\ RegText(l.ops[1])
               /\ RegText(l.ops[2]) /\ ImmText(l.ops[3])
    BY <1>11, WellFormedByParser DEF by, n, W
  <2>3. P <=> /\ n >= 3 /\ RegText(Op(l, 1))
               /\ RegText(Op(l, 2)) /\ ImmText(Op(l, 3))
    BY <1>1, <1>2, <2>1
  <2>4. n >= 3 => Op(l, 1) = l.ops[1] /\ Op(l, 2) = l.ops[2] /\ Op(l, 3) = l.ops[3]
    BY <1>3
  <2>5. QED BY <1>4, <2>2, <2>3, <2>4 DEF W
<1>12. CASE by = {"reg_mem"}
  <2>1. P <=> /\ Enough(l, 2).ok /\ IsReg(Op(l, 1)).ok
               /\ IsMem(Op(l, 2)).ok /\ (Op(l, 2).kind = "mem" => IsReg(Op(l, 2).base).ok)
    BY <1>12, ChecksOfParser DEF by, P
  <2>2. W <=> /\ n >= 2 /\ RegText(l.ops[1])
               /\ MemText(l.ops[2])
    BY <1>12, WellFormedByParser DEF by, n, W
  <2>3. P <=> /\ n >= 2 /\ RegText(Op(l, 1))
               /\ MemText(Op(l, 2))
    BY <1>1, <1>2, <2>1
  <2>4. n >= 2 => Op(l, 1) = l.ops[1] /\ Op(l, 2) = l.ops[2]
    BY <1>3
  <2>5. QED BY <1>4, <2>2, <2>3, <2>4 DEF W
<1>13. QED BY <1>5, <1>6, <1>7, <1>8, <1>9, <1>10, <1>11, <1>12 DEF W

\* Every word that is put together is one of 32 bits.
LEMMA FormatsTyped ==
  ASSUME NEW a, NEW b, NEW c, NEW d, NEW e, NEW opcode \in Word32
  PROVE  /\ RType(a, b, c, d, e, opcode) \in Word32 /\ IType(a, b, c, d, opcode) \in Word32
         /\ SType(a, b, c, d, opcode) \in Word32 /\ BType(a, b, c, d, opcode) \in Word32
         /\ UType(a, b, opcode) \in Word32 /\ JType(a, b, opcode) \in Word32
<1>1. \A w, k : Shl(w, k) \in Word32
  BY DEF Shl, Word32
<1>2. \A w : w \cap 12 .. 31 \in Word32 /\ w \cap 12 .. 19 \in Word32
  BY DEF Word32
<1>3. \A u, v \in Word32 : u \cup v \in Word32
  BY DEF Word32
<1>4. QED BY <1>1, <1>2, <1>3 DEF RType, IType, SType, BType, UType, JType

LEMMA NumbersTyped ==
  ASSUME NEW n
  PROVE  Unsigned(n) \in Word32 /\ Bits(n) \in Word32
BY DEF Unsigned, Bits, Word32

LEMMA EncodedTyped ==
  ASSUME NEW l, NEW pc, Parser(l.mnemonic) # {}
  PROVE  Encoded(l, pc) \in Word32
<1>1. \A n : Unsigned(n) \in Word32 /\ Bits(n) \in Word32
  BY NumbersTyped
<1>2. \A n, a, b, c, d, e :
        /\ RType(a, b, c, d, e, Unsigned(n)) \in Word32 /\ IType(a, b, c, d, Unsigned(n)) \in Word32
        /\ SType(a, b, c, d, Unsigned(n)) \in Word32 /\ BType(a, b, c, d, Unsigned(n)) \in Word32
        /\ UType(a, b, Unsigned(n)) \in Word32 /\ JType(a, b, Unsigned(n)) \in Word32
  BY <1>1, FormatsTyped
<1>3. \/ l.mnemonic \in {"nop", "ret", "mv", "not", "neg", "li", "lui", "auipc", "jal", "j",
                          "jr", "jalr"}
      \/ l.mnemonic \in DOMAIN RegRows \/ l.mnemonic \in DOMAIN ImmRows
      \/ l.mnemonic \in DOMAIN LoadRows \/ l.mnemonic \in DOMAIN StoreRows
      \/ l.mnemonic \in DOMAIN BranchRows
  BY DEF Parser
<1>4. QED BY <1>1, <1>2, <1>3, ZenonT(30) DEF Encoded, OpImm, OpReg

\* What a line is encoded to depends on the labels only.
LEMMA EncodedKept ==
  ASSUME labels' = labels
  PROVE  \A l, pc : Encoded(l, pc)' = Encoded(l, pc)
<1>1. \A t, pc : Resolved(t, pc)' = Resolved(t, pc)
  BY DEF Resolved
<1>2. QED BY <1>1 DEF Encoded

-----------------------------------------------------------------------------
(* The assembler: the lines kept by clean(), and the labels. *)

\* The n first lines of s without the blank ones are ls; line k of ls is line f[k] of s,
\* at the address behind the instructions in front of it.
KeptAt(s, n, ls, f) ==
  /\ f \in [DOMAIN ls -> 1 .. n]
  /\ \A j, k \in DOMAIN ls : j < k => f[j] < f[k]
  /\ \A i \in 1 .. n : s[i].kind # "blank" => \E k \in DOMAIN ls : f[k] = i
  /\ \A k \in DOMAIN ls : /\ ls[k] = [addr |-> 4 * Instrs(s, f[k] - 1), line |-> s[f[k]]]
                          /\ s[f[k]].kind # "blank"

LineOf(s) == [addr : Nat, line : {s[i] : i \in DOMAIN s}]

LEMMA KeptNothing == ASSUME NEW s PROVE KeptAt(s, 0, <<>>, <<>>)
<1>1. DOMAIN <<>> = {}
  OBVIOUS
<1>2. <<>> \in [{} -> 1 .. 0]
  OBVIOUS
<1>3. QED BY <1>1, <1>2 DEF KeptAt

LEMMA KeptBlank ==
  ASSUME NEW s, NEW n \in Nat \ {0}, NEW ls, NEW f, KeptAt(s, n - 1, ls, f), s[n].kind = "blank"
  PROVE  KeptAt(s, n, ls, f)
<1>1. 1 .. n = (1 .. n - 1) \cup {n}
  OBVIOUS
<1>2. QED BY <1>1 DEF KeptAt

LEMMA KeptLine ==
  ASSUME NEW s, NEW n \in Nat \ {0}, NEW S, NEW ls \in Seq(S), NEW f, KeptAt(s, n - 1, ls, f),
         s[n].kind # "blank", NEW x \in S,
         x = [addr |-> 4 * Instrs(s, n - 1), line |-> s[n]]
  PROVE  \E g : KeptAt(s, n, Append(ls, x), g)
<1> DEFINE m  == Len(ls)
           as == Append(ls, x)
           g  == [k \in 1 .. m + 1 |-> IF k <= m THEN f[k] ELSE n]
<1>1. m \in Nat /\ DOMAIN ls = 1 .. m
  BY LenProperties
<1>2. as \in Seq(S) /\ Len(as) = m + 1 /\ as[m + 1] = x /\ \A k \in 1 .. m : as[k] = ls[k]
  BY AppendProperties
<1>3. DOMAIN as = 1 .. m + 1
  BY <1>2, LenProperties
<1>4. /\ f \in [1 .. m -> 1 .. n - 1]
      /\ \A j, k \in 1 .. m : j < k => f[j] < f[k]
      /\ \A i \in 1 .. n - 1 : s[i].kind # "blank" => \E k \in 1 .. m : f[k] = i
      /\ \A k \in 1 .. m : /\ ls[k] = [addr |-> 4 * Instrs(s, f[k] - 1), line |-> s[f[k]]]
                           /\ s[f[k]].kind # "blank"
  BY <1>1 DEF KeptAt
<1> HIDE DEF m, as
<1>5. /\ m + 1 \in 1 .. m + 1 /\ g[m + 1] = n
      /\ \A k \in 1 .. m : k \in 1 .. m + 1 /\ g[k] = f[k] /\ g[k] \in 1 .. n - 1
      /\ \A k \in 1 .. m + 1 : k \in 1 .. m \/ k = m + 1
  BY <1>1, <1>4
<1> HIDE DEF g
<1>6. g \in [1 .. m + 1 -> 1 .. n]
  <2>1. \A k \in 1 .. m + 1 : g[k] \in 1 .. n
    BY <1>5
  <2>2. QED BY <2>1 DEF g
<1>7. ASSUME NEW j \in 1 .. m + 1, NEW k \in 1 .. m + 1, j < k PROVE g[j] < g[k]
  <2>1. j \in 1 .. m
    BY <1>1, <1>7
  <2>2. CASE k \in 1 .. m
    BY <1>4, <1>5, <1>7, <2>1, <2>2
  <2>3. CASE k = m + 1
    BY <1>5, <2>1, <2>3
  <2>4. QED BY <1>5, <2>2, <2>3
<1>8. ASSUME NEW i \in 1 .. n, s[i].kind # "blank" PROVE \E k \in 1 .. m + 1 : g[k] = i
  <2>1. CASE i \in 1 .. n - 1
    BY <1>4, <1>5, <1>8, <2>1
  <2>2. CASE i = n
    BY <1>5, <2>2
  <2>3. QED BY <2>1, <2>2
<1>9. ASSUME NEW k \in 1 .. m + 1
      PROVE  /\ as[k] = [addr |-> 4 * Instrs(s, g[k] - 1), line |-> s[g[k]]]
             /\ s[g[k]].kind # "blank"
  <2>1. CASE k \in 1 .. m
    BY <1>2, <1>4, <1>5, <2>1
  <2>2. CASE k = m + 1
    BY <1>2, <1>5, <2>2
  <2>3. QED BY <1>5, <2>1, <2>2
<1>10. KeptAt(s, n, as, g)
  BY <1>3, <1>6, <1>7, <1>8, <1>9 DEF KeptAt
<1>11. QED BY <1>10 DEF as

\* The last line of a label is kept last of its lines, so its address is where the label
\* stands in the source.
LabelsRight == LabelsKnown /\ \A name \in Defined : labels[name] = AddrOf(name)

LEMMA LabelIsNoInstr == ASSUME NEW name PROVE LabelLine(name).kind = "label"
BY DEF LabelLine

LEMMA CollectedLabelsRight ==
  ASSUME NEW f, NEW n \in Nat, DOMAIN source = 1 .. n,
         NEW m \in Nat, m = Len(lines), DOMAIN lines = 1 .. m,
         KeptAt(source, n, lines, f), labels' = LabelsCollected, source' = source
  PROVE  LabelsRight'
<1> DEFINE At(name) == {k \in 1 .. m : LabelAt(k, name)}
<1>1. /\ f \in [1 .. m -> 1 .. n]
      /\ \A j, k \in 1 .. m : j < k => f[j] < f[k]
      /\ \A i \in 1 .. n : source[i].kind # "blank" => \E k \in 1 .. m : f[k] = i
      /\ \A k \in 1 .. m :
           lines[k].addr = 4 * Instrs(source, f[k] - 1) /\ lines[k].line = source[f[k]]
  <2>1. f \in [1 .. m -> 1 .. n]
    BY DEF KeptAt
  <2>2. \A j, k \in 1 .. m : j < k => f[j] < f[k]
    BY DEF KeptAt
  <2>3. \A i \in 1 .. n : source[i].kind # "blank" => \E k \in 1 .. m : f[k] = i
    BY DEF KeptAt
  <2>4. ASSUME NEW k \in 1 .. m
        PROVE  lines[k].addr = 4 * Instrs(source, f[k] - 1) /\ lines[k].line = source[f[k]]
    <3>1. lines[k] = [addr |-> 4 * Instrs(source, f[k] - 1), line |-> source[f[k]]]
      BY DEF KeptAt
    <3>2. QED BY ONLY <3>1
  <2>5. QED BY ONLY <2>1, <2>2, <2>3, <2>4
<1>2. ASSUME NEW name
      PROVE  /\ \A k \in At(name) : f[k] \in LabelLines(name)
             /\ \A i \in LabelLines(name) : \E k \in At(name) : f[k] = i
  <2>1. \A k \in At(name) : f[k] \in LabelLines(name)
    BY <1>1 DEF LabelAt, LabelLines
  <2>2. ASSUME NEW i \in LabelLines(name) PROVE \E k \in At(name) : f[k] = i
    <3>1. i \in 1 .. n /\ source[i] = LabelLine(name) /\ source[i].kind # "blank"
      BY LabelIsNoInstr DEF LabelLines
    <3>2. PICK k \in 1 .. m : f[k] = i
      BY <1>1, <3>1
    <3>3. k \in At(name)
      BY <1>1, <3>1, <3>2 DEF LabelAt
    <3>4. QED BY <3>2, <3>3
  <2>3. QED BY <2>1, <2>2
<1>3. DOMAIN LabelsCollected = Defined
  <2>1. \A name : At(name) # {} <=> LabelLines(name) # {}
    BY <1>2
  <2>2. DOMAIN LabelsCollected = {name \in Names : \E i \in 1 .. m : LabelAt(i, name)}
    BY DEF LabelsCollected
  <2>3. QED BY <2>1, <2>2 DEF Defined
<1>4. ASSUME NEW name \in Defined PROVE LabelsCollected[name] = AddrOf(name)
  <2> DEFINE Last(k) == LabelAt(k, name) /\ \A j \in k + 1 .. m : ~LabelAt(j, name)
             k == CHOOSE k \in 1 .. m : Last(k)
             Final(i) == \A j \in LabelLines(name) : j <= i
             at == CHOOSE i \in LabelLines(name) : Final(i)
  <2>1. name \in Names /\ LabelLines(name) # {} /\ At(name) # {}
    BY <1>2 DEF Defined
  <2>2. k \in 1 .. m /\ Last(k)
    <3>1. PICK p \in At(name) : \A q \in At(name) : q <= p
      <4>1. At(name) \in SUBSET (1 .. m)
        OBVIOUS
      <4> HIDE DEF At
      <4>2. QED BY <2>1, <4>1, LastOf
    <3>2. p \in 1 .. m /\ Last(p)
      <4>1. ASSUME NEW j \in p + 1 .. m, LabelAt(j, name) PROVE FALSE
        <5>1. j \in At(name) /\ ~(j <= p)
          BY <4>1
        <5>2. QED BY <3>1, <5>1
      <4>2. QED BY <4>1
    <3> HIDE DEF Last
    <3>3. QED BY <3>2
  <2>3. LabelsCollected[name] = lines[k].addr
    BY <2>1, <1>3 DEF LabelsCollected, Defined
  <2>4. f[k] \in LabelLines(name) /\ Final(f[k])
    <3>1. k \in At(name)
      BY <2>2
    <3>2. ASSUME NEW i \in LabelLines(name) PROVE i <= f[k]
      <4>1. PICK j \in At(name) : f[j] = i
        BY <1>2
      <4>2. ~(k < j)
        BY <2>2, <4>1
      <4> HIDE DEF k, Last
      <4>3. j \in 1 .. m /\ k \in 1 .. m /\ f[j] \in 1 .. n /\ f[k] \in 1 .. n
        <5>1. j \in 1 .. m /\ k \in 1 .. m
          BY <2>2, <4>1
        <5>2. QED BY <1>1, <5>1
      <4>4. j = k \/ j < k
        BY <4>2, <4>3
      <4>5. j < k => f[j] < f[k]
        BY <1>1, <4>3
      <4>6. QED BY <4>1, <4>3, <4>4, <4>5
    <3>3. QED BY <1>2, <3>1, <3>2
  <2>5. at = f[k]
    <3>1. \A i, j \in LabelLines(name) : Final(i) /\ Final(j) => i = j
      BY DEF LabelLines
    <3> HIDE DEF k
    <3>2. at \in LabelLines(name) /\ Final(at)
      BY <2>4
    <3>3. QED BY <2>4, <3>1, <3>2
  <2>6. AddrOf(name) = 4 * Instrs(source, f[k])
    BY <2>5 DEF AddrOf, InstrsUpTo, Instrs
  <2>7. Instrs(source, f[k]) = Instrs(source, f[k] - 1)
    <3>1. f[k] \in Nat \ {0} /\ source[f[k]].kind # "instr"
      BY <1>1, <2>2, <2>4, LabelIsNoInstr DEF LabelLines
    <3> HIDE DEF k
    <3>2. Instrs(source, f[k]) = Instrs(source, f[k] - 1) + 0
      BY <3>1, InstrsNext
    <3>3. Instrs(source, f[k] - 1) \in Nat
      <4>1. f[k] - 1 \in Nat
        BY <3>1
      <4>2. QED BY <4>1, InstrsFinite
    <3>4. QED BY <3>2, <3>3
  <2>8. QED BY <1>1, <2>2, <2>3, <2>6, <2>7
<1>5. Defined' = Defined /\ \A name : AddrOf(name)' = AddrOf(name)
  BY DEF Defined, AddrOf, LabelLines, InstrsUpTo
<1>6. QED BY <1>3, <1>4, <1>5 DEF LabelsRight, LabelsKnown

-----------------------------------------------------------------------------
(* The assembler: its invariant. *)

\* The lines of the source clean() has read, and those emit() is done with.
Seen == IF stage = "clean" THEN next - 1 ELSE Len(source)
Reached(n, m, f, k) == IF k <= m THEN f[k] - 1 ELSE n

\* The instruction on line i is accepted and encoded, at its address and in its place.
Encodes(i) ==
  /\ WellFormed(source[i])
  /\ words[Instrs(source, i)] = Encoded(source[i], 4 * Instrs(source, i - 1))

EmittedTo(r) ==
  /\ Len(words) = Instrs(source, r)
  /\ \A i \in 1 .. r : source[i].kind = "instr" => Encodes(i)

Progress(f) ==
  /\ KeptAt(source, Seen, lines, f)
  /\ stage # "clean" => EmittedTo(Reached(Len(source), Len(lines), f, next))

AsmInv ==
  /\ source \in Sources /\ stage \in {"clean", "emit", "done", "failed"}
  /\ addr = 4 * Instrs(source, Seen)
  /\ lines \in Seq(LineOf(source)) /\ Len(lines) <= Seen
  /\ words \in Seq(Word32) /\ error \in Option(AsmError)
  /\ stage = "clean" => next \in 1 .. Len(source) + 1 /\ words = <<>> /\ labels = <<>>
  /\ stage # "clean" => next \in 1 .. Len(lines) + 1 /\ LabelsRight
  /\ stage = "done" => next = Len(lines) + 1
  /\ stage = "failed" => /\ next <= Len(lines) /\ lines[next].line.kind = "instr"
                         /\ ~WellFormed(lines[next].line)
  /\ \E f : Progress(f)

LEMMA SourceIsLines ==
  ASSUME NEW s \in Sources
  PROVE  /\ Len(s) \in Nat /\ DOMAIN s = 1 .. Len(s)
         /\ \A i \in DOMAIN s : /\ s[i].kind \in {"blank", "label", "instr"}
                                /\ s[i].kind = "instr" => IsSequence(s[i].ops)
<1>1. IsSequence(s)
  BY SourceAssumption
<1>2. PICK S : s \in Seq(S)
  BY <1>1 DEF IsSequence
<1>3. \A i \in DOMAIN s : \/ s[i] = BlankLine
                          \/ \E name \in Names : s[i] = LabelLine(name)
                          \/ (s[i].kind = "instr" /\ IsSequence(s[i].ops))
  BY SourceAssumption
<1>4. BlankLine.kind = "blank" /\ \A name : LabelLine(name).kind = "label"
  BY DEF BlankLine, LabelLine
<1>5. QED BY <1>2, <1>3, <1>4

LEMMA WellFormedKept ==
  ASSUME source' = source
  PROVE  \A l : WellFormed(l)' <=> WellFormed(l)
<1>1. Defined' = Defined
  BY DEF Defined, LabelLines
<1>2. \A kind, t : IsText(kind, t)' <=> IsText(kind, t)
  BY <1>1 DEF IsText, RegText, ImmText, MemText
<1>3. \A l, kinds : Takes(l, kinds)' <=> Takes(l, kinds)
  BY <1>2 DEF Takes
<1>4. QED BY <1>3 DEF WellFormed

LEMMA LabelsRightKept ==
  ASSUME source' = source, labels' = labels, LabelsRight
  PROVE  LabelsRight'
<1>1. Defined' = Defined /\ \A name : AddrOf(name)' = AddrOf(name)
  BY DEF Defined, AddrOf, LabelLines, InstrsUpTo
<1>2. QED BY <1>1 DEF LabelsRight, LabelsKnown

\* Between a line kept and the next one kept there is nothing but blank lines.
LEMMA OnlyBlankBetween ==
  ASSUME NEW s, NEW n \in Nat, NEW ls, NEW f, NEW m \in Nat, DOMAIN ls = 1 .. m,
         KeptAt(s, n, ls, f), NEW k \in 0 .. m, NEW a, a = (IF k = 0 THEN 0 ELSE f[k])
  PROVE  LET b == Reached(n, m, f, k + 1)
         IN /\ a \in 0 .. n /\ b \in Nat /\ a <= b /\ b <= n
            /\ \A i \in a + 1 .. b : s[i].kind = "blank"
<1> DEFINE b == Reached(n, m, f, k + 1)
<1>1. /\ \A j \in 1 .. m : f[j] \in 1 .. n
      /\ \A j, h \in 1 .. m : j < h => f[j] < f[h]
      /\ \A i \in 1 .. n : s[i].kind # "blank" => \E h \in 1 .. m : f[h] = i
  BY DEF KeptAt
<1>2. a \in 0 .. n /\ (k \in 1 .. m => a = f[k]) /\ (k = 0 => a = 0)
  BY <1>1
<1>3. b \in Nat /\ a <= b /\ b <= n
  <2>1. CASE k + 1 <= m
    <3>1. k + 1 \in 1 .. m /\ b = f[k + 1] - 1 /\ (k = 0 \/ (k \in 1 .. m /\ k < k + 1))
      BY <2>1 DEF Reached
    <3>2. f[k + 1] \in 1 .. n /\ a < f[k + 1]
      BY <1>1, <1>2, <3>1
    <3>3. QED BY <1>2, <3>1, <3>2
  <2>2. CASE ~(k + 1 <= m)
    BY <1>2, <2>2 DEF Reached
  <2>3. QED BY <2>1, <2>2
<1>4. ASSUME NEW i \in a + 1 .. b, s[i].kind # "blank" PROVE FALSE
  <2>1. i \in 1 .. n /\ a < i /\ i <= b
    BY <1>2, <1>3
  <2>2. PICK h \in 1 .. m : f[h] = i
    BY <1>1, <1>4, <2>1
  <2>3. ~(h <= k)
    <3>1. SUFFICES ASSUME h <= k PROVE FALSE
      OBVIOUS
    <3>2. k \in 1 .. m /\ (h = k \/ h < k) /\ f[h] \in Nat /\ f[k] \in Nat
      BY <1>1, <3>1
    <3>3. f[h] <= f[k]
      BY <1>1, <3>2
    <3>4. QED BY <1>2, <2>1, <2>2, <3>2, <3>3
  <2>4. k + 1 \in 1 .. m /\ (h = k + 1 \/ k + 1 < h) /\ b = f[k + 1] - 1
    BY <2>3 DEF Reached
  <2>5. f[k + 1] <= f[h] /\ f[k + 1] \in Nat /\ f[h] \in Nat
    BY <1>1, <2>4
  <2>6. QED BY <2>1, <2>2, <2>4, <2>5
<1> HIDE DEF b
<1>5. QED BY <1>2, <1>3, <1>4 DEF b

\* Lines that are no instructions need no word.
LEMMA EmittedPast ==
  ASSUME UNCHANGED <<source, labels, words>>, NEW r \in Nat, NEW b \in Nat, r <= b,
         EmittedTo(r), \A i \in r + 1 .. b : source[i].kind # "instr"
  PROVE  EmittedTo(b)'
<1>1. Instrs(source, b) = Instrs(source, r)
  BY InstrsGrow
<1>2. \A i : Encodes(i)' <=> Encodes(i)
  BY WellFormedKept, EncodedKept DEF Encodes, Instrs
<1>3. ASSUME NEW i \in 1 .. b, source[i].kind = "instr" PROVE Encodes(i)
  <2>1. i \in 1 .. r
    BY <1>3
  <2>2. QED BY <1>3, <2>1 DEF EmittedTo
<1>4. Len(words) = Instrs(source, b)
  BY <1>1 DEF EmittedTo
<1>5. QED BY <1>2, <1>3, <1>4 DEF EmittedTo, Instrs

\* One that is an instruction needs one.
LEMMA EmittedOne ==
  ASSUME UNCHANGED <<source, labels>>, words \in Seq(Word32), NEW i \in Nat \ {0}, EmittedTo(i - 1),
         source[i].kind = "instr", WellFormed(source[i]), NEW w \in Word32,
         w = Encoded(source[i], 4 * Instrs(source, i - 1)), words' = Append(words, w)
  PROVE  EmittedTo(i)'
<1> DEFINE I(k) == Instrs(source, k)
<1>1. i - 1 \in Nat /\ I(i - 1) \in Nat
  <2>1. i - 1 \in Nat
    OBVIOUS
  <2>2. QED BY <2>1, InstrsFinite
<1>2. I(i) = I(i - 1) + 1
  BY InstrsNext
<1>3. /\ Len(words) = I(i - 1) /\ Len(words') = I(i) /\ words'[I(i)] = w
      /\ \A k \in 1 .. I(i - 1) : words'[k] = words[k]
  BY <1>1, <1>2 DEF EmittedTo
<1>4. ASSUME NEW j \in 1 .. i, source[j].kind = "instr"
      PROVE  WellFormed(source[j]) /\ words'[I(j)] = Encoded(source[j], 4 * I(j - 1))
  <2>1. CASE j = i
    BY <1>3, <2>1
  <2>2. CASE j # i
    <3>1. j \in 1 .. i - 1 /\ j \in Nat \ {0} /\ j - 1 \in Nat /\ j <= i - 1
      BY <2>2
    <3>2. Encodes(j)
      BY <1>4, <3>1 DEF EmittedTo
    <3>3. I(j) \in 1 .. I(i - 1)
      <4>1. I(j) = I(j - 1) + 1
        BY <1>4, <3>1, InstrsNext
      <4>2. I(j - 1) \in Nat /\ I(j) <= I(i - 1)
        BY <1>1, <3>1, InstrsFinite, InstrsGrow
      <4> HIDE DEF I
      <4>3. QED BY <1>1, <4>1, <4>2
    <3>4. QED BY <1>3, <3>2, <3>3 DEF Encodes
  <2>3. QED BY <2>1, <2>2
<1>5. \A j : (WellFormed(source[j]))' <=> WellFormed(source[j])
  BY WellFormedKept
<1>6. \A l, p : Encoded(l, p)' = Encoded(l, p)
  BY EncodedKept
<1>7. QED BY <1>3, <1>4, <1>5, <1>6 DEF EmittedTo, Encodes, Instrs

LEMMA AsmInitial == Init => AsmInv
<1>1. SUFFICES ASSUME Init PROVE AsmInv
  OBVIOUS
<1>2. Len(source) \in Nat
  BY <1>1, SourceIsLines DEF Init
<1>3. Seen = 0 /\ addr = 4 * Instrs(source, 0)
  <2>1. Instrs(source, 0) = 0
    BY NoInstrs
  <2>2. Seen = 0 /\ addr = 0
    BY <1>1 DEF Init, Seen
  <2>3. QED BY <2>1, <2>2
<1>4. <<>> \in Seq(LineOf(source)) /\ <<>> \in Seq(Word32) /\ Len(<<>>) = 0
  OBVIOUS
<1>5. Progress(<<>>)
  BY <1>1, <1>3, KeptNothing DEF Progress, Init
<1>6. {} \in Option(AsmError) /\ 1 \in 1 .. Len(source) + 1
  BY <1>2 DEF Option
<1>7. QED BY <1>1, <1>3, <1>4, <1>5, <1>6 DEF AsmInv, Init

LEMMA CleanLineKeeps ==
  ASSUME AsmInv, CleanLine
  PROVE  AsmInv'
<1>1. PICK s, n : s = source /\ n = next
  OBVIOUS
<1>2. /\ s \in Sources /\ Len(s) \in Nat /\ DOMAIN s = 1 .. Len(s) /\ n \in 1 .. Len(s)
      /\ n - 1 \in Nat /\ s[n].kind \in {"blank", "label", "instr"}
  BY <1>1, SourceIsLines DEF AsmInv, CleanLine
<1>3. /\ source' = s /\ stage = "clean" /\ stage' = "clean"
      /\ next' = n + 1 /\ addr' = AddrAfter(s[n])
      /\ Seen = n - 1 /\ Seen' = n /\ UNCHANGED <<labels, words, error>>
  BY <1>1, <1>2 DEF CleanLine, Seen
<1>4. PICK f : KeptAt(s, n - 1, lines, f)
  BY <1>1, <1>3 DEF AsmInv, Progress
<1>5. /\ lines \in Seq(LineOf(s)) /\ Len(lines) <= n - 1 /\ addr = 4 * Instrs(s, n - 1)
      /\ words = <<>> /\ labels = <<>> /\ error \in Option(AsmError)
  BY <1>1, <1>3 DEF AsmInv
<1>6. /\ Instrs(s, n - 1) \in Nat
      /\ Instrs(s, n) = Instrs(s, n - 1) + (IF s[n].kind = "instr" THEN 1 ELSE 0)
  <2>1. n - 1 \in Nat /\ n \in Nat \ {0}
    BY <1>2
  <2>2. QED BY <2>1, InstrsFinite, InstrsNext
<1>7. addr' = 4 * Instrs(s, n)
  BY <1>3, <1>5, <1>6 DEF AddrAfter
<1>8. /\ lines' \in Seq(LineOf(s)) /\ Len(lines') <= n
      /\ \E g : KeptAt(s, n, lines', g)
  <2>1. CASE s[n].kind = "blank"
    <3>1. lines' = lines
      BY <1>1, <2>1 DEF CleanLine
    <3>2. KeptAt(s, n, lines, f)
      BY <1>2, <1>4, <2>1, KeptBlank
    <3>3. Len(lines) <= n
      BY <1>2, <1>5
    <3>4. QED BY <1>5, <3>1, <3>2, <3>3
  <2>2. CASE s[n].kind # "blank"
    <3>1. PICK x : x = [addr |-> addr, line |-> s[n]]
      OBVIOUS
    <3>2. lines' = Append(lines, x)
      BY <1>1, <2>2, <3>1 DEF CleanLine
    <3>3. x \in LineOf(s) /\ x = [addr |-> 4 * Instrs(s, n - 1), line |-> s[n]]
      <4>1. addr \in Nat /\ addr = 4 * Instrs(s, n - 1)
        BY <1>5, <1>6
      <4>2. s[n] \in {s[i] : i \in DOMAIN s}
        BY <1>2
      <4>3. QED BY <3>1, <4>1, <4>2 DEF LineOf
    <3>4. \E g : KeptAt(s, n, Append(lines, x), g)
      BY <1>2, <1>4, <1>5, <2>2, <3>3, KeptLine
    <3>5. Append(lines, x) \in Seq(LineOf(s)) /\ Len(Append(lines, x)) <= n
      BY <1>2, <1>5, <3>3, AppendProperties
    <3>6. QED BY <3>2, <3>4, <3>5
  <2>3. QED BY <2>1, <2>2
<1>9. \E g : Progress(g)'
  BY <1>3, <1>8 DEF Progress
<1>10. n + 1 \in 1 .. Len(s) + 1
  BY <1>2
<1>11. words' \in Seq(Word32)
  BY <1>3 DEF AsmInv
<1>12. QED BY <1>2, <1>3, <1>5, <1>7, <1>8, <1>9, <1>10, <1>11 DEF AsmInv

LEMMA CollectLabelsKeeps ==
  ASSUME AsmInv, CollectLabels
  PROVE  AsmInv'
<1>1. PICK s, n : s = source /\ n = Len(s)
  OBVIOUS
<1>2. s \in Sources /\ n \in Nat /\ DOMAIN s = 1 .. n
  BY <1>1, SourceIsLines DEF AsmInv
<1>3. Seen = n /\ Seen' = n /\ source' = s /\ stage' = "emit" /\ next' = 1
      /\ UNCHANGED <<addr, lines, words, error>>
  BY <1>1, <1>2 DEF CollectLabels, Seen, AsmInv
<1>4. /\ lines \in Seq(LineOf(s)) /\ Len(lines) <= n /\ addr = 4 * Instrs(s, n) /\ words = <<>>
      /\ error \in Option(AsmError)
  BY <1>1, <1>3 DEF AsmInv, CollectLabels
<1>5. Len(lines) \in Nat /\ DOMAIN lines = 1 .. Len(lines)
  BY <1>4, LenProperties
<1>6. PICK f : KeptAt(s, n, lines, f)
  BY <1>1, <1>3 DEF AsmInv, Progress
<1>7. LabelsRight'
  BY <1>1, <1>2, <1>3, <1>5, <1>6, CollectedLabelsRight DEF CollectLabels
<1>8. PICK b : b = Reached(n, Len(lines), f, 1)
  OBVIOUS
<1>9. EmittedTo(b)'
  <2>1. b \in Nat /\ \A i \in 1 .. b : s[i].kind = "blank"
    <3>1. PICK k \in 0 .. Len(lines) : k = 0
      BY <1>5
    <3>2. b = Reached(n, Len(lines), f, k + 1) /\ 0 = IF k = 0 THEN 0 ELSE f[k]
      BY <1>8, <3>1
    <3>3. b \in Nat /\ \A i \in 0 + 1 .. b : s[i].kind = "blank"
      BY <1>2, <1>5, <1>6, <3>2, OnlyBlankBetween
    <3>4. QED BY <3>3
  <2>2. Instrs(s, b) = 0
    <3>1. 0 \in Nat /\ 0 <= b /\ \A i \in 0 + 1 .. b : s[i].kind # "instr"
      BY <2>1
    <3>2. Instrs(s, b) = Instrs(s, 0)
      BY <2>1, <3>1, InstrsGrow
    <3>3. QED BY <3>2, NoInstrs
  <2>3. QED BY <1>3, <1>4, <2>1, <2>2 DEF EmittedTo
<1>10. Progress(f)'
  BY <1>1, <1>3, <1>6, <1>8, <1>9 DEF Progress
<1>11. 1 \in 1 .. Len(lines) + 1
  BY <1>5
<1>12. words' \in Seq(Word32)
  BY <1>3 DEF AsmInv
<1>13. QED BY <1>2, <1>3, <1>4, <1>7, <1>10, <1>11, <1>12 DEF AsmInv

\* Where emit() is: line `next` of those kept is line i of the source.
LEMMA EmitFacts ==
  ASSUME AsmInv, stage = "emit", next <= Len(lines)
  PROVE  \E f, i :
           /\ KeptAt(source, Len(source), lines, f) /\ EmittedTo(i - 1)
           /\ i \in 1 .. Len(source) /\ i = f[next] /\ lines[next].line = source[i]
           /\ lines[next].addr = 4 * Instrs(source, i - 1)
           /\ LET b == Reached(Len(source), Len(lines), f, next + 1)
              IN b \in Nat /\ i <= b /\ \A j \in i + 1 .. b : source[j].kind = "blank"
<1>1. Len(source) \in Nat /\ Len(lines) \in Nat /\ DOMAIN lines = 1 .. Len(lines)
      /\ next \in 1 .. Len(lines)
  BY SourceIsLines, LenProperties DEF AsmInv
<1>2. PICK f : /\ KeptAt(source, Len(source), lines, f)
               /\ EmittedTo(Reached(Len(source), Len(lines), f, next))
  BY DEF AsmInv, Progress, Seen
<1>3. PICK i : i = f[next]
  OBVIOUS
<1>4. Reached(Len(source), Len(lines), f, next) = i - 1
  BY <1>3 DEF Reached
<1>5. /\ i \in 1 .. Len(source) /\ lines[next].line = source[i]
      /\ lines[next].addr = 4 * Instrs(source, i - 1)
  BY <1>1, <1>2, <1>3 DEF KeptAt
<1>6. PICK b : b = Reached(Len(source), Len(lines), f, next + 1)
  OBVIOUS
<1>7. next \in 0 .. Len(lines) /\ next # 0
  BY <1>1
<1>8. b \in Nat /\ i <= b /\ \A j \in i + 1 .. b : source[j].kind = "blank"
  <2>1. PICK k \in 0 .. Len(lines) : k = next
    BY <1>7
  <2>2. i = IF k = 0 THEN 0 ELSE f[k]
    BY <1>3, <1>7, <2>1
  <2>3. QED BY <1>1, <1>2, <1>6, <2>1, <2>2, OnlyBlankBetween
<1>9. QED BY <1>2, <1>3, <1>4, <1>5, <1>6, <1>8

LEMMA EmitNothingKeeps ==
  ASSUME AsmInv, EmitNothing
  PROVE  AsmInv'
<1>1. PICK f, i :
        /\ KeptAt(source, Len(source), lines, f) /\ EmittedTo(i - 1)
        /\ i \in 1 .. Len(source) /\ lines[next].line = source[i]
        /\ LET b == Reached(Len(source), Len(lines), f, next + 1)
           IN b \in Nat /\ i <= b /\ \A j \in i + 1 .. b : source[j].kind = "blank"
  BY EmitFacts DEF EmitNothing
<1>2. PICK b : b = Reached(Len(source), Len(lines), f, next + 1)
  OBVIOUS
<1>3. /\ stage = "emit" /\ next' = next + 1
      /\ UNCHANGED <<source, stage, addr, lines, labels, words, error>>
  BY DEF EmitNothing
<1>4. Seen' = Seen /\ Seen = Len(source)
  BY <1>3 DEF Seen
<1>5. EmittedTo(b)'
  <2>1. b \in Nat /\ i - 1 \in Nat /\ i - 1 <= b /\ i \in Nat
    BY <1>1, <1>2, SourceIsLines DEF AsmInv
  <2>2. ASSUME NEW j \in (i - 1) + 1 .. b PROVE source[j].kind # "instr"
    <3>1. j = i \/ j \in i + 1 .. b
      BY <2>1
    <3>2. QED BY <1>1, <1>2, <3>1 DEF EmitNothing
  <2>3. QED BY <1>1, <1>3, <2>1, <2>2, EmittedPast
<1>6. Progress(f)'
  BY <1>1, <1>2, <1>3, <1>4, <1>5 DEF Progress
<1>7. next + 1 \in 1 .. Len(lines) + 1
  BY LenProperties DEF AsmInv, EmitNothing
<1>8. LabelsRight'
  BY <1>3, LabelsRightKept DEF AsmInv
<1>9. QED BY <1>3, <1>4, <1>6, <1>7, <1>8 DEF AsmInv

LEMMA EmitWordKeeps ==
  ASSUME AsmInv, EmitWord
  PROVE  AsmInv'
<1>1. PICK f, i :
        /\ KeptAt(source, Len(source), lines, f) /\ EmittedTo(i - 1)
        /\ i \in 1 .. Len(source) /\ lines[next].line = source[i]
        /\ lines[next].addr = 4 * Instrs(source, i - 1)
        /\ LET b == Reached(Len(source), Len(lines), f, next + 1)
           IN b \in Nat /\ i <= b /\ \A j \in i + 1 .. b : source[j].kind = "blank"
  BY EmitFacts DEF EmitWord
<1>2. PICK b : b = Reached(Len(source), Len(lines), f, next + 1)
  OBVIOUS
<1>3. /\ stage = "emit" /\ next' = next + 1 /\ source[i].kind = "instr"
      /\ UNCHANGED <<source, stage, addr, lines, labels, error>>
      /\ ErrorsOf(source[i], 4 * Instrs(source, i - 1)) = {}
      /\ words' = Append(words, Encoded(source[i], 4 * Instrs(source, i - 1)))
  BY <1>1 DEF EmitWord
<1>4. Seen' = Seen /\ Seen = Len(source)
  BY <1>3 DEF Seen
<1>5. /\ source \in Sources /\ Len(source) \in Nat /\ DOMAIN source = 1 .. Len(source)
      /\ IsSequence(source[i].ops) /\ LabelsRight /\ words \in Seq(Word32)
  BY <1>1, <1>3, SourceIsLines DEF AsmInv
<1>6. WellFormed(source[i])
  BY <1>3, <1>5, AcceptedIsWellFormed DEF LabelsRight
<1>7. PICK w : w = Encoded(source[i], 4 * Instrs(source, i - 1))
  OBVIOUS
<1>8. w \in Word32
  BY <1>6, <1>7, EncodedTyped DEF WellFormed
<1>9. /\ b \in Nat /\ i \in Nat /\ i \in Nat \ {0} /\ i <= b
      /\ \A j \in i + 1 .. b : source[j].kind # "instr"
  BY <1>1, <1>2, <1>5
<1>10. EmittedTo(i)'
  BY <1>1, <1>3, <1>5, <1>6, <1>7, <1>8, <1>9, EmittedOne
<1>11. EmittedTo(b)'
  <2>1. Len(words') = Instrs(source, b) /\ Len(words') = Instrs(source, i)
    BY <1>3, <1>9, <1>10, InstrsGrow DEF EmittedTo
  <2>2. ASSUME NEW j \in 1 .. b, source[j].kind = "instr" PROVE Encodes(j)'
    <3>1. j \in 1 .. i
      BY <1>9, <2>2
    <3>2. QED BY <1>3, <1>10, <2>2, <3>1 DEF EmittedTo
  <2>3. QED BY <1>3, <2>1, <2>2 DEF EmittedTo, Instrs
<1>12. Progress(f)'
  BY <1>1, <1>2, <1>3, <1>4, <1>11 DEF Progress
<1>13. next + 1 \in 1 .. Len(lines) + 1
  BY LenProperties DEF AsmInv, EmitWord
<1>14. words' \in Seq(Word32)
  BY <1>3, <1>5, <1>7, <1>8
<1>15. LabelsRight'
  BY <1>3, <1>5, LabelsRightKept
<1>16. QED BY <1>3, <1>4, <1>12, <1>13, <1>14, <1>15 DEF AsmInv

LEMMA EmitErrorKeeps ==
  ASSUME AsmInv, EmitError
  PROVE  AsmInv'
<1>1. /\ stage = "emit" /\ stage' = "failed" /\ next <= Len(lines)
      /\ UNCHANGED <<source, next, addr, lines, labels, words>>
      /\ lines[next].line.kind = "instr" /\ error' = ErrorsOf(lines[next].line, lines[next].addr)
      /\ ErrorsOf(lines[next].line, lines[next].addr) # {}
  BY DEF EmitError
<1>2. Seen' = Seen /\ Seen = Len(source)
  BY <1>1 DEF Seen
<1>3. ~WellFormed(lines[next].line)
  <2>1. PICK i \in 1 .. Len(source) : lines[next].line = source[i]
    BY <1>1, EmitFacts
  <2>2. IsSequence(source[i].ops) /\ LabelsKnown
    BY <1>1, <2>1, SourceIsLines DEF AsmInv, LabelsRight
  <2>3. QED BY <1>1, <2>1, <2>2, AcceptedIsWellFormed
<1>4. WellFormed(lines[next].line)' <=> WellFormed(lines[next].line)
  BY <1>1, WellFormedKept
<1>5. error' \in Option(AsmError)
  BY <1>1, ErrorsAre
<1>6. PICK f : Progress(f)
  BY DEF AsmInv
<1>7. \A r : EmittedTo(r)' <=> EmittedTo(r)
  BY <1>1, WellFormedKept, EncodedKept DEF EmittedTo, Encodes, Instrs
<1>8. Progress(f)'
  BY <1>1, <1>2, <1>6, <1>7 DEF Progress
<1>9. LabelsRight'
  BY <1>1, LabelsRightKept DEF AsmInv
<1>10. QED BY <1>1, <1>2, <1>3, <1>4, <1>5, <1>8, <1>9 DEF AsmInv

LEMMA AssembledKeeps ==
  ASSUME AsmInv, Assembled
  PROVE  AsmInv'
<1>1. /\ stage = "emit" /\ stage' = "done" /\ next > Len(lines)
      /\ UNCHANGED <<source, next, addr, lines, labels, words, error>>
  BY DEF Assembled
<1>2. Seen' = Seen /\ Seen = Len(source)
  BY <1>1 DEF Seen
<1>3. next = Len(lines) + 1
  BY <1>1, LenProperties DEF AsmInv
<1>4. PICK f : Progress(f)
  BY DEF AsmInv
<1>5. \A r : EmittedTo(r)' <=> EmittedTo(r)
  BY <1>1, WellFormedKept, EncodedKept DEF EmittedTo, Encodes, Instrs
<1>6. Progress(f)'
  BY <1>1, <1>2, <1>4, <1>5 DEF Progress
<1>7. LabelsRight'
  BY <1>1, LabelsRightKept DEF AsmInv
<1>8. QED BY <1>1, <1>2, <1>3, <1>6, <1>7 DEF AsmInv

LEMMA AsmStutters ==
  ASSUME AsmInv, UNCHANGED vars
  PROVE  AsmInv'
<1>1. UNCHANGED <<source, stage, next, addr, lines, labels, words, error>>
  BY DEF vars
<1>2. Seen' = Seen
  BY <1>1 DEF Seen
<1>3. \A r : EmittedTo(r)' <=> EmittedTo(r)
  BY <1>1, WellFormedKept, EncodedKept DEF EmittedTo, Encodes, Instrs
<1>4. \A f : Progress(f)' <=> Progress(f)
  BY <1>1, <1>2, <1>3 DEF Progress
<1>5. LabelsRight => LabelsRight'
  BY <1>1, LabelsRightKept
<1>6. \A l : WellFormed(l)' <=> WellFormed(l)
  BY <1>1, WellFormedKept
<1>7. QED BY <1>1, <1>2, <1>4, <1>5, <1>6 DEF AsmInv

LEMMA AsmInductive == AsmInv /\ [Next]_vars => AsmInv'
BY CleanLineKeeps, CollectLabelsKeeps, EmitNothingKeeps, EmitWordKeeps, EmitErrorKeeps,
   AssembledKeeps, AsmStutters DEF Next

LEMMA AsmTyped ==
  ASSUME AsmInv
  PROVE  TypeOK
<1>1. PICK n : n = Len(source)
  OBVIOUS
<1>2. n \in Nat /\ DOMAIN source = 1 .. n /\ Seen \in 0 .. n /\ Len(lines) \in Nat
  BY <1>1, SourceIsLines, LenProperties DEF AsmInv, Seen
<1>3. addr = 4 * Instrs(source, Seen) /\ Instrs(source, Seen) \in Nat /\ addr \in Nat
  <2>1. Seen \in Nat
    BY <1>2
  <2>2. Instrs(source, Seen) \in Nat
    BY <2>1, InstrsFinite
  <2>3. addr = 4 * Instrs(source, Seen)
    BY DEF AsmInv
  <2>4. QED BY <2>2, <2>3
<1>4. next \in 1 .. n + 1
  BY <1>1, <1>2 DEF AsmInv
<1>5. ASSUME NEW i \in 0 .. Seen
      PROVE  4 * Instrs(source, i) \in 0 .. addr /\ (4 * Instrs(source, i)) % 4 = 0
  <2>1. i \in Nat /\ Seen \in Nat /\ i <= Seen
    BY <1>2
  <2>2. Instrs(source, i) \in Nat /\ Instrs(source, i) <= Instrs(source, Seen)
    BY <2>1, InstrsFinite, InstrsGrow
  <2>3. QED BY <1>3, <2>2
<1>6. ASSUME NEW k \in DOMAIN lines PROVE lines[k].addr \in 0 .. addr /\ lines[k].addr % 4 = 0
  <2>1. PICK f : KeptAt(source, Seen, lines, f)
    BY DEF AsmInv, Progress
  <2>2. f[k] \in 1 .. Seen /\ lines[k].addr = 4 * Instrs(source, f[k] - 1)
    BY <2>1 DEF KeptAt
  <2>3. f[k] - 1 \in 0 .. Seen
    BY <1>2, <2>2
  <2>4. QED BY <1>5, <2>2, <2>3
<1>7. DOMAIN labels \subseteq Names /\ \A name \in DOMAIN labels : labels[name] \in 0 .. addr
  <2>1. CASE stage = "clean"
    <3>1. DOMAIN labels = {}
      BY <2>1 DEF AsmInv
    <3>2. QED BY <3>1
  <2>2. CASE stage # "clean"
    <3>1. LabelsRight /\ Seen = n
      BY <1>1, <2>2 DEF AsmInv, Seen
    <3>2. ASSUME NEW name \in Defined PROVE AddrOf(name) \in 0 .. addr
      <4> DEFINE Final(i) == \A j \in LabelLines(name) : j <= i
                 at == CHOOSE i \in LabelLines(name) : Final(i)
      <4>1. LabelLines(name) \in SUBSET (1 .. n) /\ LabelLines(name) # {}
        BY <1>2 DEF Defined, LabelLines
      <4>2. \E i \in LabelLines(name) : Final(i)
        BY <1>2, <4>1, LastOf
      <4> HIDE DEF Final
      <4>3. at \in LabelLines(name)
        BY <4>2
      <4>4. at \in 0 .. Seen
        BY <1>2, <3>1, <4>1, <4>3
      <4>5. AddrOf(name) = 4 * Instrs(source, at)
        BY DEF AddrOf, InstrsUpTo, Instrs, Final
      <4>6. QED BY <1>5, <4>4, <4>5
    <3>3. DOMAIN labels = Defined /\ Defined \subseteq Names
      BY <3>1 DEF LabelsRight, LabelsKnown, Defined
    <3>4. QED BY <3>1, <3>2, <3>3 DEF LabelsRight
  <2>3. QED BY <2>1, <2>2
<1>8. QED BY <1>1, <1>3, <1>4, <1>6, <1>7 DEF AsmInv, TypeOK

LEMMA AsmStops ==
  ASSUME AsmInv
  PROVE  StopsAtFirstBadLine
<1>1. PICK n, m : n = Len(source) /\ m = Len(lines)
  OBVIOUS
<1>2. n \in Nat /\ m \in Nat /\ DOMAIN source = 1 .. n /\ DOMAIN lines = 1 .. m
  BY <1>1, SourceIsLines, LenProperties DEF AsmInv
<1>3. \A i : InstrsUpTo(i) = Instrs(source, i)
  BY DEF InstrsUpTo, Instrs
<1>4. ASSUME stage = "done" PROVE BadLines = {} /\ Len(words) = InstrsUpTo(n)
  <2>1. EmittedTo(n)
    BY <1>1, <1>2, <1>4 DEF AsmInv, Progress, Reached
  <2>2. QED BY <1>2, <1>3, <2>1 DEF EmittedTo, Encodes, BadLines
<1>5. ASSUME stage = "failed"
      PROVE  \E i \in BadLines : /\ \A j \in BadLines : i <= j
                                 /\ Len(words) = InstrsUpTo(i) - 1
  <2>1. next \in 1 .. m
    BY <1>1, <1>2, <1>5 DEF AsmInv
  <2>2. PICK f : KeptAt(source, n, lines, f) /\ EmittedTo(Reached(n, m, f, next))
    BY <1>1, <1>5 DEF AsmInv, Progress, Seen
  <2>3. PICK i : i = f[next]
    OBVIOUS
  <2>4. i \in 1 .. n /\ lines[next].line = source[i]
    BY <1>2, <2>1, <2>2, <2>3 DEF KeptAt
  <2>5. i \in BadLines /\ source[i].kind = "instr"
    BY <1>2, <1>5, <2>4 DEF AsmInv, BadLines
  <2>6. EmittedTo(i - 1)
    BY <1>2, <2>1, <2>2, <2>3 DEF Reached
  <2>7. ASSUME NEW j \in BadLines, ~(i <= j) PROVE FALSE
    <3>1. j \in 1 .. i - 1
      BY <1>2, <2>4, <2>7 DEF BadLines
    <3>2. QED BY <2>6, <3>1 DEF BadLines, EmittedTo, Encodes
  <2>8. Len(words) = InstrsUpTo(i) - 1
    <3>1. i \in Nat \ {0} /\ i - 1 \in Nat
      BY <2>4
    <3>2. Instrs(source, i) = Instrs(source, i - 1) + 1 /\ Instrs(source, i - 1) \in Nat
      BY <2>5, <3>1, InstrsNext, InstrsFinite
    <3>3. QED BY <1>3, <2>6, <3>2 DEF EmittedTo
  <2>9. QED BY <2>5, <2>7, <2>8
<1>6. QED BY <1>1, <1>4, <1>5 DEF StopsAtFirstBadLine

\* Every word of a program is the encoding of its line at the line's own address, with the
\* labels it names where they stand in the source.
WordsInPlace ==
  stage = "done" =>
    \A i \in DOMAIN source : source[i].kind = "instr" =>
      words[InstrsUpTo(i)] = Encoded(source[i], 4 * (InstrsUpTo(i) - 1))
LabelsInPlace ==
  stage # "clean" => DOMAIN labels = Defined /\ \A name \in Defined : labels[name] = AddrOf(name)

LEMMA AsmPlaces ==
  ASSUME AsmInv
  PROVE  WordsInPlace /\ LabelsInPlace
<1>1. LabelsInPlace
  BY DEF AsmInv, LabelsInPlace, LabelsRight, LabelsKnown
<1>2. ASSUME stage = "done", NEW i \in DOMAIN source, source[i].kind = "instr"
      PROVE  words[InstrsUpTo(i)] = Encoded(source[i], 4 * (InstrsUpTo(i) - 1))
  <2>1. Len(source) \in Nat /\ DOMAIN source = 1 .. Len(source) /\ Len(lines) \in Nat
    BY SourceIsLines, LenProperties DEF AsmInv
  <2>2. EmittedTo(Len(source))
    BY <1>2, <2>1 DEF AsmInv, Progress, Reached
  <2>3. words[Instrs(source, i)] = Encoded(source[i], 4 * Instrs(source, i - 1))
    BY <1>2, <2>1, <2>2 DEF EmittedTo, Encodes
  <2>4. i \in Nat \ {0} /\ i - 1 \in Nat
    BY <2>1
  <2>5. Instrs(source, i) = Instrs(source, i - 1) + 1 /\ Instrs(source, i - 1) \in Nat
    BY <1>2, <2>4, InstrsNext, InstrsFinite
  <2>6. InstrsUpTo(i) = Instrs(source, i) /\ InstrsUpTo(i) - 1 = Instrs(source, i - 1)
    BY <2>5 DEF InstrsUpTo, Instrs
  <2>7. QED BY <2>3, <2>6
<1>3. QED BY <1>1, <1>2 DEF WordsInPlace

-----------------------------------------------------------------------------
(* Numbers as words. *)

\* n without its i lowest bits.
Half(n, i) == n \div 2 ^ i

Doubles(i) == 2 ^ (i + 1) = 2 * 2 ^ i /\ 2 ^ i \in Nat \ {0}

LEMMA PowersDouble == \A i \in 0 .. 30 : Doubles(i)
<1>1. /\ Doubles(0) /\ Doubles(1) /\ Doubles(2) /\ Doubles(3) /\ Doubles(4) /\ Doubles(5)
      /\ Doubles(6) /\ Doubles(7)
  BY DEF Doubles
<1>2. /\ Doubles(8) /\ Doubles(9) /\ Doubles(10) /\ Doubles(11) /\ Doubles(12) /\ Doubles(13)
      /\ Doubles(14) /\ Doubles(15)
  BY DEF Doubles
<1>3. /\ Doubles(16) /\ Doubles(17) /\ Doubles(18) /\ Doubles(19) /\ Doubles(20) /\ Doubles(21)
      /\ Doubles(22) /\ Doubles(23)
  BY DEF Doubles
<1>4. /\ Doubles(24) /\ Doubles(25) /\ Doubles(26) /\ Doubles(27) /\ Doubles(28) /\ Doubles(29)
      /\ Doubles(30)
  BY DEF Doubles
<1>5. QED BY <1>1, <1>2, <1>3, <1>4

\* Halving splits off the lowest bit.
LEMMA SplitBit ==
  ASSUME NEW n \in Int, NEW p \in Nat \ {0}
  PROVE  /\ n \div p \in Int /\ n \div (2 * p) \in Int
         /\ n \div p = 2 * (n \div (2 * p)) + ((n \div p) % 2)
<1>1. n \div p \in Int /\ n \div (2 * p) \in Int
  OBVIOUS
<1>2. n \div p = 2 * (n \div (2 * p)) + ((n \div p) % 2)
  OBVIOUS
<1>3. QED BY <1>1, <1>2

LEMMA HalfNext ==
  ASSUME NEW n \in Int, NEW i \in 0 .. 30
  PROVE  /\ Half(n, i) \in Int /\ Half(n, i + 1) \in Int
         /\ Half(n, i) = 2 * Half(n, i + 1) + (IF i \in Unsigned(n) THEN 1 ELSE 0)
<1>1. 2 ^ (i + 1) = 2 * 2 ^ i /\ 2 ^ i \in Nat \ {0}
  BY PowersDouble DEF Doubles
<1> PICK p \in Nat \ {0} : p = 2 ^ i
  BY <1>1
<1>2. /\ Half(n, i) \in Int /\ Half(n, i + 1) \in Int
      /\ Half(n, i) = 2 * Half(n, i + 1) + (Half(n, i) % 2)
  <2>1. Half(n, i) = n \div p /\ Half(n, i + 1) = n \div (2 * p)
    BY <1>1 DEF Half
  <2>2. /\ n \div p \in Int /\ n \div (2 * p) \in Int
        /\ n \div p = 2 * (n \div (2 * p)) + ((n \div p) % 2)
    BY SplitBit
  <2>3. QED BY <2>1, <2>2
<1>3. i \in Unsigned(n) <=> Half(n, i) % 2 = 1
  BY DEF Unsigned, Half
<1>4. QED BY <1>2, <1>3

\* No halving leaves the number, 31 halvings its sign.
LEMMA HalfEnds ==
  ASSUME NEW n \in Int32
  PROVE  n \in Int /\ Half(n, 0) = n /\ Half(n, 31) = (IF n < 0 THEN -1 ELSE 0)
BY DEF Int32, Between, Half

\* The bits of an i32.
LEMMA BitsOf ==
  ASSUME NEW n \in Int32
  PROVE  /\ 31 \in Bits(n) <=> n < 0
         /\ \A i \in 0 .. 30 : i \in Bits(n) <=> i \in Unsigned(n)
BY DEF Bits, Unsigned, Int32, Between

BitAt(w, i) == IF i \in w THEN 1 ELSE 0

Halves(n, i) == /\ Half(n, i) \in Int /\ Half(n, i + 1) \in Int /\ BitAt(Bits(n), i) \in {0, 1}
                /\ Half(n, i) = 2 * Half(n, i + 1) + BitAt(Bits(n), i)

LEMMA HalvesOf == ASSUME NEW n \in Int32 PROVE \A i \in 0 .. 30 : Halves(n, i)
<1>1. SUFFICES ASSUME NEW i \in 0 .. 30 PROVE Halves(n, i)
  OBVIOUS
<1>2. n \in Int
  BY DEF Int32
<1>3. BitAt(Bits(n), i) = (IF i \in Unsigned(n) THEN 1 ELSE 0)
  BY BitsOf DEF BitAt
<1>4. /\ Half(n, i) \in Int /\ Half(n, i + 1) \in Int
      /\ Half(n, i) = 2 * Half(n, i + 1) + (IF i \in Unsigned(n) THEN 1 ELSE 0)
  BY <1>2, HalfNext
<1>5. QED BY <1>3, <1>4 DEF Halves

\* Where all higher bits are the sign, halving leaves the sign, and the other way round.
LEMMA SignBits ==
  ASSUME NEW n \in Int32, NEW k \in 0 .. 30
  PROVE  Half(n, k) = (IF n < 0 THEN -1 ELSE 0)
           <=> \A i \in k .. 30 : (i \in Bits(n) <=> 31 \in Bits(n))
<1> DEFINE s == IF n < 0 THEN -1 ELSE 0
<1>1. \A i \in 0 .. 30 : Halves(n, i)
  BY HalvesOf
<1>2. Half(n, 31) = s /\ (31 \in Bits(n) <=> s = -1) /\ s \in {-1, 0}
  BY HalfEnds, BitsOf
<1> HIDE DEF s
<1>3. ASSUME Half(n, k) = s PROVE \A i \in k .. 30 : (i \in Bits(n) <=> s = -1)
  <2> DEFINE S == {j \in Nat : Half(n, k + j) = s}
  <2>1. \A j \in 0 .. (31 - k) - 1 : j \in S => j + 1 \in S
    <3>1. SUFFICES ASSUME NEW j \in 0 .. (31 - k) - 1, Half(n, k + j) = s
                   PROVE  Half(n, k + (j + 1)) = s
      OBVIOUS
    <3>2. k + j \in 0 .. 30 /\ k + (j + 1) = (k + j) + 1
      OBVIOUS
    <3>3. Halves(n, k + j)
      BY <1>1, <3>2
    <3>4. QED BY <1>2, <3>1, <3>2, <3>3 DEF Halves
  <2>2. 0 \in S /\ 31 - k \in Nat
    BY <1>3
  <2>3. 0 .. 31 - k \subseteq S
    <3> HIDE DEF S
    <3>1. QED BY <2>1, <2>2, BoundedInduction
  <2>4. ASSUME NEW i \in k .. 31 PROVE Half(n, i) = s
    <3>1. i - k \in 0 .. 31 - k /\ k + (i - k) = i
      OBVIOUS
    <3>2. QED BY <2>3, <3>1
  <2>5. ASSUME NEW i \in k .. 30 PROVE i \in Bits(n) <=> s = -1
    <3>1. Half(n, i) = s /\ Half(n, i + 1) = s
      <4>1. i \in k .. 31 /\ i + 1 \in k .. 31
        OBVIOUS
      <4>2. QED BY <2>4, <4>1
    <3>2. Halves(n, i)
      BY <1>1
    <3>3. s = 2 * s + BitAt(Bits(n), i)
      BY <3>1, <3>2 DEF Halves
    <3>4. QED BY <1>2, <3>3 DEF BitAt
  <2>6. QED BY <2>5
<1>4. ASSUME \A i \in k .. 30 : (i \in Bits(n) <=> s = -1) PROVE Half(n, k) = s
  <2> DEFINE S == {j \in Nat : Half(n, 31 - j) = s}
  <2>1. \A j \in 0 .. (31 - k) - 1 : j \in S => j + 1 \in S
    <3>1. SUFFICES ASSUME NEW j \in 0 .. (31 - k) - 1, Half(n, 31 - j) = s
                   PROVE  Half(n, 31 - (j + 1)) = s
      OBVIOUS
    <3>2. 31 - (j + 1) \in k .. 30 /\ (31 - (j + 1)) + 1 = 31 - j
      OBVIOUS
    <3>3. Halves(n, 31 - (j + 1))
      BY <1>1, <3>2
    <3>4. BitAt(Bits(n), 31 - (j + 1)) = (IF s = -1 THEN 1 ELSE 0)
      BY <1>4, <3>2 DEF BitAt
    <3>5. Half(n, 31 - (j + 1)) = 2 * s + BitAt(Bits(n), 31 - (j + 1))
      BY <3>1, <3>2, <3>3 DEF Halves
    <3>6. QED BY <1>2, <3>4, <3>5
  <2>2. 0 \in S /\ 31 - k \in Nat
    BY <1>2
  <2>3. 0 .. 31 - k \subseteq S
    <3> HIDE DEF S
    <3>1. QED BY <2>1, <2>2, BoundedInduction
  <2>4. 31 - k \in S /\ 31 - (31 - k) = k
    BY <2>2, <2>3
  <2>5. QED BY <2>4
<1>5. QED BY <1>2, <1>3, <1>4 DEF s

\* The bits from k to 31 of an i32 are the same.
SignFrom(w, k) == \A i \in k .. 31 : (i \in w <=> 31 \in w)

\* The numbers of a width are those whose bits beyond it are the sign.
LEMMA Widths ==
  ASSUME NEW n \in Int32
  PROVE  /\ Between(-2048, n, 2047) <=> SignFrom(Bits(n), 11)
         /\ Between(-4096, n, 4095) <=> SignFrom(Bits(n), 12)
         /\ Between(-1048576, n, 1048575) <=> SignFrom(Bits(n), 20)
         /\ Between(0, n, 7) <=> Bits(n) \subseteq 0 .. 2
         /\ Between(0, n, 31) <=> Bits(n) \subseteq 0 .. 4
         /\ Between(0, n, 127) <=> Bits(n) \subseteq 0 .. 6
         /\ Between(0, n, 4095) <=> Bits(n) \subseteq 0 .. 11
<1>1. \A k \in 0 .. 30 : SignFrom(Bits(n), k) <=> Half(n, k) = (IF n < 0 THEN -1 ELSE 0)
  BY SignBits DEF SignFrom
<1>2. \A k \in 0 .. 30 :
        Bits(n) \subseteq 0 .. k - 1 <=> SignFrom(Bits(n), k) /\ 31 \notin Bits(n)
  BY NumbersTyped DEF SignFrom, Word32
<1>3. 31 \in Bits(n) <=> n < 0
  BY BitsOf
<1>4. n \in Int
  BY DEF Int32
<1>5. /\ Between(-2048, n, 2047) <=> Half(n, 11) = (IF n < 0 THEN -1 ELSE 0)
      /\ Between(-4096, n, 4095) <=> Half(n, 12) = (IF n < 0 THEN -1 ELSE 0)
      /\ Between(-1048576, n, 1048575) <=> Half(n, 20) = (IF n < 0 THEN -1 ELSE 0)
  BY <1>4 DEF Half, Between
<1>6. n >= 0 => /\ Between(0, n, 7) <=> Half(n, 3) = 0
                /\ Between(0, n, 31) <=> Half(n, 5) = 0
                /\ Between(0, n, 127) <=> Half(n, 7) = 0
                /\ Between(0, n, 4095) <=> Half(n, 12) = 0
  BY <1>4 DEF Half, Between
<1>7. /\ Between(-2048, n, 2047) <=> SignFrom(Bits(n), 11)
      /\ Between(-4096, n, 4095) <=> SignFrom(Bits(n), 12)
      /\ Between(-1048576, n, 1048575) <=> SignFrom(Bits(n), 20)
  BY <1>1, <1>5
<1>8. ASSUME NEW k \in 0 .. 30
      PROVE  Bits(n) \subseteq 0 .. k - 1 <=> n >= 0 /\ Half(n, k) = 0
  <2>1. Bits(n) \subseteq 0 .. k - 1 <=> SignFrom(Bits(n), k) /\ 31 \notin Bits(n)
    BY <1>2
  <2>2. 31 \notin Bits(n) => (SignFrom(Bits(n), k) <=> Half(n, k) = 0)
    BY <1>1, <1>3
  <2>3. QED BY <1>3, <1>4, <2>1, <2>2
<1>9. /\ Bits(n) \subseteq 0 .. 2 <=> n >= 0 /\ Half(n, 3) = 0
      /\ Bits(n) \subseteq 0 .. 4 <=> n >= 0 /\ Half(n, 5) = 0
      /\ Bits(n) \subseteq 0 .. 6 <=> n >= 0 /\ Half(n, 7) = 0
      /\ Bits(n) \subseteq 0 .. 11 <=> n >= 0 /\ Half(n, 12) = 0
  <2>1. 3 \in 0 .. 30 /\ 3 - 1 = 2 /\ 5 \in 0 .. 30 /\ 5 - 1 = 4
    OBVIOUS
  <2>2. 7 \in 0 .. 30 /\ 7 - 1 = 6 /\ 12 \in 0 .. 30 /\ 12 - 1 = 11
    OBVIOUS
  <2>3. QED BY <1>8, <2>1, <2>2
<1>10. QED BY <1>4, <1>6, <1>7, <1>9 DEF Between

\* The lowest bits of a multiple.
LEMMA Multiples ==
  ASSUME NEW n \in Int32
  PROVE  /\ n % 2 = 0 <=> 0 \notin Bits(n)
         /\ n % 4096 = 0 <=> Bits(n) \cap 0 .. 11 = {}
<1> DEFINE B(i) == BitAt(Bits(n), i)
           H(i) == Half(n, i)
<1>1. \A i \in 0 .. 11 : H(i + 1) \in Int /\ B(i) \in {0, 1} /\ H(i) = 2 * H(i + 1) + B(i)
  BY HalvesOf DEF Halves
<1>2. n = H(0) /\ n \in Int
  BY HalfEnds
<1>3. \A i \in 0 .. 11 : B(i) = 0 <=> i \notin Bits(n)
  BY DEF BitAt
<1> HIDE DEF B, H
<1>4. n = 2 * H(1) + B(0) /\ H(1) \in Int /\ B(0) \in {0, 1}
  <2>1. H(0) = 2 * H(0 + 1) + B(0) /\ H(0 + 1) \in Int /\ B(0) \in {0, 1}
    BY <1>1
  <2>2. QED BY <1>2, <2>1
<1>5. n % 2 = 0 <=> B(0) = 0
  BY <1>4
<1>6. /\ H(0) = 2 * H(1) + B(0) /\ H(1) = 2 * H(2) + B(1) /\ H(2) = 2 * H(3) + B(2)
      /\ H(3) = 2 * H(4) + B(3) /\ H(4) = 2 * H(5) + B(4) /\ H(5) = 2 * H(6) + B(5)
      /\ H(6) = 2 * H(7) + B(6) /\ H(7) = 2 * H(8) + B(7) /\ H(8) = 2 * H(9) + B(8)
      /\ H(9) = 2 * H(10) + B(9) /\ H(10) = 2 * H(11) + B(10) /\ H(11) = 2 * H(12) + B(11)
  BY <1>1
<1>7. /\ H(1) \in Int /\ H(2) \in Int /\ H(3) \in Int /\ H(4) \in Int /\ H(5) \in Int
      /\ H(6) \in Int /\ H(7) \in Int /\ H(8) \in Int /\ H(9) \in Int /\ H(10) \in Int
      /\ H(11) \in Int /\ H(12) \in Int
  BY <1>1
<1>8. /\ B(0) \in {0, 1} /\ B(1) \in {0, 1} /\ B(2) \in {0, 1} /\ B(3) \in {0, 1}
      /\ B(4) \in {0, 1} /\ B(5) \in {0, 1} /\ B(6) \in {0, 1} /\ B(7) \in {0, 1}
      /\ B(8) \in {0, 1} /\ B(9) \in {0, 1} /\ B(10) \in {0, 1} /\ B(11) \in {0, 1}
  BY <1>1
<1>9. PICK r \in 0 .. 63 : n = 64 * H(6) + r /\ (r = 0 <=> \A i \in 0 .. 5 : B(i) = 0)
  <2> DEFINE r == 32 * B(5) + 16 * B(4) + 8 * B(3) + 4 * B(2) + 2 * B(1) + B(0)
  <2>1. n = 64 * H(6) + r
    BY <1>2, <1>6, <1>7, <1>8
  <2>2. r \in 0 .. 63
    BY <1>8
  <2>3. r = 0 <=> \A i \in 0 .. 5 : B(i) = 0
    BY <1>8
  <2> HIDE DEF r
  <2>4. QED BY <2>1, <2>2, <2>3
<1>10. PICK t \in 0 .. 63 : H(6) = 64 * H(12) + t /\ (t = 0 <=> \A i \in 6 .. 11 : B(i) = 0)
  <2> DEFINE t == 32 * B(11) + 16 * B(10) + 8 * B(9) + 4 * B(8) + 2 * B(7) + B(6)
  <2>1. H(6) = 64 * H(12) + t
    BY <1>6, <1>7, <1>8
  <2>2. t \in 0 .. 63
    BY <1>8
  <2>3. t = 0 <=> \A i \in 6 .. 11 : B(i) = 0
    BY <1>8
  <2> HIDE DEF t
  <2>4. QED BY <2>1, <2>2, <2>3
<1>11. n % 4096 = 0 <=> r = 0 /\ t = 0
  <2>1. PICK u \in Int : u = 64 * t + r
    OBVIOUS
  <2>2. 0 <= u /\ u < 4096 /\ (u = 0 <=> r = 0 /\ t = 0)
    BY <2>1
  <2>3. n = 4096 * H(12) + u /\ H(12) \in Int
    BY <1>7, <1>9, <1>10, <2>1
  <2>4. n % 4096 = u
    BY <2>2, <2>3
  <2>5. QED BY <2>2, <2>4
<1>12. QED BY <1>3, <1>5, <1>9, <1>10, <1>11

\* A word is the number of one i32.
LEMMA BitsInjective ==
  ASSUME NEW m \in Int32, NEW n \in Int32, Bits(m) = Bits(n)
  PROVE  m = n
<1>1. Bits(m) = Bits(n) /\ \A i \in 0 .. 30 : Halves(m, i) /\ Halves(n, i)
  BY HalvesOf
<1>2. Half(m, 31) = Half(n, 31)
  <2>1. m < 0 <=> n < 0
    BY BitsOf
  <2>2. QED BY <2>1, HalfEnds
<1> DEFINE S == {j \in Nat : Half(m, 31 - j) = Half(n, 31 - j)}
<1>3. \A j \in 0 .. 31 - 1 : j \in S => j + 1 \in S
  <2>1. SUFFICES ASSUME NEW j \in 0 .. 31 - 1, Half(m, 31 - j) = Half(n, 31 - j)
                 PROVE  Half(m, 31 - (j + 1)) = Half(n, 31 - (j + 1))
    OBVIOUS
  <2>2. 31 - (j + 1) \in 0 .. 30 /\ (31 - (j + 1)) + 1 = 31 - j
    OBVIOUS
  <2>3. Halves(m, 31 - (j + 1)) /\ Halves(n, 31 - (j + 1))
    BY <1>1, <2>2
  <2>4. QED BY <1>1, <2>1, <2>2, <2>3 DEF Halves
<1>4. 0 \in S
  BY <1>2
<1>5. 0 .. 31 \subseteq S
  <2> HIDE DEF S
  <2>1. QED BY <1>3, <1>4, BoundedInduction
<1>6. 31 \in S /\ 31 - 31 = 0
  BY <1>5
<1>7. QED BY <1>6, HalfEnds

\* Unsigned numbers are those of i32 that are not negative.
LEMMA UnsignedBits ==
  ASSUME NEW n \in Nat
  PROVE  Unsigned(n) = Bits(n)
BY DEF Bits

\* What fields hold.
LEMMA FieldValues ==
  /\ \A n \in 0 .. 255 : n < 32 <=> Unsigned(n) \in RegField
  /\ \A n \in 0 .. 7 : Unsigned(n) \in Funct3Field
  /\ \A n \in 0 .. 127 : Unsigned(n) \in SevenBits
  /\ \A m, n \in 0 .. 127 : Unsigned(m) = Unsigned(n) => m = n
<1>1. ASSUME NEW n \in 0 .. 255
      PROVE  n \in Int32 /\ n \in Nat /\ Unsigned(n) = Bits(n)
  BY UnsignedBits DEF Int32, Between
<1>2. ASSUME NEW n \in 0 .. 255 PROVE n < 32 <=> Unsigned(n) \in RegField
  <2>1. Between(0, n, 31) <=> Bits(n) \subseteq 0 .. 4
    BY <1>1, Widths
  <2>2. QED BY <1>1, <2>1 DEF Between, RegField
<1>3. ASSUME NEW n \in 0 .. 7 PROVE Unsigned(n) \in Funct3Field
  <2>1. n \in 0 .. 255 /\ Between(0, n, 7)
    BY DEF Between
  <2>2. Bits(n) \subseteq 0 .. 2
    BY <1>1, <2>1, Widths
  <2>3. QED BY <1>1, <2>1, <2>2 DEF Funct3Field
<1>4. ASSUME NEW n \in 0 .. 127 PROVE Unsigned(n) \in SevenBits
  <2>1. n \in 0 .. 255 /\ Between(0, n, 127)
    BY DEF Between
  <2>2. Bits(n) \subseteq 0 .. 6
    BY <1>1, <2>1, Widths
  <2>3. QED BY <1>1, <2>1, <2>2 DEF SevenBits
<1>5. ASSUME NEW m \in 0 .. 127, NEW n \in 0 .. 127, Unsigned(m) = Unsigned(n) PROVE m = n
  <2>1. m \in 0 .. 255 /\ n \in 0 .. 255
    OBVIOUS
  <2>2. Bits(m) = Bits(n) /\ m \in Int32 /\ n \in Int32
    BY <1>1, <1>5, <2>1
  <2>3. QED BY <2>2, BitsInjective
<1>6. QED BY <1>2, <1>3, <1>4, <1>5

\* A word is unchanged by sign extension if its upper bits are the sign already.
LEMMA ExtendedKeeps ==
  ASSUME NEW w \in Word32, NEW k \in 1 .. 30
  PROVE  /\ Extended(w, k) = w <=> SignFrom(w, k)
         /\ Extended(w, k) \ {0} = w <=> SignFrom(w, k) /\ 0 \notin w
<1>1. Extended(w, k) \in Word32 /\ Extended(w, k) \ {0} \in Word32
  BY DEF Extended, Word32
<1>2. \A i \in 0 .. 31 : i \in Extended(w, k) <=> (IF i < k THEN i ELSE k) \in w
  BY DEF Extended
<1>3. SignFrom(w, k) <=> \A i \in k .. 31 : (i \in w <=> k \in w)
  BY DEF SignFrom
<1>4. ASSUME SignFrom(w, k) PROVE Extended(w, k) = w
  <2>1. \A i \in 0 .. 31 : i \in Extended(w, k) <=> i \in w
    BY <1>2, <1>3, <1>4
  <2>2. QED BY <1>1, <2>1, SameBits
<1>5. ASSUME \A i \in 1 .. 31 : i \in Extended(w, k) <=> i \in w PROVE SignFrom(w, k)
  BY <1>2, <1>3, <1>5
<1>6. Extended(w, k) = w => SignFrom(w, k)
  BY <1>5
<1>7. Extended(w, k) \ {0} = w => SignFrom(w, k) /\ 0 \notin w
  <2>1. SUFFICES ASSUME Extended(w, k) \ {0} = w PROVE SignFrom(w, k) /\ 0 \notin w
    OBVIOUS
  <2>2. \A i \in 1 .. 31 : i \in Extended(w, k) <=> i \in w
    BY <2>1
  <2>3. QED BY <1>5, <2>1, <2>2
<1>8. QED BY <1>4, <1>6, <1>7

\* What each format makes of an immediate, and when that is the immediate.
LEMMA ImmediateKept ==
  ASSUME NEW n \in Int32
  PROVE  /\ Between(0, n, 31) <=> Low(Bits(n), 5) = Bits(n)
         /\ Between(-2048, n, 2047) <=> Extended(Bits(n), 11) = Bits(n)
         /\ Between(0, n, 4095) <=> Low(Bits(n), 12) = Bits(n)
         /\ Between(-4096, n, 4094) /\ n % 2 = 0 <=> Extended(Bits(n), 12) \ {0} = Bits(n)
         /\ Between(-1048576, n, 1048574) /\ n % 2 = 0
              <=> Extended(Bits(n), 20) \ {0} = Bits(n)
         /\ n % 4096 = 0 <=> Bits(n) \cap 12 .. 31 = Bits(n)
<1>1. Bits(n) \in Word32 /\ n \in Int
  BY NumbersTyped DEF Int32
<1>2. /\ n % 2 = 0 => (Between(-4096, n, 4094) <=> Between(-4096, n, 4095))
      /\ n % 2 = 0 => (Between(-1048576, n, 1048574) <=> Between(-1048576, n, 1048575))
  BY <1>1 DEF Between
<1>3. \A k \in 1 .. 30 :
        /\ Extended(Bits(n), k) = Bits(n) <=> SignFrom(Bits(n), k)
        /\ Extended(Bits(n), k) \ {0} = Bits(n) <=> SignFrom(Bits(n), k) /\ 0 \notin Bits(n)
  BY <1>1, ExtendedKeeps
<1>4. /\ Low(Bits(n), 5) = Bits(n) <=> Bits(n) \subseteq 0 .. 4
      /\ Low(Bits(n), 12) = Bits(n) <=> Bits(n) \subseteq 0 .. 11
  BY DEF Low
<1>5. Bits(n) \cap 12 .. 31 = Bits(n) <=> Bits(n) \cap 0 .. 11 = {}
  BY <1>1 DEF Word32
<1>6. /\ Between(0, n, 31) <=> Low(Bits(n), 5) = Bits(n)
      /\ Between(0, n, 4095) <=> Low(Bits(n), 12) = Bits(n)
  BY <1>4, Widths
<1>7. Between(-2048, n, 2047) <=> Extended(Bits(n), 11) = Bits(n)
  BY <1>3, Widths
<1>8. Between(-4096, n, 4094) /\ n % 2 = 0 <=> Extended(Bits(n), 12) \ {0} = Bits(n)
  <2>1. Between(-4096, n, 4095) <=> SignFrom(Bits(n), 12)
    BY Widths
  <2>2. n % 2 = 0 <=> 0 \notin Bits(n)
    BY Multiples
  <2>3. QED BY <1>2, <1>3, <2>1, <2>2
<1>9. Between(-1048576, n, 1048574) /\ n % 2 = 0 <=> Extended(Bits(n), 20) \ {0} = Bits(n)
  <2>1. Between(-1048576, n, 1048575) <=> SignFrom(Bits(n), 20)
    BY Widths
  <2>2. n % 2 = 0 <=> 0 \notin Bits(n)
    BY Multiples
  <2>3. QED BY <1>2, <1>3, <2>1, <2>2
<1>10. n % 4096 = 0 <=> Bits(n) \cap 12 .. 31 = Bits(n)
  BY <1>5, Multiples
<1>11. QED BY <1>6, <1>7, <1>8, <1>9, <1>10

-----------------------------------------------------------------------------
(* What decode() makes of an opcode and functs. *)

OpLoad   == Unsigned(\b0000011)
OpStore  == Unsigned(\b0100011)
OpBranch == Unsigned(\b1100011)
OpJal    == Unsigned(\b1101111)
OpJalr   == Unsigned(\b1100111)
OpLui    == Unsigned(\b0110111)
OpAuipc  == Unsigned(\b0010111)

\* The nine opcodes the assembler uses are different values of seven bits.
LEMMA OpcodesDiffer ==
  /\ OpReg \notin {OpImm, OpLoad, OpStore, OpBranch, OpJal, OpJalr, OpLui, OpAuipc}
  /\ OpImm \notin {OpLoad, OpStore, OpBranch, OpJal, OpJalr, OpLui, OpAuipc}
  /\ OpLoad \notin {OpStore, OpBranch, OpJal, OpJalr, OpLui, OpAuipc}
  /\ OpStore \notin {OpBranch, OpJal, OpJalr, OpLui, OpAuipc}
  /\ OpBranch \notin {OpJal, OpJalr, OpLui, OpAuipc}
  /\ OpJal \notin {OpJalr, OpLui, OpAuipc}
  /\ OpJalr \notin {OpLui, OpAuipc}
  /\ OpLui # OpAuipc
  /\ {OpReg, OpImm, OpLoad, OpStore, OpBranch, OpJal, OpJalr, OpLui, OpAuipc} \subseteq SevenBits
<1>1. /\ OpReg = Unsigned(51) /\ OpImm = Unsigned(19) /\ OpLoad = Unsigned(3)
      /\ OpStore = Unsigned(35) /\ OpBranch = Unsigned(99) /\ OpJal = Unsigned(111)
      /\ OpJalr = Unsigned(103) /\ OpLui = Unsigned(55) /\ OpAuipc = Unsigned(23)
  BY DEF OpReg, OpImm, OpLoad, OpStore, OpBranch, OpJal, OpJalr, OpLui, OpAuipc
<1> DEFINE codes == {51, 19, 3, 35, 99, 111, 103, 55, 23}
<1>2. codes \subseteq 0 .. 127
  OBVIOUS
<1>3. /\ \A m, n \in codes : Unsigned(m) = Unsigned(n) => m = n
      /\ \A n \in codes : Unsigned(n) \in SevenBits
  <2> HIDE DEF codes
  <2>1. QED BY <1>2, FieldValues
<1>4. QED BY <1>1, <1>3

\* The table decode() looks an opcode up in.
LEMMA OpsByOpcode ==
  ASSUME NEW w
  PROVE  /\ OpcodeBits(w) = OpReg =>
              /\ FormatFor(w) = "R"
              /\ OpsOf(w) = {t[3] : t \in {u \in RegOps : /\ Unsigned(u[1]) = Funct3(w)
                                                          /\ Unsigned(u[2]) = Funct7(w)}}
         /\ OpcodeBits(w) = OpImm =>
              /\ FormatFor(w) = "I"
              /\ OpsOf(w) = IF Funct3(w) = Unsigned(5)
                              THEN {IF Funct7(w) = Unsigned(32) THEN "Srai" ELSE "Srli"}
                              ELSE Among(ImmOps, w)
         /\ OpcodeBits(w) = OpLoad => FormatFor(w) = "I" /\ OpsOf(w) = Among(LoadOps, w)
         /\ OpcodeBits(w) = OpStore => FormatFor(w) = "S" /\ OpsOf(w) = Among(StoreOps, w)
         /\ OpcodeBits(w) = OpBranch => FormatFor(w) = "B" /\ OpsOf(w) = Among(BranchOps, w)
         /\ OpcodeBits(w) = OpJal => FormatFor(w) = "J" /\ OpsOf(w) = {"Jal"}
         /\ OpcodeBits(w) = OpJalr => FormatFor(w) = "I" /\ OpsOf(w) = {"Jalr"}
         /\ OpcodeBits(w) = OpLui => FormatFor(w) = "U" /\ OpsOf(w) = {"Lui"}
         /\ OpcodeBits(w) = OpAuipc => FormatFor(w) = "U" /\ OpsOf(w) = {"Auipc"}
<1> DEFINE RegSet == {t[3] : t \in {u \in RegOps : /\ Unsigned(u[1]) = Funct3(w)
                                                   /\ Unsigned(u[2]) = Funct7(w)}}
           ImmSet == IF Funct3(w) = Unsigned(5)
                       THEN {IF Funct7(w) = Unsigned(32) THEN "Srai" ELSE "Srli"}
                       ELSE Among(ImmOps, w)
           c == OpcodeBits(w)
<1>1. OpsOf(w) = CASE c = OpReg    -> RegSet
                   [] c = OpImm    -> ImmSet
                   [] c = OpLoad   -> Among(LoadOps, w)
                   [] c = OpStore  -> Among(StoreOps, w)
                   [] c = OpBranch -> Among(BranchOps, w)
                   [] c = OpJal    -> {"Jal"}
                   [] c = OpJalr   -> {"Jalr"}
                   [] c = OpLui    -> {"Lui"}
                   [] c = OpAuipc  -> {"Auipc"}
                   [] OTHER        -> {}
  BY DEF OpsOf, OpReg, OpImm, OpLoad, OpStore, OpBranch, OpJal, OpJalr, OpLui, OpAuipc
<1>2. FormatFor(w) = CASE c = OpReg              -> "R"
                       [] c = OpStore            -> "S"
                       [] c = OpBranch           -> "B"
                       [] c = OpJal              -> "J"
                       [] c \in {OpLui, OpAuipc} -> "U"
                       [] OTHER                  -> "I"
  BY DEF FormatFor, OpReg, OpImm, OpLoad, OpStore, OpBranch, OpJal, OpJalr, OpLui, OpAuipc
<1> HIDE DEF RegSet, ImmSet, c
<1>3. QED BY <1>1, <1>2, OpcodesDiffer, SMTT(60) DEF RegSet, ImmSet, c

\* A row of a table is found by its functs.
LEMMA RegRow ==
  ASSUME NEW w, NEW row \in RegOps, OpcodeBits(w) = OpReg,
         Funct3(w) = Unsigned(row[1]), Funct7(w) = Unsigned(row[2])
  PROVE  OpsOf(w) = {row[3]} /\ FormatFor(w) = "R"
<1>1. \A u \in RegOps : u[1] \in 0 .. 7 /\ u[2] \in {0, 32}
  BY DEF RegOps
<1>2. \A u, v \in RegOps : u[1] = v[1] /\ u[2] = v[2] => u[3] = v[3]
  BY DEF RegOps
<1>3. \A m, n \in 0 .. 127 : Unsigned(m) = Unsigned(n) => m = n
  BY FieldValues
<1>4. \A u \in RegOps : Unsigned(u[1]) = Funct3(w) /\ Unsigned(u[2]) = Funct7(w)
                          => u[1] = row[1] /\ u[2] = row[2]
  <2>1. \A u \in RegOps : u[1] \in 0 .. 127 /\ u[2] \in 0 .. 127
    BY <1>1
  <2>2. QED BY <1>3, <2>1
<1>5. \A u \in RegOps : Unsigned(u[1]) = Funct3(w) /\ Unsigned(u[2]) = Funct7(w)
                          => u[3] = row[3]
  BY <1>2, <1>4
<1>6. {t[3] : t \in {u \in RegOps : /\ Unsigned(u[1]) = Funct3(w)
                                    /\ Unsigned(u[2]) = Funct7(w)}} = {row[3]}
  BY <1>5
<1>7. QED BY <1>6, OpsByOpcode

\* The same for the tables without a funct7.
LEMMA AmongRow ==
  ASSUME NEW w, NEW ops, NEW row \in ops, Funct3(w) = Unsigned(row[1]),
         \A u \in ops : u[1] \in 0 .. 7, \A u, v \in ops : u[1] = v[1] => u[2] = v[2]
  PROVE  Among(ops, w) = {row[2]}
<1>1. \A u \in ops : Unsigned(u[1]) = Funct3(w) => u[1] = row[1]
  <2>1. \A u \in ops : u[1] \in 0 .. 127
    OBVIOUS
  <2>2. QED BY <2>1, FieldValues
<1>2. \A u \in ops : Unsigned(u[1]) = Funct3(w) => u[2] = row[2]
  BY <1>1
<1>3. QED BY <1>2 DEF Among

\* Words of this opcode and funct have one operation and format.
Selects(opcode, funct3, op, format) ==
  \A w : OpcodeBits(w) = opcode /\ Funct3(w) = funct3 => OpsOf(w) = {op} /\ FormatFor(w) = format

\* Every row of a table is the one decode() finds for its functs.
LEMMA RowsSelect ==
  /\ \A row \in ImmOps : Selects(OpImm, Unsigned(row[1]), row[2], "I")
  /\ \A row \in LoadOps : Selects(OpLoad, Unsigned(row[1]), row[2], "I")
  /\ \A row \in StoreOps : Selects(OpStore, Unsigned(row[1]), row[2], "S")
  /\ \A row \in BranchOps : Selects(OpBranch, Unsigned(row[1]), row[2], "B")
  /\ \A f : Selects(OpJalr, f, "Jalr", "I") /\ Selects(OpJal, f, "Jal", "J")
  /\ \A f : Selects(OpLui, f, "Lui", "U") /\ Selects(OpAuipc, f, "Auipc", "U")
<1>1. ASSUME NEW row \in ImmOps, NEW w, OpcodeBits(w) = OpImm, Funct3(w) = Unsigned(row[1])
      PROVE  OpsOf(w) = {row[2]} /\ FormatFor(w) = "I"
  <2>1. \A u \in ImmOps : u[1] \in 0 .. 7 /\ u[1] # 5
    BY DEF ImmOps
  <2>2. \A u, v \in ImmOps : u[1] = v[1] => u[2] = v[2]
    BY DEF ImmOps
  <2>3. Funct3(w) # Unsigned(5)
    <3>1. row[1] \in 0 .. 127 /\ 5 \in 0 .. 127 /\ row[1] # 5
      BY <2>1
    <3>2. QED BY <1>1, <3>1, FieldValues
  <2>4. Among(ImmOps, w) = {row[2]}
    BY <1>1, <2>1, <2>2, AmongRow
  <2>5. QED BY <1>1, <2>3, <2>4, OpsByOpcode
<1>2. ASSUME NEW row \in LoadOps, NEW w, OpcodeBits(w) = OpLoad, Funct3(w) = Unsigned(row[1])
      PROVE  OpsOf(w) = {row[2]} /\ FormatFor(w) = "I"
  <2>1. \A u \in LoadOps : u[1] \in 0 .. 7
    BY DEF LoadOps
  <2>2. \A u, v \in LoadOps : u[1] = v[1] => u[2] = v[2]
    BY DEF LoadOps
  <2>3. QED BY <1>2, <2>1, <2>2, AmongRow, OpsByOpcode
<1>3. ASSUME NEW row \in StoreOps, NEW w, OpcodeBits(w) = OpStore, Funct3(w) = Unsigned(row[1])
      PROVE  OpsOf(w) = {row[2]} /\ FormatFor(w) = "S"
  <2>1. \A u \in StoreOps : u[1] \in 0 .. 7
    BY DEF StoreOps
  <2>2. \A u, v \in StoreOps : u[1] = v[1] => u[2] = v[2]
    BY DEF StoreOps
  <2>3. QED BY <1>3, <2>1, <2>2, AmongRow, OpsByOpcode
<1>4. ASSUME NEW row \in BranchOps, NEW w, OpcodeBits(w) = OpBranch, Funct3(w) = Unsigned(row[1])
      PROVE  OpsOf(w) = {row[2]} /\ FormatFor(w) = "B"
  <2>1. \A u \in BranchOps : u[1] \in 0 .. 7
    BY DEF BranchOps
  <2>2. \A u, v \in BranchOps : u[1] = v[1] => u[2] = v[2]
    BY DEF BranchOps
  <2>3. QED BY <1>4, <2>1, <2>2, AmongRow, OpsByOpcode
<1>5. \A f : /\ Selects(OpJalr, f, "Jalr", "I") /\ Selects(OpJal, f, "Jal", "J")
             /\ Selects(OpLui, f, "Lui", "U") /\ Selects(OpAuipc, f, "Auipc", "U")
  BY OpsByOpcode DEF Selects
<1>6. QED BY <1>1, <1>2, <1>3, <1>4, <1>5 DEF Selects

-----------------------------------------------------------------------------
(* What a word is taken for. *)

Gets(w, a) == \E d \in Decode(w) : Is(d, a)

\* The one instruction a word decodes to.
LEMMA DecodesTo ==
  ASSUME NEW w, NEW op, OpsOf(w) = {op}
  PROVE  \A a : Gets(w, a) <=> Is([op |-> op, format |-> FormatFor(w), rd |-> Rd(w),
                                   rs1 |-> Rs1(w), rs2 |-> Rs2(w), imm |-> ImmOf(w)], a)
BY DEF Gets, Decode

\* The instructions to ask for, by the fields they have.
WithRegs(op, rd, rs1, rs2) == [op |-> op, rd |-> rd, rs1 |-> rs1, rs2 |-> rs2]
WithImm(op, rd, rs1, imm)  == [op |-> op, rd |-> rd, rs1 |-> rs1, imm |-> imm]
NoTarget(op, rs1, rs2, imm) == [op |-> op, rs1 |-> rs1, rs2 |-> rs2, imm |-> imm]
NoSource(op, rd, imm)      == [op |-> op, rd |-> rd, imm |-> imm]

\* The immediate of d is n.
SameImm(d, op, n) == (IF IsShift(op) THEN Low(d.imm, 5) ELSE d.imm) = Bits(n)

\* Such an instruction is the decoded one if all of its fields are.
LEMMA IsByFields ==
  ASSUME NEW d, NEW op, NEW x, NEW y, NEW z
  PROVE  /\ Is(d, WithRegs(op, x, y, z)) <=>
              /\ d.op = op /\ d.format = FormatNamed(op)
              /\ d.rd = Unsigned(x) /\ d.rs1 = Unsigned(y) /\ d.rs2 = Unsigned(z)
         /\ Is(d, WithImm(op, x, y, z)) <=>
              /\ d.op = op /\ d.format = FormatNamed(op)
              /\ d.rd = Unsigned(x) /\ d.rs1 = Unsigned(y) /\ SameImm(d, op, z)
         /\ Is(d, NoTarget(op, x, y, z)) <=>
              /\ d.op = op /\ d.format = FormatNamed(op)
              /\ d.rs1 = Unsigned(x) /\ d.rs2 = Unsigned(y) /\ SameImm(d, op, z)
         /\ Is(d, NoSource(op, x, z)) <=>
              /\ d.op = op /\ d.format = FormatNamed(op)
              /\ d.rd = Unsigned(x) /\ SameImm(d, op, z)
<1>1. /\ DOMAIN WithRegs(op, x, y, z) = {"op", "rd", "rs1", "rs2"}
      /\ DOMAIN WithImm(op, x, y, z) = {"op", "rd", "rs1", "imm"}
      /\ DOMAIN NoTarget(op, x, y, z) = {"op", "rs1", "rs2", "imm"}
      /\ DOMAIN NoSource(op, x, z) = {"op", "rd", "imm"}
  BY DEF WithRegs, WithImm, NoTarget, NoSource
<1>2. Is(d, WithRegs(op, x, y, z)) <=>
        /\ d.op = op /\ d.format = FormatNamed(op)
        /\ d.rd = Unsigned(x) /\ d.rs1 = Unsigned(y) /\ d.rs2 = Unsigned(z)
  BY <1>1 DEF Is, WithRegs
<1>3. Is(d, WithImm(op, x, y, z)) <=>
        /\ d.op = op /\ d.format = FormatNamed(op)
        /\ d.rd = Unsigned(x) /\ d.rs1 = Unsigned(y) /\ SameImm(d, op, z)
  BY <1>1 DEF Is, WithImm, SameImm
<1>4. Is(d, NoTarget(op, x, y, z)) <=>
        /\ d.op = op /\ d.format = FormatNamed(op)
        /\ d.rs1 = Unsigned(x) /\ d.rs2 = Unsigned(y) /\ SameImm(d, op, z)
  BY <1>1 DEF Is, NoTarget, SameImm
<1>5. Is(d, NoSource(op, x, z)) <=>
        /\ d.op = op /\ d.format = FormatNamed(op)
        /\ d.rd = Unsigned(x) /\ SameImm(d, op, z)
  BY <1>1 DEF Is, NoSource, SameImm
<1>6. QED BY <1>2, <1>3, <1>4, <1>5

\* What the instruction is taken for that a word decodes to.
LEMMA GetsByFields ==
  ASSUME NEW w, NEW op, OpsOf(w) = {op}, FormatFor(w) = FormatNamed(op),
         NEW x, NEW y, NEW z, NEW imm, imm = (IF IsShift(op) THEN Low(ImmOf(w), 5) ELSE ImmOf(w))
  PROVE  /\ Gets(w, WithRegs(op, x, y, z)) <=>
              Rd(w) = Unsigned(x) /\ Rs1(w) = Unsigned(y) /\ Rs2(w) = Unsigned(z)
         /\ Gets(w, WithImm(op, x, y, z)) <=>
              Rd(w) = Unsigned(x) /\ Rs1(w) = Unsigned(y) /\ imm = Bits(z)
         /\ Gets(w, NoTarget(op, x, y, z)) <=>
              Rs1(w) = Unsigned(x) /\ Rs2(w) = Unsigned(y) /\ imm = Bits(z)
         /\ Gets(w, NoSource(op, x, z)) <=> Rd(w) = Unsigned(x) /\ imm = Bits(z)
<1> DEFINE d == [op |-> op, format |-> FormatFor(w), rd |-> Rd(w), rs1 |-> Rs1(w),
                 rs2 |-> Rs2(w), imm |-> ImmOf(w)]
<1>1. \A a : Gets(w, a) <=> Is(d, a)
  BY DecodesTo
<1>2. /\ d.op = op /\ d.format = FormatNamed(op) /\ d.rd = Rd(w) /\ d.rs1 = Rs1(w)
      /\ d.rs2 = Rs2(w) /\ d.imm = ImmOf(w)
  OBVIOUS
<1> HIDE DEF d
<1>3. SameImm(d, op, z) <=> imm = Bits(z)
  BY <1>2 DEF SameImm
<1>4. QED BY <1>1, <1>2, <1>3, IsByFields

\* A register beyond 31 is never found again: the field it is looked for in has five bits.
LEMMA RegistersFound ==
  ASSUME NEW w, NEW n \in 0 .. 255
  PROVE  /\ Rd(w) = Unsigned(n) \/ Rs1(w) = Unsigned(n) \/ Rs2(w) = Unsigned(n) => n < 32
         /\ n < 32 => Unsigned(n) \in RegField
<1>1. Rd(w) \in RegField /\ Rs1(w) \in RegField /\ Rs2(w) \in RegField
  BY FieldBit DEF Rd, Rs1, Rs2, RegField
<1>2. QED BY <1>1, FieldValues

\* An R-type word is taken for the one asked for when its registers exist.
LEMMA RegWord ==
  ASSUME NEW x \in 0 .. 255, NEW y \in 0 .. 255, NEW z \in 0 .. 255, NEW row \in RegOps,
         FormatNamed(row[3]) = "R", NEW w,
         w = RType(Unsigned(x), Unsigned(y), Unsigned(z), Unsigned(row[1]), Unsigned(row[2]),
                   OpReg)
  PROVE  Gets(w, WithRegs(row[3], x, y, z)) <=> x < 32 /\ y < 32 /\ z < 32
<1>1. x < 32 /\ y < 32 /\ z < 32 => Gets(w, WithRegs(row[3], x, y, z))
  <2>1. SUFFICES ASSUME x < 32, y < 32, z < 32 PROVE Gets(w, WithRegs(row[3], x, y, z))
    OBVIOUS
  <2>2. row[1] \in 0 .. 7 /\ row[2] \in 0 .. 127
    BY DEF RegOps
  <2>3. /\ Unsigned(x) \in RegField /\ Unsigned(y) \in RegField /\ Unsigned(z) \in RegField
        /\ Unsigned(row[1]) \in Funct3Field /\ Unsigned(row[2]) \in SevenBits
        /\ OpReg \in SevenBits
    BY <2>1, <2>2, FieldValues, OpcodesDiffer
  <2>4. /\ OpcodeBits(w) = OpReg /\ Funct3(w) = Unsigned(row[1]) /\ Funct7(w) = Unsigned(row[2])
        /\ Rd(w) = Unsigned(x) /\ Rs1(w) = Unsigned(y) /\ Rs2(w) = Unsigned(z)
    BY <2>3, RTypeRoundTrip
  <2>5. OpsOf(w) = {row[3]} /\ FormatFor(w) = "R"
    BY <2>4, RegRow
  <2>6. QED BY <2>4, <2>5, GetsByFields
<1>2. Gets(w, WithRegs(row[3], x, y, z)) => x < 32 /\ y < 32 /\ z < 32
  <2>1. SUFFICES ASSUME NEW d \in Decode(w), Is(d, WithRegs(row[3], x, y, z))
                 PROVE  x < 32 /\ y < 32 /\ z < 32
    BY DEF Gets
  <2>2. Rd(w) = Unsigned(x) /\ Rs1(w) = Unsigned(y) /\ Rs2(w) = Unsigned(z)
    BY <2>1, IsByFields DEF Decode
  <2>3. QED BY <2>2, RegistersFound
<1>3. QED BY <1>1, <1>2

\* An I-type word is taken for the one asked for when what is left of the immediate put in,
\* which need not be the one asked for, is that.
LEMMA ImmWord ==
  ASSUME NEW x \in 0 .. 255, NEW y \in 0 .. 255, NEW imm \in Word32, NEW n,
         NEW opcode \in SevenBits, NEW funct3 \in Funct3Field, NEW op,
         Selects(opcode, funct3, op, "I"), FormatNamed(op) = "I", ~IsShift(op)
  PROVE  Gets(IType(Unsigned(x), Unsigned(y), imm, funct3, opcode), WithImm(op, x, y, n))
           <=> x < 32 /\ y < 32 /\ Extended(imm, 11) = Bits(n)
<1>0. PICK w : w = IType(Unsigned(x), Unsigned(y), imm, funct3, opcode)
  OBVIOUS
<1>1. ASSUME x < 32, y < 32
      PROVE  Gets(w, WithImm(op, x, y, n)) <=> Extended(imm, 11) = Bits(n)
  <2>1. Unsigned(x) \in RegField /\ Unsigned(y) \in RegField
    BY <1>1, FieldValues
  <2>2. /\ OpcodeBits(w) = opcode /\ Funct3(w) = funct3
        /\ Rd(w) = Unsigned(x) /\ Rs1(w) = Unsigned(y) /\ ImmI(w) = Extended(imm, 11)
    BY <1>0, <2>1, ITypeRoundTrip
  <2>3. OpsOf(w) = {op} /\ FormatFor(w) = "I"
    BY <2>2 DEF Selects
  <2>4. ImmOf(w) = Extended(imm, 11)
    BY <2>2, <2>3 DEF ImmOf
  <2>5. QED BY <2>2, <2>3, <2>4, GetsByFields
<1>2. Gets(w, WithImm(op, x, y, n)) => x < 32 /\ y < 32
  <2>1. SUFFICES ASSUME NEW d \in Decode(w), Is(d, WithImm(op, x, y, n))
                 PROVE  x < 32 /\ y < 32
    BY DEF Gets
  <2>2. Rd(w) = Unsigned(x) /\ Rs1(w) = Unsigned(y)
    BY <2>1, IsByFields DEF Decode
  <2>3. QED BY <2>2, RegistersFound
<1>3. QED BY <1>0, <1>1, <1>2

\* The same for a store, of whose immediate the sign is lost.
LEMMA StoreWord ==
  ASSUME NEW x \in 0 .. 255, NEW y \in 0 .. 255, NEW imm \in Word32, NEW n,
         NEW row \in StoreOps, FormatNamed(row[2]) = "S", ~IsShift(row[2])
  PROVE  Gets(SType(Unsigned(x), Unsigned(y), imm, Unsigned(row[1]), OpStore),
              NoTarget(row[2], x, y, n))
           <=> x < 32 /\ y < 32 /\ Low(imm, 12) = Bits(n)
<1>0. PICK w : w = SType(Unsigned(x), Unsigned(y), imm, Unsigned(row[1]), OpStore)
  OBVIOUS
<1>1. ASSUME x < 32, y < 32
      PROVE  Gets(w, NoTarget(row[2], x, y, n)) <=> Low(imm, 12) = Bits(n)
  <2>1. row[1] \in 0 .. 7
    BY DEF StoreOps
  <2>2. /\ Unsigned(x) \in RegField /\ Unsigned(y) \in RegField
        /\ Unsigned(row[1]) \in Funct3Field /\ OpStore \in SevenBits
    BY <1>1, <2>1, FieldValues, OpcodesDiffer
  <2>3. /\ OpcodeBits(w) = OpStore /\ Funct3(w) = Unsigned(row[1])
        /\ Rs1(w) = Unsigned(x) /\ Rs2(w) = Unsigned(y) /\ ImmS(w) = Low(imm, 12)
    BY <1>0, <2>2, STypeRoundTrip
  <2>4. OpsOf(w) = {row[2]} /\ FormatFor(w) = "S"
    BY <2>3, RowsSelect DEF Selects
  <2>5. ImmOf(w) = Low(imm, 12)
    BY <2>3, <2>4 DEF ImmOf
  <2>6. QED BY <2>3, <2>4, <2>5, GetsByFields
<1>2. Gets(w, NoTarget(row[2], x, y, n)) => x < 32 /\ y < 32
  <2>1. SUFFICES ASSUME NEW d \in Decode(w), Is(d, NoTarget(row[2], x, y, n))
                 PROVE  x < 32 /\ y < 32
    BY DEF Gets
  <2>2. Rs1(w) = Unsigned(x) /\ Rs2(w) = Unsigned(y)
    BY <2>1, IsByFields DEF Decode
  <2>3. QED BY <2>2, RegistersFound
<1>3. QED BY <1>0, <1>1, <1>2

\* The same for a branch, of whose immediate bit 0 is lost.
LEMMA BranchWord ==
  ASSUME NEW x \in 0 .. 255, NEW y \in 0 .. 255, NEW imm \in Word32, NEW n,
         NEW row \in BranchOps, FormatNamed(row[2]) = "B", ~IsShift(row[2])
  PROVE  Gets(BType(Unsigned(x), Unsigned(y), imm, Unsigned(row[1]), OpBranch),
              NoTarget(row[2], x, y, n))
           <=> x < 32 /\ y < 32 /\ Extended(imm, 12) \ {0} = Bits(n)
<1>0. PICK w : w = BType(Unsigned(x), Unsigned(y), imm, Unsigned(row[1]), OpBranch)
  OBVIOUS
<1>1. ASSUME x < 32, y < 32
      PROVE  Gets(w, NoTarget(row[2], x, y, n)) <=> Extended(imm, 12) \ {0} = Bits(n)
  <2>1. row[1] \in 0 .. 7
    BY DEF BranchOps
  <2>2. /\ Unsigned(x) \in RegField /\ Unsigned(y) \in RegField
        /\ Unsigned(row[1]) \in Funct3Field /\ OpBranch \in SevenBits
    BY <1>1, <2>1, FieldValues, OpcodesDiffer
  <2>3. /\ OpcodeBits(w) = OpBranch /\ Funct3(w) = Unsigned(row[1])
        /\ Rs1(w) = Unsigned(x) /\ Rs2(w) = Unsigned(y) /\ ImmB(w) = Extended(imm, 12) \ {0}
    BY <1>0, <2>2, BTypeRoundTrip
  <2>4. OpsOf(w) = {row[2]} /\ FormatFor(w) = "B"
    BY <2>3, RowsSelect DEF Selects
  <2>5. ImmOf(w) = Extended(imm, 12) \ {0}
    BY <2>3, <2>4 DEF ImmOf
  <2>6. QED BY <2>3, <2>4, <2>5, GetsByFields
<1>2. Gets(w, NoTarget(row[2], x, y, n)) => x < 32 /\ y < 32
  <2>1. SUFFICES ASSUME NEW d \in Decode(w), Is(d, NoTarget(row[2], x, y, n))
                 PROVE  x < 32 /\ y < 32
    BY DEF Gets
  <2>2. Rs1(w) = Unsigned(x) /\ Rs2(w) = Unsigned(y)
    BY <2>1, IsByFields DEF Decode
  <2>3. QED BY <2>2, RegistersFound
<1>3. QED BY <1>0, <1>1, <1>2

\* A word without a source register has its target, if it is found.
LEMMA TargetFound ==
  ASSUME NEW x \in 0 .. 255, NEW w, NEW op, NEW n, Gets(w, NoSource(op, x, n))
  PROVE  x < 32
<1>1. PICK d \in Decode(w) : Is(d, NoSource(op, x, n))
  BY DEF Gets
<1>2. Rd(w) = Unsigned(x)
  BY <1>1, IsByFields DEF Decode
<1>3. QED BY <1>2, RegistersFound

\* A jump, of whose immediate bit 0 is lost.
LEMMA JumpWord ==
  ASSUME NEW x \in 0 .. 255, NEW imm \in Word32, NEW n, NEW w,
         w = JType(Unsigned(x), imm, OpJal)
  PROVE  Gets(w, NoSource("Jal", x, n)) <=> x < 32 /\ Extended(imm, 20) \ {0} = Bits(n)
<1>1. ASSUME x < 32
      PROVE  Gets(w, NoSource("Jal", x, n)) <=> Extended(imm, 20) \ {0} = Bits(n)
  <2>1. Unsigned(x) \in RegField /\ OpJal \in SevenBits
    BY <1>1, FieldValues, OpcodesDiffer
  <2>2. OpcodeBits(w) = OpJal /\ Rd(w) = Unsigned(x) /\ ImmJ(w) = Extended(imm, 20) \ {0}
    BY <2>1, JTypeRoundTrip
  <2>3. OpsOf(w) = {"Jal"} /\ FormatFor(w) = "J"
    BY <2>2, RowsSelect DEF Selects
  <2>4. ImmOf(w) = Extended(imm, 20) \ {0}
    BY <2>2, <2>3 DEF ImmOf
  <2>5. FormatNamed("Jal") = "J" /\ ~IsShift("Jal")
    BY DEF FormatNamed, IsShift
  <2>6. QED BY <2>2, <2>3, <2>4, <2>5, GetsByFields
<1>2. QED BY <1>1, TargetFound

\* The upper immediates, of which the low twelve bits are lost.
LEMMA UpperWord ==
  ASSUME NEW x \in 0 .. 255, NEW imm \in Word32, NEW n, NEW opcode \in SevenBits, NEW op, NEW w,
         \A f : Selects(opcode, f, op, "U"), FormatNamed(op) = "U", ~IsShift(op),
         w = UType(Unsigned(x), imm, opcode)
  PROVE  Gets(w, NoSource(op, x, n)) <=> x < 32 /\ imm \cap 12 .. 31 = Bits(n)
<1>1. ASSUME x < 32
      PROVE  Gets(w, NoSource(op, x, n)) <=> imm \cap 12 .. 31 = Bits(n)
  <2>1. Unsigned(x) \in RegField
    BY <1>1, FieldValues
  <2>2. OpcodeBits(w) = opcode /\ Rd(w) = Unsigned(x) /\ ImmU(w) = imm \cap 12 .. 31
    BY <2>1, UTypeRoundTrip
  <2>3. OpsOf(w) = {op} /\ FormatFor(w) = "U"
    BY <2>2 DEF Selects
  <2>4. ImmOf(w) = imm \cap 12 .. 31
    BY <2>2, <2>3 DEF ImmOf
  <2>5. QED BY <2>2, <2>3, <2>4, GetsByFields
<1>2. QED BY <1>1, TargetFound

\* Numbers the assembler puts into words of its own accord.
LEMMA SmallNumbers ==
  /\ Unsigned(0) = {} /\ Bits(0) = {} /\ 0 \in Int32 /\ -1 \in Int32
  /\ Unsigned(32) = {5}
<1>1. 0 \in Int32 /\ -1 \in Int32 /\ Unsigned(0) = Bits(0)
  BY UnsignedBits DEF Int32, Between
<1>2. Unsigned(0) = {}
  <2>1. Unsigned(0) \in RegField
    <3>1. 0 \in 0 .. 255 /\ 0 < 32
      OBVIOUS
    <3>2. QED BY <3>1, FieldValues
  <2>2. /\ 0 \notin Unsigned(0) /\ 1 \notin Unsigned(0) /\ 2 \notin Unsigned(0)
        /\ 3 \notin Unsigned(0) /\ 4 \notin Unsigned(0)
    BY DEF Unsigned
  <2>3. QED BY <2>1, <2>2 DEF RegField
<1>3. Unsigned(32) = {5}
  <2>1. Unsigned(32) \in SevenBits
    <3>1. 32 \in 0 .. 127
      OBVIOUS
    <3>2. QED BY <3>1, FieldValues
  <2>2. /\ 0 \notin Unsigned(32) /\ 1 \notin Unsigned(32) /\ 2 \notin Unsigned(32)
        /\ 3 \notin Unsigned(32) /\ 4 \notin Unsigned(32) /\ 5 \in Unsigned(32)
        /\ 6 \notin Unsigned(32)
    BY DEF Unsigned
  <2>3. QED BY <2>1, <2>2 DEF SevenBits
<1>4. QED BY <1>1, <1>2, <1>3

\* A shift by an immediate is an I-type word with a funct in the upper part of its immediate,
\* which the amount must leave alone.
LEMMA ShiftWord ==
  ASSUME NEW x \in 0 .. 255, NEW y \in 0 .. 255, NEW n \in Int32,
         NEW op \in {"Slli", "Srli", "Srai"}, NEW f, f = (IF op = "Slli" THEN 1 ELSE 5),
         NEW imm, imm = (IF op = "Srai" THEN Bits(n) \cup {10} ELSE Bits(n)), NEW w,
         w = IType(Unsigned(x), Unsigned(y), imm, Unsigned(f), OpImm)
  PROVE  Gets(w, WithImm(op, x, y, n)) <=> x < 32 /\ y < 32 /\ Between(0, n, 31)
<1>1. Between(0, n, 31) <=> Bits(n) \subseteq 0 .. 4
  BY Widths
<1>2. Gets(w, WithImm(op, x, y, n)) => x < 32 /\ y < 32 /\ Between(0, n, 31)
  <2>1. SUFFICES ASSUME NEW d \in Decode(w), Is(d, WithImm(op, x, y, n))
                 PROVE  x < 32 /\ y < 32 /\ Between(0, n, 31)
    BY DEF Gets
  <2>2. Rd(w) = Unsigned(x) /\ Rs1(w) = Unsigned(y)
    BY <2>1, IsByFields DEF Decode
  <2>3. Low(d.imm, 5) = Bits(n)
    BY <2>1, IsByFields DEF SameImm, IsShift
  <2>4. QED BY <1>1, <2>2, <2>3, RegistersFound DEF Low
<1>3. ASSUME x < 32, y < 32, Between(0, n, 31) PROVE Gets(w, WithImm(op, x, y, n))
  <2>1. Bits(n) \subseteq 0 .. 4
    BY <1>1, <1>3
  <2>2. imm \in Word32 /\ \A i \in 5 .. 11 : i \in imm <=> op = "Srai" /\ i = 10
    BY <2>1 DEF Word32
  <2>3. /\ Unsigned(x) \in RegField /\ Unsigned(y) \in RegField
        /\ Unsigned(f) \in Funct3Field /\ OpImm \in SevenBits
    <3>1. f \in 0 .. 7
      OBVIOUS
    <3>2. QED BY <1>3, <3>1, FieldValues, OpcodesDiffer
  <2>4. /\ OpcodeBits(w) = OpImm /\ Funct3(w) = Unsigned(f)
        /\ Rd(w) = Unsigned(x) /\ Rs1(w) = Unsigned(y) /\ ImmI(w) = Extended(imm, 11)
    BY <2>2, <2>3, ITypeRoundTrip
  <2>5. Low(ImmI(w), 5) = Bits(n)
    <3>1. \A i \in 0 .. 4 : i \in Extended(imm, 11) <=> i \in Bits(n)
      BY DEF Extended
    <3>2. QED BY <2>1, <2>4, <3>1 DEF Low
  <2>6. Funct7(w) = (IF op = "Srai" THEN {5} ELSE {})
    <3>1. ASSUME NEW i \in 0 .. 6 PROVE i \in Funct7(w) <=> op = "Srai" /\ i = 5
      <4>1. i \in Funct7(w) <=> i + 25 \in w
        BY FieldBit DEF Funct7
      <4>2. i + 25 \in w <=> i + 5 \in ImmI(w)
        BY DEF ImmI, Sar
      <4>3. i + 5 \in Extended(imm, 11) <=> i + 5 \in imm
        BY DEF Extended
      <4>4. QED BY <2>2, <2>4, <4>1, <4>2, <4>3
    <3>2. Funct7(w) \subseteq 0 .. 6
      BY FieldBit DEF Funct7
    <3>3. QED BY <3>1, <3>2
  <2>7. OpsOf(w) = {op} /\ FormatFor(w) = "I"
    <3>1. CASE op = "Slli"
      <4>1. <<1, "Slli">> \in ImmOps
        BY DEF ImmOps
      <4>2. Selects(OpImm, Unsigned(1), "Slli", "I")
        BY <4>1, RowsSelect
      <4>3. QED BY <2>4, <3>1, <4>2 DEF Selects
    <3>2. CASE op # "Slli"
      <4>1. Funct7(w) = Unsigned(32) <=> op = "Srai"
        BY <2>6, SmallNumbers
      <4>2. QED BY <2>4, <3>2, <4>1, OpsByOpcode
    <3>3. QED BY <3>1, <3>2
  <2>8. IsShift(op) /\ FormatNamed(op) = "I"
    BY DEF IsShift, FormatNamed
  <2>9. ImmOf(w) = ImmI(w)
    BY <2>7 DEF ImmOf
  <2>10. QED BY <2>4, <2>5, <2>7, <2>8, <2>9, GetsByFields
<1>4. QED BY <1>2, <1>3

\* The word of `nop' is that of `addi x0, x0, 0'.
LEMMA NopWord == Bits(19) = IType(Unsigned(0), Unsigned(0), Bits(0), Unsigned(0), OpImm)
<1>1. Unsigned(19) = Bits(19) /\ OpImm = Unsigned(19)
  BY UnsignedBits DEF OpImm
<1>2. \A k : Shl({}, k) = {}
  BY DEF Shl
<1>3. Low({}, 12) = {}
  BY DEF Low
<1>4. QED BY <1>1, <1>2, <1>3, SmallNumbers DEF IType

-----------------------------------------------------------------------------
(* What operands say, and what the operand parsers make of them. *)

\* A line the sources may have.
LineTyped(l) == IsSequence(l.ops) /\ \A i \in DOMAIN l.ops : OperandText(l.ops[i])

\* A register operand says its number, and reg() finds it.
LEMMA RegOperand ==
  ASSUME NEW t, OperandText(t), RegText(t), NEW pc
  PROVE  t.n \in 0 .. 255 /\ The(RegOf(t)) = t.n /\ Said(t, pc) = t.n
<1>1. t.n \in 0 .. 255
  BY DEF OperandText, PlainText, RegText
<1>2. RegOf(t) = {t.n}
  BY DEF RegText, RegOf
<1>3. QED BY <1>1, <1>2 DEF The, Said, RegText

\* There are no more instructions than lines.
LEMMA InstrsBound ==
  ASSUME NEW s, NEW n \in Nat, NEW i \in 0 .. n
  PROVE  Instrs(s, i) \in 0 .. n
<1>1. IsFiniteSet(1 .. i) /\ Cardinality(1 .. i) = i
  BY FS_Interval
<1>2. {j \in 1 .. i : s[j].kind = "instr"} \in SUBSET (1 .. i)
  OBVIOUS
<1>3. Instrs(s, i) <= i
  BY <1>1, <1>2, FS_Subset DEF Instrs
<1>4. Instrs(s, i) \in Nat
  <2>1. i \in Nat
    OBVIOUS
  <2>2. QED BY <2>1, InstrsFinite
<1>5. QED BY <1>3, <1>4

\* Addresses and distances are numbers an i32 holds.
LEMMA AddrBound ==
  ASSUME source \in Sources, NEW name \in Defined
  PROVE  AddrOf(name) \in 0 .. 4 * Len(source)
<1> DEFINE Final(i) == \A j \in LabelLines(name) : j <= i
           at == CHOOSE i \in LabelLines(name) : Final(i)
<1>1. Len(source) \in Nat /\ DOMAIN source = 1 .. Len(source)
  BY SourceIsLines
<1>2. LabelLines(name) \in SUBSET (1 .. Len(source)) /\ LabelLines(name) # {}
  BY <1>1 DEF Defined, LabelLines
<1>3. \E i \in LabelLines(name) : Final(i)
  BY <1>1, <1>2, LastOf
<1> HIDE DEF Final
<1>4. at \in 1 .. Len(source)
  BY <1>2, <1>3
<1>5. AddrOf(name) = 4 * Instrs(source, at)
  BY DEF AddrOf, InstrsUpTo, Instrs, Final
<1>6. QED BY <1>1, <1>4, <1>5, InstrsBound

\* A number or label says what resolve() makes of it.
LEMMA ImmOperand ==
  ASSUME source \in Sources, LabelsRight, NEW pc \in 0 .. 4 * Len(source),
         NEW t, OperandText(t), ImmText(t)
  PROVE  The(Resolved(t, pc)) = Said(t, pc) /\ Said(t, pc) \in Int32
<1>1. CASE t.kind \in {"dec", "hex"}
  <2>1. t.n \in Int32
    BY <1>1 DEF OperandText, PlainText
  <2>2. Resolved(t, pc) = {t.n} /\ Said(t, pc) = t.n
    BY <1>1 DEF Resolved, Said
  <2>3. QED BY <2>1, <2>2 DEF The
<1>2. CASE t.kind = "name" /\ t.name \in Defined
  <2>1. t.name \in DOMAIN labels /\ labels[t.name] = AddrOf(t.name)
    BY <1>2 DEF LabelsRight, LabelsKnown
  <2>2. Resolved(t, pc) = {AddrOf(t.name) - pc} /\ Said(t, pc) = AddrOf(t.name) - pc
    BY <1>2, <2>1 DEF Resolved, Said
  <2>3. AddrOf(t.name) \in 0 .. 4 * Len(source)
    BY <1>2, AddrBound
  <2>4. Len(source) \in Nat /\ 4 * Len(source) \in Int32
    BY SourceIsLines, SourceAssumption
  <2>5. AddrOf(t.name) - pc \in Int32
    BY <2>3, <2>4 DEF Int32, Between
  <2>6. QED BY <2>2, <2>5 DEF The
<1>3. QED BY <1>1, <1>2 DEF ImmText

\* A base is a register; an offset counts if it is in decimal, and what it says is
\* lost if it is in hexadecimal and not 0.
LEMMA MemOperand ==
  ASSUME NEW t, OperandText(t), MemText(t)
  PROVE  /\ RegText(t.base) /\ OperandText(t.base)
         /\ SaidOffset(t) \in Int32 /\ OffsetOf(t) \in Int32
         /\ t.off.kind # "hex" => OffsetOf(t) = SaidOffset(t)
         /\ t.off.kind = "hex" => OffsetOf(t) = 0 /\ SaidOffset(t) = t.off.n
<1>1. PlainText(t.off) /\ PlainText(t.base) /\ RegText(t.base)
  BY DEF OperandText, MemText, PlainText
<1>2. t.off.kind \in {"dec", "hex"} => t.off.n \in Int32
  BY <1>1 DEF PlainText
<1>3. SaidOffset(t) \in Int32 /\ OffsetOf(t) \in Int32
  BY <1>2, SmallNumbers DEF SaidOffset, OffsetOf
<1>4. QED BY <1>1, <1>3 DEF OperandText, SaidOffset, OffsetOf

-----------------------------------------------------------------------------
(* The mnemonics' rows are rows of decode()'s tables. *)

\* R-type.
LEMMA RegMnemonics ==
  \A m \in DOMAIN RegRows : /\ <<RegRows[m][1], RegRows[m][2], OpNamed[m]>> \in RegOps
                            /\ FormatNamed(OpNamed[m]) = "R"
BY DEF RegRows, RegOps, OpNamed, FormatNamed

\* I-type, without the shifts.
LEMMA ImmMnemonics ==
  \A m \in DOMAIN ImmRows \ {"slli", "srli", "srai"} :
    /\ <<ImmRows[m], OpNamed[m]>> \in ImmOps
    /\ FormatNamed(OpNamed[m]) = "I" /\ ~IsShift(OpNamed[m])
BY DEF ImmRows, ImmOps, OpNamed, FormatNamed, IsShift

\* Loads.
LEMMA LoadMnemonics ==
  \A m \in DOMAIN LoadRows : /\ <<LoadRows[m], OpNamed[m]>> \in LoadOps
                             /\ FormatNamed(OpNamed[m]) = "I" /\ ~IsShift(OpNamed[m])
BY DEF LoadRows, LoadOps, OpNamed, FormatNamed, IsShift

\* Stores.
LEMMA StoreMnemonics ==
  \A m \in DOMAIN StoreRows : /\ <<StoreRows[m], OpNamed[m]>> \in StoreOps
                              /\ FormatNamed(OpNamed[m]) = "S" /\ ~IsShift(OpNamed[m])
BY DEF StoreRows, StoreOps, OpNamed, FormatNamed, IsShift

\* Branches.
LEMMA BranchMnemonics ==
  \A m \in DOMAIN BranchRows : /\ <<BranchRows[m], OpNamed[m]>> \in BranchOps
                               /\ FormatNamed(OpNamed[m]) = "B" /\ ~IsShift(OpNamed[m])
BY DEF BranchRows, BranchOps, OpNamed, FormatNamed, IsShift

-----------------------------------------------------------------------------
(* Lines by their mnemonic. *)

Simple == {"nop", "mv", "li", "j", "jr", "ret", "not", "neg", "jal", "jalr", "lui", "auipc"}

\* The parser of each mnemonic.
LEMMA ParserByMnemonic ==
  ASSUME NEW m
  PROVE  /\ m \in {"nop", "ret"} => Parser(m) = {"nothing"}
         /\ m \in {"mv", "not", "neg"} => Parser(m) = {"reg2"}
         /\ m \in {"li", "lui", "auipc", "jal"} => Parser(m) = {"reg_imm"}
         /\ m = "j" => Parser(m) = {"resolve"}
         /\ m = "jr" => Parser(m) = {"reg"}
         /\ m \in DOMAIN RegRows => Parser(m) = {"reg3"}
         /\ m \in DOMAIN ImmRows \cup {"jalr"} => Parser(m) = {"reg_reg_imm"}
         /\ m \in DOMAIN LoadRows \cup DOMAIN StoreRows => Parser(m) = {"reg_mem"}
         /\ m \in DOMAIN BranchRows => Parser(m) = {"reg_reg_label"}
BY DEF Parser, RegRows, ImmRows, LoadRows, StoreRows, BranchRows

\* No mnemonic is of two kinds.
LEMMA MnemonicKinds ==
  ASSUME NEW m
  PROVE  /\ m \in DOMAIN RegRows =>
              /\ m \notin Simple /\ m \notin DOMAIN ImmRows /\ m \notin DOMAIN LoadRows
              /\ m \notin DOMAIN StoreRows /\ m \notin DOMAIN BranchRows
         /\ m \in DOMAIN ImmRows =>
              /\ m \notin Simple /\ m \notin DOMAIN LoadRows
              /\ m \notin DOMAIN StoreRows /\ m \notin DOMAIN BranchRows
         /\ m \in DOMAIN LoadRows =>
              m \notin Simple /\ m \notin DOMAIN StoreRows /\ m \notin DOMAIN BranchRows
         /\ m \in DOMAIN StoreRows => m \notin Simple /\ m \notin DOMAIN BranchRows
         /\ m \in DOMAIN BranchRows => m \notin Simple
BY DEF RegRows, ImmRows, LoadRows, StoreRows, BranchRows, Simple

\* The operands of a line, as what they are made of.
RegAt(l, i)     == Unsigned(The(RegOf(Op(l, i))))
ImmAt(l, i, pc) == Bits(The(Resolved(Op(l, i), pc)))
BaseAt(l)       == Unsigned(The(RegOf(Op(l, 2).base)))
OffAt(l)        == Bits(OffsetOf(Op(l, 2)))

\* The word of each mnemonic.
LEMMA EncodedByMnemonic ==
  ASSUME NEW l, NEW pc, NEW m, m = l.mnemonic
  PROVE  /\ m = "nop" => Encoded(l, pc) = Bits(19)
         /\ m = "mv" => Encoded(l, pc) = IType(RegAt(l, 1), RegAt(l, 2), {}, {}, OpImm)
         /\ m = "li" => Encoded(l, pc) = IType(RegAt(l, 1), {}, ImmAt(l, 2, pc), {}, OpImm)
         /\ m = "j" => Encoded(l, pc) = JType({}, ImmAt(l, 1, pc), OpJal)
         /\ m = "jr" => Encoded(l, pc) = IType({}, RegAt(l, 1), {}, {}, OpJalr)
         /\ m = "ret" => Encoded(l, pc) = IType({}, Unsigned(1), {}, {}, OpJalr)
         /\ m = "not" =>
              Encoded(l, pc) = IType(RegAt(l, 1), RegAt(l, 2), Bits(-1), Unsigned(4), OpImm)
         /\ m = "neg" =>
              Encoded(l, pc) = RType(RegAt(l, 1), {}, RegAt(l, 2), {}, Unsigned(32), OpReg)
         /\ m \in DOMAIN RegRows =>
              Encoded(l, pc) = RType(RegAt(l, 1), RegAt(l, 2), RegAt(l, 3),
                                     Unsigned(RegRows[m][1]), Unsigned(RegRows[m][2]), OpReg)
         /\ m = "srai" =>
              Encoded(l, pc) = IType(RegAt(l, 1), RegAt(l, 2), ImmAt(l, 3, pc) \cup {10},
                                     Unsigned(5), OpImm)
         /\ m \in DOMAIN ImmRows \ {"srai"} =>
              Encoded(l, pc) = IType(RegAt(l, 1), RegAt(l, 2), ImmAt(l, 3, pc),
                                     Unsigned(ImmRows[m]), OpImm)
         /\ m \in DOMAIN LoadRows =>
              Encoded(l, pc) = IType(RegAt(l, 1), BaseAt(l), OffAt(l), Unsigned(LoadRows[m]),
                                     OpLoad)
         /\ m \in DOMAIN StoreRows =>
              Encoded(l, pc) = SType(BaseAt(l), RegAt(l, 1), OffAt(l), Unsigned(StoreRows[m]),
                                     OpStore)
         /\ m \in DOMAIN BranchRows =>
              Encoded(l, pc) = BType(RegAt(l, 1), RegAt(l, 2), ImmAt(l, 3, pc),
                                     Unsigned(BranchRows[m]), OpBranch)
         /\ m = "jal" => Encoded(l, pc) = JType(RegAt(l, 1), ImmAt(l, 2, pc), OpJal)
         /\ m = "jalr" =>
              Encoded(l, pc) = IType(RegAt(l, 1), RegAt(l, 2), ImmAt(l, 3, pc), {}, OpJalr)
         /\ m = "lui" => Encoded(l, pc) = UType(RegAt(l, 1), ImmAt(l, 2, pc), OpLui)
         /\ m = "auipc" => Encoded(l, pc) = UType(RegAt(l, 1), ImmAt(l, 2, pc), OpAuipc)
<1> DEFINE nop == Bits(19)
           mv == IType(RegAt(l, 1), RegAt(l, 2), {}, {}, OpImm)
           li == IType(RegAt(l, 1), {}, ImmAt(l, 2, pc), {}, OpImm)
           j == JType({}, ImmAt(l, 1, pc), OpJal)
           jr == IType({}, RegAt(l, 1), {}, {}, OpJalr)
           ret == IType({}, Unsigned(1), {}, {}, OpJalr)
           not == IType(RegAt(l, 1), RegAt(l, 2), Bits(-1), Unsigned(4), OpImm)
           neg == RType(RegAt(l, 1), {}, RegAt(l, 2), {}, Unsigned(32), OpReg)
           reg == RType(RegAt(l, 1), RegAt(l, 2), RegAt(l, 3),
                        Unsigned(RegRows[m][1]), Unsigned(RegRows[m][2]), OpReg)
           srai == IType(RegAt(l, 1), RegAt(l, 2), ImmAt(l, 3, pc) \cup {10}, Unsigned(5), OpImm)
           imm == IType(RegAt(l, 1), RegAt(l, 2), ImmAt(l, 3, pc), Unsigned(ImmRows[m]), OpImm)
           load == IType(RegAt(l, 1), BaseAt(l), OffAt(l), Unsigned(LoadRows[m]), OpLoad)
           store == SType(BaseAt(l), RegAt(l, 1), OffAt(l), Unsigned(StoreRows[m]), OpStore)
           branch == BType(RegAt(l, 1), RegAt(l, 2), ImmAt(l, 3, pc),
                           Unsigned(BranchRows[m]), OpBranch)
           jal == JType(RegAt(l, 1), ImmAt(l, 2, pc), OpJal)
           jalr == IType(RegAt(l, 1), RegAt(l, 2), ImmAt(l, 3, pc), {}, OpJalr)
           lui == UType(RegAt(l, 1), ImmAt(l, 2, pc), OpLui)
           auipc == UType(RegAt(l, 1), ImmAt(l, 2, pc), OpAuipc)
<1>1. Encoded(l, pc) = CASE m = "nop" -> nop
                         [] m = "mv"  -> mv
                         [] m = "li"  -> li
                         [] m = "j"   -> j
                         [] m = "jr"  -> jr
                         [] m = "ret" -> ret
                         [] m = "not" -> not
                         [] m = "neg" -> neg
                         [] m \in DOMAIN RegRows -> reg
                         [] m = "srai" -> srai
                         [] m \in DOMAIN ImmRows \ {"srai"} -> imm
                         [] m \in DOMAIN LoadRows -> load
                         [] m \in DOMAIN StoreRows -> store
                         [] m \in DOMAIN BranchRows -> branch
                         [] m = "jal"   -> jal
                         [] m = "jalr"  -> jalr
                         [] m = "lui"   -> lui
                         [] m = "auipc" -> auipc
  BY DEF Encoded, RegAt, ImmAt, BaseAt, OffAt, OpLoad, OpStore, OpBranch, OpJal, OpJalr,
         OpLui, OpAuipc
<1> HIDE DEF nop, mv, li, j, jr, ret, not, neg, reg, srai, imm, load, store, branch, jal,
             jalr, lui, auipc
<1>2. "srai" \in DOMAIN ImmRows
  BY DEF ImmRows
<1>3. m \in Simple =>
        /\ m = "nop" => Encoded(l, pc) = nop
        /\ m = "mv" => Encoded(l, pc) = mv
        /\ m = "li" => Encoded(l, pc) = li
        /\ m = "j" => Encoded(l, pc) = j
        /\ m = "jr" => Encoded(l, pc) = jr
        /\ m = "ret" => Encoded(l, pc) = ret
        /\ m = "not" => Encoded(l, pc) = not
        /\ m = "neg" => Encoded(l, pc) = neg
        /\ m = "jal" => Encoded(l, pc) = jal
        /\ m = "jalr" => Encoded(l, pc) = jalr
        /\ m = "lui" => Encoded(l, pc) = lui
        /\ m = "auipc" => Encoded(l, pc) = auipc
  BY <1>1, <1>2, MnemonicKinds, SMTT(60) DEF Simple
<1>4. /\ m \in DOMAIN RegRows => Encoded(l, pc) = reg
      /\ m = "srai" => Encoded(l, pc) = srai
      /\ m \in DOMAIN ImmRows \ {"srai"} => Encoded(l, pc) = imm
  BY <1>1, <1>2, MnemonicKinds, SMTT(60) DEF Simple
<1>5. /\ m \in DOMAIN LoadRows => Encoded(l, pc) = load
      /\ m \in DOMAIN StoreRows => Encoded(l, pc) = store
      /\ m \in DOMAIN BranchRows => Encoded(l, pc) = branch
  BY <1>1, <1>2, MnemonicKinds, SMTT(60) DEF Simple
<1>6. m \in {"nop", "mv", "li", "j", "jr", "ret", "not", "neg", "jal", "jalr", "lui", "auipc"}
        => m \in Simple
  BY DEF Simple
<1>7. QED
  BY <1>3, <1>4, <1>5, <1>6 DEF nop, mv, li, j, jr, ret, not, neg, reg, srai, imm, load, store,
                                branch, jal, jalr, lui, auipc

SaidAt(l, i, pc) == Said(Op(l, i), pc)

\* The instruction each mnemonic asks for.
LEMMA AskedByMnemonic ==
  ASSUME NEW l, NEW pc, NEW m, m = l.mnemonic
  PROVE  /\ m = "nop" => Asked(l, pc) = WithImm("Addi", 0, 0, 0)
         /\ m = "mv" => Asked(l, pc) = WithImm("Addi", SaidAt(l, 1, pc), SaidAt(l, 2, pc), 0)
         /\ m = "li" => Asked(l, pc) = WithImm("Addi", SaidAt(l, 1, pc), 0, SaidAt(l, 2, pc))
         /\ m = "j" => Asked(l, pc) = NoSource("Jal", 0, SaidAt(l, 1, pc))
         /\ m = "jr" => Asked(l, pc) = WithImm("Jalr", 0, SaidAt(l, 1, pc), 0)
         /\ m = "ret" => Asked(l, pc) = WithImm("Jalr", 0, 1, 0)
         /\ m = "not" => Asked(l, pc) = WithImm("Xori", SaidAt(l, 1, pc), SaidAt(l, 2, pc), -1)
         /\ m = "neg" => Asked(l, pc) = WithRegs("Sub", SaidAt(l, 1, pc), 0, SaidAt(l, 2, pc))
         /\ m \in DOMAIN RegRows =>
              Asked(l, pc) = WithRegs(OpNamed[m], SaidAt(l, 1, pc), SaidAt(l, 2, pc),
                                      SaidAt(l, 3, pc))
         /\ m \in DOMAIN ImmRows \cup {"jalr"} =>
              Asked(l, pc) = WithImm(OpNamed[m], SaidAt(l, 1, pc), SaidAt(l, 2, pc),
                                     SaidAt(l, 3, pc))
         /\ m \in DOMAIN LoadRows =>
              Asked(l, pc) = WithImm(OpNamed[m], SaidAt(l, 1, pc), Said(Op(l, 2).base, pc),
                                     SaidOffset(Op(l, 2)))
         /\ m \in DOMAIN StoreRows =>
              Asked(l, pc) = NoTarget(OpNamed[m], Said(Op(l, 2).base, pc), SaidAt(l, 1, pc),
                                      SaidOffset(Op(l, 2)))
         /\ m \in DOMAIN BranchRows =>
              Asked(l, pc) = NoTarget(OpNamed[m], SaidAt(l, 1, pc), SaidAt(l, 2, pc),
                                      SaidAt(l, 3, pc))
         /\ m \in {"jal", "lui", "auipc"} =>
              Asked(l, pc) = NoSource(OpNamed[m], SaidAt(l, 1, pc), SaidAt(l, 2, pc))
<1> DEFINE nop == WithImm("Addi", 0, 0, 0)
           mv == WithImm("Addi", SaidAt(l, 1, pc), SaidAt(l, 2, pc), 0)
           li == WithImm("Addi", SaidAt(l, 1, pc), 0, SaidAt(l, 2, pc))
           j == NoSource("Jal", 0, SaidAt(l, 1, pc))
           jr == WithImm("Jalr", 0, SaidAt(l, 1, pc), 0)
           ret == WithImm("Jalr", 0, 1, 0)
           not == WithImm("Xori", SaidAt(l, 1, pc), SaidAt(l, 2, pc), -1)
           neg == WithRegs("Sub", SaidAt(l, 1, pc), 0, SaidAt(l, 2, pc))
           reg == WithRegs(OpNamed[m], SaidAt(l, 1, pc), SaidAt(l, 2, pc), SaidAt(l, 3, pc))
           imm == WithImm(OpNamed[m], SaidAt(l, 1, pc), SaidAt(l, 2, pc), SaidAt(l, 3, pc))
           load == WithImm(OpNamed[m], SaidAt(l, 1, pc), Said(Op(l, 2).base, pc),
                           SaidOffset(Op(l, 2)))
           store == NoTarget(OpNamed[m], Said(Op(l, 2).base, pc), SaidAt(l, 1, pc),
                             SaidOffset(Op(l, 2)))
           branch == NoTarget(OpNamed[m], SaidAt(l, 1, pc), SaidAt(l, 2, pc), SaidAt(l, 3, pc))
           long == NoSource(OpNamed[m], SaidAt(l, 1, pc), SaidAt(l, 2, pc))
<1>0. store = [op |-> OpNamed[m], rs2 |-> SaidAt(l, 1, pc), rs1 |-> Said(Op(l, 2).base, pc),
               imm |-> SaidOffset(Op(l, 2))]
  BY DEF NoTarget
<1>1. Asked(l, pc) =
        CASE m = "nop" -> nop
          [] m = "mv"  -> mv
          [] m = "li"  -> li
          [] m = "j"   -> j
          [] m = "jr"  -> jr
          [] m = "ret" -> ret
          [] m = "not" -> not
          [] m = "neg" -> neg
          [] m \in DOMAIN RegRows -> reg
          [] m \in DOMAIN ImmRows \cup {"jalr"} -> imm
          [] m \in DOMAIN LoadRows -> load
          [] m \in DOMAIN StoreRows ->
               [op |-> OpNamed[m], rs2 |-> SaidAt(l, 1, pc), rs1 |-> Said(Op(l, 2).base, pc),
                imm |-> SaidOffset(Op(l, 2))]
          [] m \in DOMAIN BranchRows -> branch
          [] m \in {"jal", "lui", "auipc"} -> long
  BY Zenon DEF Asked, SaidAt, WithImm, WithRegs, NoTarget, NoSource
<1> HIDE DEF nop, mv, li, j, jr, ret, not, neg, reg, imm, load, store, branch, long
<1>2. m \in Simple =>
        /\ m = "nop" => Asked(l, pc) = nop
        /\ m = "mv" => Asked(l, pc) = mv
        /\ m = "li" => Asked(l, pc) = li
        /\ m = "j" => Asked(l, pc) = j
        /\ m = "jr" => Asked(l, pc) = jr
        /\ m = "ret" => Asked(l, pc) = ret
        /\ m = "not" => Asked(l, pc) = not
        /\ m = "neg" => Asked(l, pc) = neg
        /\ m = "jalr" => Asked(l, pc) = imm
        /\ m \in {"jal", "lui", "auipc"} => Asked(l, pc) = long
  BY <1>0, <1>1, MnemonicKinds, SMTT(60) DEF Simple
<1>3. /\ m \in DOMAIN RegRows => Asked(l, pc) = reg
      /\ m \in DOMAIN ImmRows => Asked(l, pc) = imm
  BY <1>0, <1>1, MnemonicKinds, SMTT(60) DEF Simple
<1>4. /\ m \in DOMAIN LoadRows => Asked(l, pc) = load
      /\ m \in DOMAIN StoreRows => Asked(l, pc) = store
      /\ m \in DOMAIN BranchRows => Asked(l, pc) = branch
  BY <1>0, <1>1, MnemonicKinds, SMTT(60) DEF Simple
<1>5. m \in {"nop", "mv", "li", "j", "jr", "ret", "not", "neg", "jal", "jalr", "lui", "auipc"}
        => m \in Simple
  BY DEF Simple
<1>6. QED
  BY <1>2, <1>3, <1>4, <1>5 DEF nop, mv, li, j, jr, ret, not, neg, reg, imm, load, store,
                                branch, long

\* A hexadecimal offset says nothing but 0.
OffsetHeard(l) == Parser(l.mnemonic) = {"reg_mem"} /\ Op(l, 2).off.kind = "hex"
                    => Op(l, 2).off.n = 0

\* What fitting comes to for each kind of instruction.
LEMMA FitsByFields ==
  ASSUME NEW l, NEW op, NEW x, NEW y, NEW z
  PROVE  /\ Fits(l, WithRegs(op, x, y, z)) <=> x < 32 /\ y < 32 /\ z < 32 /\ OffsetHeard(l)
         /\ Fits(l, WithImm(op, x, y, z)) <=>
              x < 32 /\ y < 32 /\ Reaches(op, FormatNamed(op), z) /\ OffsetHeard(l)
         /\ Fits(l, NoTarget(op, x, y, z)) <=>
              x < 32 /\ y < 32 /\ Reaches(op, FormatNamed(op), z) /\ OffsetHeard(l)
         /\ Fits(l, NoSource(op, x, z)) <=>
              x < 32 /\ Reaches(op, FormatNamed(op), z) /\ OffsetHeard(l)
<1>1. /\ DOMAIN WithRegs(op, x, y, z) = {"op", "rd", "rs1", "rs2"}
      /\ DOMAIN WithImm(op, x, y, z) = {"op", "rd", "rs1", "imm"}
      /\ DOMAIN NoTarget(op, x, y, z) = {"op", "rs1", "rs2", "imm"}
      /\ DOMAIN NoSource(op, x, z) = {"op", "rd", "imm"}
  BY DEF WithRegs, WithImm, NoTarget, NoSource
<1>2. Fits(l, WithRegs(op, x, y, z)) <=> x < 32 /\ y < 32 /\ z < 32 /\ OffsetHeard(l)
  BY <1>1 DEF Fits, WithRegs, OffsetHeard
<1>3. Fits(l, WithImm(op, x, y, z)) <=>
        x < 32 /\ y < 32 /\ Reaches(op, FormatNamed(op), z) /\ OffsetHeard(l)
  BY <1>1 DEF Fits, WithImm, OffsetHeard
<1>4. Fits(l, NoTarget(op, x, y, z)) <=>
        x < 32 /\ y < 32 /\ Reaches(op, FormatNamed(op), z) /\ OffsetHeard(l)
  BY <1>1 DEF Fits, NoTarget, OffsetHeard
<1>5. Fits(l, NoSource(op, x, z)) <=>
        x < 32 /\ Reaches(op, FormatNamed(op), z) /\ OffsetHeard(l)
  BY <1>1 DEF Fits, NoSource, OffsetHeard
<1>6. QED BY <1>2, <1>3, <1>4, <1>5

\* What an immediate has to be, by its format.
LEMMA ReachesByFormat ==
  ASSUME NEW op, NEW n
  PROVE  /\ IsShift(op) => (Reaches(op, FormatNamed(op), n) <=> Between(0, n, 31))
         /\ ~IsShift(op) =>
              /\ FormatNamed(op) = "I" =>
                   (Reaches(op, FormatNamed(op), n) <=> Between(-2048, n, 2047))
              /\ FormatNamed(op) = "S" =>
                   (Reaches(op, FormatNamed(op), n) <=> Between(0, n, 4095))
              /\ FormatNamed(op) = "B" =>
                   (Reaches(op, FormatNamed(op), n) <=> Between(-4096, n, 4094) /\ n % 2 = 0)
              /\ FormatNamed(op) = "J" =>
                   (Reaches(op, FormatNamed(op), n)
                      <=> Between(-1048576, n, 1048574) /\ n % 2 = 0)
              /\ FormatNamed(op) = "U" => (Reaches(op, FormatNamed(op), n) <=> n % 4096 = 0)
<1> DEFINE shift == Between(0, n, 31)
           i == Between(-2048, n, 2047)
           s == Between(0, n, 4095)
           b == Between(-4096, n, 4094) /\ n % 2 = 0
           j == Between(-1048576, n, 1048574) /\ n % 2 = 0
           u == n % 4096 = 0
           f == FormatNamed(op)
<1>1. Reaches(op, f, n) = CASE IsShift(op)               -> shift
                            [] f = "I" /\ ~IsShift(op) -> i
                            [] f = "S"                   -> s
                            [] f = "B"                   -> b
                            [] f = "J"                   -> j
                            [] f = "U"                   -> u
  BY DEF Reaches
<1>2. IsShift(op) => f = "I"
  BY DEF IsShift, FormatNamed
<1> HIDE DEF shift, i, s, b, j, u, f
<1>3. /\ IsShift(op) => (Reaches(op, f, n) <=> shift)
      /\ ~IsShift(op) =>
           /\ f = "I" => (Reaches(op, f, n) <=> i)
           /\ f = "S" => (Reaches(op, f, n) <=> s)
           /\ f = "B" => (Reaches(op, f, n) <=> b)
           /\ f = "J" => (Reaches(op, f, n) <=> j)
           /\ f = "U" => (Reaches(op, f, n) <=> u)
  BY <1>1, <1>2
<1>4. QED BY <1>3 DEF shift, i, s, b, j, u, f

-----------------------------------------------------------------------------
(* A line fits if and only if its word is taken for what it asks for. *)

\* Of the fields a line puts into its word, the ones that fit come back, and no others.
LEMMA RegLine ==
  ASSUME NEW l, Parser(l.mnemonic) # {"reg_mem"},
         NEW x \in 0 .. 255, NEW y \in 0 .. 255, NEW z \in 0 .. 255, NEW row \in RegOps,
         FormatNamed(row[3]) = "R", NEW w,
         w = RType(Unsigned(x), Unsigned(y), Unsigned(z), Unsigned(row[1]), Unsigned(row[2]),
                   OpReg)
  PROVE  Fits(l, WithRegs(row[3], x, y, z)) <=> Gets(w, WithRegs(row[3], x, y, z))
<1>1. Gets(w, WithRegs(row[3], x, y, z)) <=> x < 32 /\ y < 32 /\ z < 32
  BY RegWord
<1>2. OffsetHeard(l)
  BY DEF OffsetHeard
<1>3. QED BY <1>1, <1>2, FitsByFields

LEMMA ImmLine ==
  ASSUME NEW l, Parser(l.mnemonic) # {"reg_mem"},
         NEW x \in 0 .. 255, NEW y \in 0 .. 255, NEW n \in Int32,
         NEW opcode \in SevenBits, NEW f \in 0 .. 7, NEW op,
         Selects(opcode, Unsigned(f), op, "I"), FormatNamed(op) = "I", ~IsShift(op), NEW w,
         w = IType(Unsigned(x), Unsigned(y), Bits(n), Unsigned(f), opcode)
  PROVE  Fits(l, WithImm(op, x, y, n)) <=> Gets(w, WithImm(op, x, y, n))
<1>1. Bits(n) \in Word32 /\ Unsigned(f) \in Funct3Field
  BY NumbersTyped, FieldValues
<1>2. Gets(w, WithImm(op, x, y, n)) <=> x < 32 /\ y < 32 /\ Extended(Bits(n), 11) = Bits(n)
  BY <1>1, ImmWord
<1>3. Reaches(op, FormatNamed(op), n) <=> Extended(Bits(n), 11) = Bits(n)
  BY ImmediateKept, ReachesByFormat
<1>4. OffsetHeard(l)
  BY DEF OffsetHeard
<1>5. QED BY <1>2, <1>3, <1>4, FitsByFields

LEMMA ShiftLine ==
  ASSUME NEW l, Parser(l.mnemonic) # {"reg_mem"},
         NEW x \in 0 .. 255, NEW y \in 0 .. 255, NEW n \in Int32,
         NEW op \in {"Slli", "Srli", "Srai"}, NEW f, f = (IF op = "Slli" THEN 1 ELSE 5),
         NEW imm, imm = (IF op = "Srai" THEN Bits(n) \cup {10} ELSE Bits(n))
  PROVE  Fits(l, WithImm(op, x, y, n))
           <=> Gets(IType(Unsigned(x), Unsigned(y), imm, Unsigned(f), OpImm),
                    WithImm(op, x, y, n))
<1> PICK w : w = IType(Unsigned(x), Unsigned(y), imm, Unsigned(f), OpImm)
  OBVIOUS
<1>1. Gets(w, WithImm(op, x, y, n)) <=> x < 32 /\ y < 32 /\ Between(0, n, 31)
  BY ShiftWord
<1>2. IsShift(op)
  BY DEF IsShift
<1>3. Reaches(op, FormatNamed(op), n) <=> Between(0, n, 31)
  BY <1>2, ReachesByFormat
<1>4. OffsetHeard(l)
  BY DEF OffsetHeard
<1>5. QED BY <1>1, <1>3, <1>4, FitsByFields

\* Of a load or store the word has k, its offset as parsed: n, or 0 for any hexadecimal.
LEMMA OffsetHeardOrLost ==
  ASSUME NEW l, Parser(l.mnemonic) = {"reg_mem"}, NEW t, t = Op(l, 2), OperandText(t), MemText(t),
         NEW n, n = SaidOffset(t), NEW k, k = OffsetOf(t)
  PROVE  n \in Int32 /\ k \in Int32 /\ (OffsetHeard(l) <=> k = n)
<1>1. /\ n \in Int32 /\ k \in Int32
      /\ t.off.kind # "hex" => k = n
      /\ t.off.kind = "hex" => k = 0 /\ n = t.off.n
  BY MemOperand
<1>2. QED BY <1>1 DEF OffsetHeard

\* The I-type word of a load.
LEMMA LoadWord ==
  ASSUME NEW x \in 0 .. 255, NEW y \in 0 .. 255, NEW imm \in Word32, NEW n,
         NEW row \in LoadOps, FormatNamed(row[2]) = "I", ~IsShift(row[2])
  PROVE  Gets(IType(Unsigned(x), Unsigned(y), imm, Unsigned(row[1]), OpLoad),
              WithImm(row[2], x, y, n))
           <=> x < 32 /\ y < 32 /\ Extended(imm, 11) = Bits(n)
<1>1. Unsigned(row[1]) \in Funct3Field
  <2>1. row[1] \in 0 .. 7
    BY DEF LoadOps
  <2>2. QED BY <2>1, FieldValues
<1>2. OpLoad \in SevenBits
  BY OpcodesDiffer
<1>3. Selects(OpLoad, Unsigned(row[1]), row[2], "I")
  BY RowsSelect
<1>4. ASSUME NEW f \in Funct3Field, NEW op, Selects(OpLoad, f, op, "I"),
             FormatNamed(op) = "I", ~IsShift(op)
      PROVE  Gets(IType(Unsigned(x), Unsigned(y), imm, f, OpLoad), WithImm(op, x, y, n))
               <=> x < 32 /\ y < 32 /\ Extended(imm, 11) = Bits(n)
  BY <1>2, <1>4, ImmWord
<1>5. QED BY <1>1, <1>3, <1>4

LEMMA LoadLine ==
  ASSUME NEW l, Parser(l.mnemonic) = {"reg_mem"}, NEW t, t = Op(l, 2), OperandText(t), MemText(t),
         NEW x \in 0 .. 255, NEW y \in 0 .. 255, NEW row \in LoadOps,
         FormatNamed(row[2]) = "I", ~IsShift(row[2])
  PROVE  Fits(l, WithImm(row[2], x, y, SaidOffset(t)))
           <=> Gets(IType(Unsigned(x), Unsigned(y), Bits(OffsetOf(t)), Unsigned(row[1]), OpLoad),
                    WithImm(row[2], x, y, SaidOffset(t)))
<1> PICK n, k : n = SaidOffset(t) /\ k = OffsetOf(t)
  OBVIOUS
<1> PICK w : w = IType(Unsigned(x), Unsigned(y), Bits(OffsetOf(t)), Unsigned(row[1]), OpLoad)
  OBVIOUS
<1> DEFINE op == row[2]
<1>1. n \in Int32 /\ k \in Int32 /\ (OffsetHeard(l) <=> k = n)
  BY OffsetHeardOrLost
<1>2. Bits(k) \in Word32
  BY NumbersTyped
<1>3. Gets(w, WithImm(op, x, y, n)) <=> x < 32 /\ y < 32 /\ Extended(Bits(k), 11) = Bits(n)
  BY <1>2, LoadWord
<1>4. Reaches(op, FormatNamed(op), n) <=> Extended(Bits(n), 11) = Bits(n)
  BY <1>1, ImmediateKept, ReachesByFormat
<1>5. CASE k = n
  BY <1>1, <1>3, <1>4, <1>5, FitsByFields
<1>6. CASE k # n
  <2>1. k = 0
    BY <1>6, MemOperand
  <2>2. Extended(Bits(0), 11) = Bits(0)
    BY SmallNumbers DEF Extended
  <2>3. Bits(0) # Bits(n)
    BY <1>1, <1>6, <2>1, BitsInjective
  <2>4. ~Gets(w, WithImm(op, x, y, n))
    BY <1>3, <2>1, <2>2, <2>3
  <2>5. QED BY <1>1, <1>6, <2>4, FitsByFields
<1>7. QED BY <1>5, <1>6

LEMMA StoreLine ==
  ASSUME NEW l, Parser(l.mnemonic) = {"reg_mem"}, NEW t, t = Op(l, 2), OperandText(t), MemText(t),
         NEW x \in 0 .. 255, NEW y \in 0 .. 255, NEW row \in StoreOps,
         FormatNamed(row[2]) = "S", ~IsShift(row[2])
  PROVE  Fits(l, NoTarget(row[2], x, y, SaidOffset(t)))
           <=> Gets(SType(Unsigned(x), Unsigned(y), Bits(OffsetOf(t)), Unsigned(row[1]), OpStore),
                    NoTarget(row[2], x, y, SaidOffset(t)))
<1> PICK n, k : n = SaidOffset(t) /\ k = OffsetOf(t)
  OBVIOUS
<1> PICK w : w = SType(Unsigned(x), Unsigned(y), Bits(OffsetOf(t)), Unsigned(row[1]), OpStore)
  OBVIOUS
<1> DEFINE op == row[2]
<1>1. n \in Int32 /\ k \in Int32 /\ (OffsetHeard(l) <=> k = n)
  BY OffsetHeardOrLost
<1>2. Bits(k) \in Word32
  BY NumbersTyped
<1>3. Gets(w, NoTarget(op, x, y, n)) <=> x < 32 /\ y < 32 /\ Low(Bits(k), 12) = Bits(n)
  BY <1>2, StoreWord
<1>4. Reaches(op, FormatNamed(op), n) <=> Low(Bits(n), 12) = Bits(n)
  BY <1>1, ImmediateKept, ReachesByFormat
<1>5. CASE k = n
  BY <1>1, <1>3, <1>4, <1>5, FitsByFields
<1>6. CASE k # n
  <2>1. k = 0
    BY <1>6, MemOperand
  <2>2. Low(Bits(0), 12) = Bits(0)
    BY SmallNumbers DEF Low
  <2>3. Bits(0) # Bits(n)
    BY <1>1, <1>6, <2>1, BitsInjective
  <2>4. ~Gets(w, NoTarget(op, x, y, n))
    BY <1>3, <2>1, <2>2, <2>3
  <2>5. QED BY <1>1, <1>6, <2>4, FitsByFields
<1>7. QED BY <1>5, <1>6

LEMMA BranchLine ==
  ASSUME NEW l, Parser(l.mnemonic) # {"reg_mem"},
         NEW x \in 0 .. 255, NEW y \in 0 .. 255, NEW n \in Int32, NEW row \in BranchOps,
         FormatNamed(row[2]) = "B", ~IsShift(row[2]), NEW w,
         w = BType(Unsigned(x), Unsigned(y), Bits(n), Unsigned(row[1]), OpBranch)
  PROVE  Fits(l, NoTarget(row[2], x, y, n)) <=> Gets(w, NoTarget(row[2], x, y, n))
<1> DEFINE op == row[2]
<1>1. Bits(n) \in Word32
  BY NumbersTyped
<1>2. Gets(w, NoTarget(op, x, y, n))
        <=> x < 32 /\ y < 32 /\ Extended(Bits(n), 12) \ {0} = Bits(n)
  BY <1>1, BranchWord
<1>3. Reaches(op, FormatNamed(op), n) <=> Between(-4096, n, 4094) /\ n % 2 = 0
  BY ReachesByFormat
<1>4. Between(-4096, n, 4094) /\ n % 2 = 0 <=> Extended(Bits(n), 12) \ {0} = Bits(n)
  BY ImmediateKept
<1>5. OffsetHeard(l)
  BY DEF OffsetHeard
<1>6. QED BY <1>2, <1>3, <1>4, <1>5, FitsByFields

LEMMA JumpLine ==
  ASSUME NEW l, Parser(l.mnemonic) # {"reg_mem"},
         NEW x \in 0 .. 255, NEW n \in Int32, NEW w, w = JType(Unsigned(x), Bits(n), OpJal)
  PROVE  Fits(l, NoSource("Jal", x, n)) <=> Gets(w, NoSource("Jal", x, n))
<1>1. Bits(n) \in Word32
  BY NumbersTyped
<1>2. Gets(w, NoSource("Jal", x, n)) <=> x < 32 /\ Extended(Bits(n), 20) \ {0} = Bits(n)
  BY <1>1, JumpWord
<1>3. Reaches("Jal", FormatNamed("Jal"), n) <=> Between(-1048576, n, 1048574) /\ n % 2 = 0
  <2>1. FormatNamed("Jal") = "J" /\ ~IsShift("Jal")
    BY DEF FormatNamed, IsShift
  <2>2. QED BY <2>1, ReachesByFormat
<1>4. Between(-1048576, n, 1048574) /\ n % 2 = 0 <=> Extended(Bits(n), 20) \ {0} = Bits(n)
  BY ImmediateKept
<1>5. OffsetHeard(l)
  BY DEF OffsetHeard
<1>6. QED BY <1>2, <1>3, <1>4, <1>5, FitsByFields

LEMMA UpperLine ==
  ASSUME NEW l, Parser(l.mnemonic) # {"reg_mem"},
         NEW x \in 0 .. 255, NEW n \in Int32, NEW opcode \in SevenBits, NEW op,
         \A f : Selects(opcode, f, op, "U"), FormatNamed(op) = "U", ~IsShift(op), NEW w,
         w = UType(Unsigned(x), Bits(n), opcode)
  PROVE  Fits(l, NoSource(op, x, n)) <=> Gets(w, NoSource(op, x, n))
<1>1. Bits(n) \in Word32
  BY NumbersTyped
<1>2. Gets(w, NoSource(op, x, n)) <=> x < 32 /\ Bits(n) \cap 12 .. 31 = Bits(n)
  BY <1>1, UpperWord
<1>3. Reaches(op, FormatNamed(op), n) <=> n % 4096 = 0
  BY ReachesByFormat
<1>4. n % 4096 = 0 <=> Bits(n) \cap 12 .. 31 = Bits(n)
  BY ImmediateKept
<1>5. OffsetHeard(l)
  BY DEF OffsetHeard
<1>6. Fits(l, NoSource(op, x, n)) <=> x < 32 /\ n % 4096 = 0
  BY <1>3, <1>5, FitsByFields
<1>7. QED BY <1>2, <1>4, <1>6

\* The numbers of registers and of functs.
Byte  == 0 .. 255
Funct == 0 .. 7

\* An operand that is a register, and one that is a number, come to what they say.
Register(l, i, pc) == /\ SaidAt(l, i, pc) \in Byte
                      /\ RegAt(l, i) = Unsigned(SaidAt(l, i, pc))
Number(l, i, pc)   == /\ SaidAt(l, i, pc) \in Int32
                      /\ ImmAt(l, i, pc) = Bits(SaidAt(l, i, pc))

\* The operands of a well-formed line are what its parser expects.
LEMMA LineOperands ==
  ASSUME source \in Sources, LabelsRight, NEW pc \in 0 .. 4 * Len(source),
         NEW l, LineTyped(l), WellFormed(l), NEW by, by = Parser(l.mnemonic)
  PROVE  /\ by = {"reg"} => Register(l, 1, pc)
         /\ by = {"resolve"} => Number(l, 1, pc)
         /\ by = {"reg2"} => Register(l, 1, pc) /\ Register(l, 2, pc)
         /\ by = {"reg3"} => Register(l, 1, pc) /\ Register(l, 2, pc) /\ Register(l, 3, pc)
         /\ by = {"reg_imm"} => Register(l, 1, pc) /\ Number(l, 2, pc)
         /\ by \in {{"reg_reg_imm"}, {"reg_reg_label"}} =>
              Register(l, 1, pc) /\ Register(l, 2, pc) /\ Number(l, 3, pc)
         /\ by = {"reg_mem"} =>
              Register(l, 1, pc) /\ OperandText(Op(l, 2)) /\ MemText(Op(l, 2))
<1>1. \A i : OperandText(Op(l, i))
  <2>1. OperandText(Empty)
    BY DEF OperandText, PlainText, Empty
  <2>2. QED BY <2>1 DEF Op, LineTyped
<1>2. \A i : RegText(Op(l, i)) => Register(l, i, pc)
  <2>1. SUFFICES ASSUME NEW i, RegText(Op(l, i)) PROVE Register(l, i, pc)
    OBVIOUS
  <2>2. /\ Op(l, i).n \in 0 .. 255 /\ The(RegOf(Op(l, i))) = Op(l, i).n
        /\ Said(Op(l, i), pc) = Op(l, i).n
    BY <1>1, <2>1, RegOperand
  <2>3. QED BY <2>2 DEF Register, SaidAt, RegAt, Byte
<1>3. \A i : ImmText(Op(l, i)) => Number(l, i, pc)
  <2>1. SUFFICES ASSUME NEW i, ImmText(Op(l, i)) PROVE Number(l, i, pc)
    OBVIOUS
  <2>2. /\ The(Resolved(Op(l, i), pc)) = Said(Op(l, i), pc) /\ Said(Op(l, i), pc) \in Int32
    BY <1>1, <2>1, ImmOperand
  <2>3. QED BY <2>2 DEF Number, SaidAt, ImmAt
<1>4. /\ Len(l.ops) >= 1 => Op(l, 1) = l.ops[1]
      /\ Len(l.ops) >= 2 => Op(l, 2) = l.ops[2]
      /\ Len(l.ops) >= 3 => Op(l, 3) = l.ops[3]
  BY OperandsThere DEF LineTyped
<1>5. Len(l.ops) \in Nat
  BY OperandsThere DEF LineTyped
<1>6. by = {"reg"} => Register(l, 1, pc)
  BY <1>2, <1>4, WellFormedByParser
<1>7. by = {"resolve"} => Number(l, 1, pc)
  BY <1>3, <1>4, WellFormedByParser
<1>8. by = {"reg2"} => Register(l, 1, pc) /\ Register(l, 2, pc)
  <2>1. by = {"reg2"} => Len(l.ops) >= 2 /\ RegText(l.ops[1]) /\ RegText(l.ops[2])
    BY WellFormedByParser
  <2>2. QED BY <1>2, <1>4, <1>5, <2>1
<1>9. by = {"reg3"} => Register(l, 1, pc) /\ Register(l, 2, pc) /\ Register(l, 3, pc)
  <2>1. by = {"reg3"} =>
          Len(l.ops) >= 3 /\ RegText(l.ops[1]) /\ RegText(l.ops[2]) /\ RegText(l.ops[3])
    BY WellFormedByParser
  <2>2. QED BY <1>2, <1>4, <1>5, <2>1
<1>10. by = {"reg_imm"} => Register(l, 1, pc) /\ Number(l, 2, pc)
  <2>1. by = {"reg_imm"} => Len(l.ops) >= 2 /\ RegText(l.ops[1]) /\ ImmText(l.ops[2])
    BY WellFormedByParser
  <2>2. QED BY <1>2, <1>3, <1>4, <1>5, <2>1
<1>11. by \in {{"reg_reg_imm"}, {"reg_reg_label"}} =>
         Register(l, 1, pc) /\ Register(l, 2, pc) /\ Number(l, 3, pc)
  <2>1. by \in {{"reg_reg_imm"}, {"reg_reg_label"}} =>
          Len(l.ops) >= 3 /\ RegText(l.ops[1]) /\ RegText(l.ops[2]) /\ ImmText(l.ops[3])
    BY WellFormedByParser
  <2>2. QED BY <1>2, <1>3, <1>4, <1>5, <2>1
<1>12. by = {"reg_mem"} => Register(l, 1, pc) /\ OperandText(Op(l, 2)) /\ MemText(Op(l, 2))
  <2>1. by = {"reg_mem"} => Len(l.ops) >= 2 /\ RegText(l.ops[1]) /\ MemText(l.ops[2])
    BY WellFormedByParser
  <2>2. QED BY <1>1, <1>2, <1>4, <1>5, <2>1
<1>13. QED BY <1>6, <1>7, <1>8, <1>9, <1>10, <1>11, <1>12

\* The functs and opcodes of the pseudo-instructions and of jalr.
LEMMA PlainSelects ==
  /\ Selects(OpImm, Unsigned(0), "Addi", "I") /\ FormatNamed("Addi") = "I" /\ ~IsShift("Addi")
  /\ Selects(OpImm, Unsigned(4), "Xori", "I") /\ FormatNamed("Xori") = "I" /\ ~IsShift("Xori")
  /\ Selects(OpJalr, Unsigned(0), "Jalr", "I") /\ FormatNamed("Jalr") = "I" /\ ~IsShift("Jalr")
  /\ \A f : Selects(OpLui, f, "Lui", "U")
  /\ FormatNamed("Lui") = "U" /\ ~IsShift("Lui")
  /\ \A f : Selects(OpAuipc, f, "Auipc", "U")
  /\ FormatNamed("Auipc") = "U" /\ ~IsShift("Auipc")
  /\ {OpImm, OpJalr, OpLui, OpAuipc} \subseteq SevenBits
<1>1. <<0, "Addi">> \in ImmOps /\ <<4, "Xori">> \in ImmOps
  BY DEF ImmOps
<1>2. Selects(OpImm, Unsigned(0), "Addi", "I") /\ Selects(OpImm, Unsigned(4), "Xori", "I")
  BY <1>1, RowsSelect
<1>3. /\ Selects(OpJalr, Unsigned(0), "Jalr", "I") /\ \A f : Selects(OpLui, f, "Lui", "U")
      /\ \A f : Selects(OpAuipc, f, "Auipc", "U")
  BY RowsSelect
<1>4. {OpImm, OpJalr, OpLui, OpAuipc} \subseteq SevenBits
  BY OpcodesDiffer
<1>5. /\ FormatNamed("Addi") = "I" /\ FormatNamed("Xori") = "I" /\ FormatNamed("Jalr") = "I"
      /\ FormatNamed("Lui") = "U" /\ FormatNamed("Auipc") = "U"
      /\ ~IsShift("Addi") /\ ~IsShift("Xori") /\ ~IsShift("Jalr") /\ ~IsShift("Lui")
      /\ ~IsShift("Auipc")
  BY DEF FormatNamed, IsShift
<1>6. QED BY <1>2, <1>3, <1>4, <1>5

\* A line's word is taken for what the line asks for exactly if it fits.
Means(l, pc) == Fits(l, Asked(l, pc)) <=> Gets(Encoded(l, pc), Asked(l, pc))

\* The instructions with an I-type word and an immediate that is not a shift's.
LEMMA ImmMeans ==
  ASSUME NEW l, NEW pc, Parser(l.mnemonic) # {"reg_mem"},
         NEW x \in Byte, NEW y \in Byte, NEW n \in Int32,
         NEW opcode \in SevenBits, NEW f \in Funct, NEW op,
         Selects(opcode, Unsigned(f), op, "I"), FormatNamed(op) = "I", ~IsShift(op),
         Encoded(l, pc) = IType(Unsigned(x), Unsigned(y), Bits(n), Unsigned(f), opcode),
         Asked(l, pc) = WithImm(op, x, y, n)
  PROVE  Means(l, pc)
<1>1. PICK w : w = Encoded(l, pc)
  OBVIOUS
<1>2. Fits(l, WithImm(op, x, y, n)) <=> Gets(w, WithImm(op, x, y, n))
  BY <1>1, ImmLine DEF Byte, Funct
<1>3. QED BY <1>1, <1>2 DEF Means

\* The pseudo-instructions with an immediate, and jalr.
LEMMA PseudoMeans ==
  ASSUME source \in Sources, LabelsRight, NEW pc \in 0 .. 4 * Len(source),
         NEW l, LineTyped(l), WellFormed(l),
         l.mnemonic \in {"nop", "mv", "li", "jr", "ret", "not", "jalr"}
  PROVE  Means(l, pc)
<1>0. /\ 0 \in Byte /\ 1 \in Byte /\ 0 \in Funct /\ 4 \in Funct
      /\ 0 \in Int32 /\ -1 \in Int32 /\ Unsigned(0) = {} /\ Bits(0) = {}
  BY SmallNumbers DEF Byte, Funct
<1>1. CASE l.mnemonic = "nop"
  <2>1. Parser(l.mnemonic) # {"reg_mem"}
    BY <1>1, ParserByMnemonic
  <2>2. Encoded(l, pc) = IType(Unsigned(0), Unsigned(0), Bits(0), Unsigned(0), OpImm)
    BY <1>1, EncodedByMnemonic, NopWord
  <2>3. Asked(l, pc) = WithImm("Addi", 0, 0, 0)
    BY <1>1, AskedByMnemonic
  <2>4. QED BY <1>0, <2>1, <2>2, <2>3, PlainSelects, ImmMeans
<1>2. CASE l.mnemonic = "mv"
  <2>1. Parser(l.mnemonic) = {"reg2"}
    BY <1>2, ParserByMnemonic
  <2>2. Register(l, 1, pc) /\ Register(l, 2, pc)
    BY <2>1, LineOperands
  <2> PICK x, y : x = SaidAt(l, 1, pc) /\ y = SaidAt(l, 2, pc)
    OBVIOUS
  <2>3. Encoded(l, pc) = IType(Unsigned(x), Unsigned(y), Bits(0), Unsigned(0), OpImm)
    BY <1>0, <1>2, <2>2, EncodedByMnemonic DEF Register
  <2>4. Asked(l, pc) = WithImm("Addi", x, y, 0)
    BY <1>2, AskedByMnemonic
  <2>5. x \in Byte /\ y \in Byte /\ Parser(l.mnemonic) # {"reg_mem"}
    BY <2>1, <2>2 DEF Register
  <2>6. QED BY <1>0, <2>3, <2>4, <2>5, PlainSelects, ImmMeans
<1>3. CASE l.mnemonic = "li"
  <2>1. Parser(l.mnemonic) = {"reg_imm"}
    BY <1>3, ParserByMnemonic
  <2>2. Register(l, 1, pc) /\ Number(l, 2, pc)
    BY <2>1, LineOperands
  <2> PICK x, n : x = SaidAt(l, 1, pc) /\ n = SaidAt(l, 2, pc)
    OBVIOUS
  <2>3. Encoded(l, pc) = IType(Unsigned(x), Unsigned(0), Bits(n), Unsigned(0), OpImm)
    BY <1>0, <1>3, <2>2, EncodedByMnemonic DEF Register, Number
  <2>4. Asked(l, pc) = WithImm("Addi", x, 0, n)
    BY <1>3, AskedByMnemonic
  <2>5. x \in Byte /\ n \in Int32 /\ Parser(l.mnemonic) # {"reg_mem"}
    BY <2>1, <2>2 DEF Register, Number
  <2>6. QED BY <1>0, <2>3, <2>4, <2>5, PlainSelects, ImmMeans
<1>4. CASE l.mnemonic = "jr"
  <2>1. Parser(l.mnemonic) = {"reg"}
    BY <1>4, ParserByMnemonic
  <2>2. Register(l, 1, pc)
    BY <2>1, LineOperands
  <2> PICK y : y = SaidAt(l, 1, pc)
    OBVIOUS
  <2>3. Encoded(l, pc) = IType(Unsigned(0), Unsigned(y), Bits(0), Unsigned(0), OpJalr)
    BY <1>0, <1>4, <2>2, EncodedByMnemonic DEF Register
  <2>4. Asked(l, pc) = WithImm("Jalr", 0, y, 0)
    BY <1>4, AskedByMnemonic
  <2>5. y \in Byte /\ Parser(l.mnemonic) # {"reg_mem"}
    BY <2>1, <2>2 DEF Register
  <2>6. QED BY <1>0, <2>3, <2>4, <2>5, PlainSelects, ImmMeans
<1>5. CASE l.mnemonic = "ret"
  <2>1. Parser(l.mnemonic) # {"reg_mem"}
    BY <1>5, ParserByMnemonic
  <2>2. Encoded(l, pc) = IType(Unsigned(0), Unsigned(1), Bits(0), Unsigned(0), OpJalr)
    BY <1>0, <1>5, EncodedByMnemonic
  <2>3. Asked(l, pc) = WithImm("Jalr", 0, 1, 0)
    BY <1>5, AskedByMnemonic
  <2>4. QED BY <1>0, <2>1, <2>2, <2>3, PlainSelects, ImmMeans
<1>6. CASE l.mnemonic = "not"
  <2>1. Parser(l.mnemonic) = {"reg2"}
    BY <1>6, ParserByMnemonic
  <2>2. Register(l, 1, pc) /\ Register(l, 2, pc)
    BY <2>1, LineOperands
  <2> PICK x, y : x = SaidAt(l, 1, pc) /\ y = SaidAt(l, 2, pc)
    OBVIOUS
  <2>3. Encoded(l, pc) = IType(Unsigned(x), Unsigned(y), Bits(-1), Unsigned(4), OpImm)
    BY <1>6, <2>2, EncodedByMnemonic DEF Register
  <2>4. Asked(l, pc) = WithImm("Xori", x, y, -1)
    BY <1>6, AskedByMnemonic
  <2>5. x \in Byte /\ y \in Byte /\ Parser(l.mnemonic) # {"reg_mem"}
    BY <2>1, <2>2 DEF Register
  <2>6. QED BY <1>0, <2>3, <2>4, <2>5, PlainSelects, ImmMeans
<1>7. CASE l.mnemonic = "jalr"
  <2>1. Parser(l.mnemonic) = {"reg_reg_imm"}
    BY <1>7, ParserByMnemonic
  <2>2. Register(l, 1, pc) /\ Register(l, 2, pc) /\ Number(l, 3, pc)
    BY <2>1, LineOperands
  <2> PICK x, y, n : x = SaidAt(l, 1, pc) /\ y = SaidAt(l, 2, pc) /\ n = SaidAt(l, 3, pc)
    OBVIOUS
  <2>3. Encoded(l, pc) = IType(Unsigned(x), Unsigned(y), Bits(n), Unsigned(0), OpJalr)
    BY <1>0, <1>7, <2>2, EncodedByMnemonic DEF Register, Number
  <2>4. Asked(l, pc) = WithImm("Jalr", x, y, n)
    <3>1. OpNamed["jalr"] = "Jalr"
      BY DEF OpNamed
    <3>2. QED BY <1>7, <3>1, AskedByMnemonic
  <2>5. x \in Byte /\ y \in Byte /\ n \in Int32 /\ Parser(l.mnemonic) # {"reg_mem"}
    BY <2>1, <2>2 DEF Register, Number
  <2>6. /\ Selects(OpJalr, Unsigned(0), "Jalr", "I") /\ FormatNamed("Jalr") = "I"
        /\ ~IsShift("Jalr") /\ OpJalr \in SevenBits
    BY PlainSelects
  <2>7. QED BY <1>0, <2>3, <2>4, <2>5, <2>6, ImmMeans
<1>8. QED BY <1>1, <1>2, <1>3, <1>4, <1>5, <1>6, <1>7

\* The instructions with an immediate, shifts included.
LEMMA ImmRowMeans ==
  ASSUME source \in Sources, LabelsRight, NEW pc \in 0 .. 4 * Len(source),
         NEW l, LineTyped(l), WellFormed(l), l.mnemonic \in DOMAIN ImmRows
  PROVE  Means(l, pc)
<1> PICK m : m = l.mnemonic
  OBVIOUS
<1> PICK x, y, n : x = SaidAt(l, 1, pc) /\ y = SaidAt(l, 2, pc) /\ n = SaidAt(l, 3, pc)
  OBVIOUS
<1>1. Parser(m) = {"reg_reg_imm"}
  BY ParserByMnemonic
<1>2. /\ x \in Byte /\ y \in Byte /\ n \in Int32
      /\ RegAt(l, 1) = Unsigned(x) /\ RegAt(l, 2) = Unsigned(y) /\ ImmAt(l, 3, pc) = Bits(n)
  BY <1>1, LineOperands DEF Register, Number
<1>3. Asked(l, pc) = WithImm(OpNamed[m], x, y, n)
  BY AskedByMnemonic
<1>4. CASE m \in {"slli", "srli", "srai"}
  <2> PICK op, f, imm : /\ op = OpNamed[m] /\ f = (IF op = "Slli" THEN 1 ELSE 5)
                        /\ imm = (IF op = "Srai" THEN Bits(n) \cup {10} ELSE Bits(n))
    OBVIOUS
  <2>1. /\ op \in {"Slli", "Srli", "Srai"} /\ ImmRows[m] = f
        /\ m = "srai" <=> op = "Srai"
    BY <1>4 DEF OpNamed, ImmRows
  <2>2. Encoded(l, pc) = IType(Unsigned(x), Unsigned(y), imm, Unsigned(f), OpImm)
    <3>1. CASE m = "srai"
      <4>1. f = 5 /\ imm = Bits(n) \cup {10}
        BY <2>1, <3>1
      <4>2. QED BY <1>2, <3>1, <4>1, EncodedByMnemonic
    <3>2. CASE m # "srai"
      <4>1. imm = Bits(n) /\ m \in DOMAIN ImmRows \ {"srai"}
        BY <2>1, <3>2
      <4>2. QED BY <1>2, <2>1, <4>1, EncodedByMnemonic
    <3>3. QED BY <3>1, <3>2
  <2>3. Parser(l.mnemonic) # {"reg_mem"}
    BY <1>1
  <2>4. Fits(l, WithImm(op, x, y, n))
          <=> Gets(IType(Unsigned(x), Unsigned(y), imm, Unsigned(f), OpImm), WithImm(op, x, y, n))
    BY <1>2, <2>1, <2>3, ShiftLine, ZenonT(30) DEF Byte
  <2>5. QED BY <1>3, <2>2, <2>4 DEF Means
<1>5. CASE m \notin {"slli", "srli", "srai"}
  <2> PICK op, f : op = OpNamed[m] /\ f = ImmRows[m]
    OBVIOUS
  <2>1. <<f, op>> \in ImmOps /\ FormatNamed(op) = "I" /\ ~IsShift(op)
    BY <1>5, ImmMnemonics
  <2>2. Selects(OpImm, Unsigned(f), op, "I")
    BY <2>1, RowsSelect
  <2>3. f \in Funct
    BY <2>1 DEF ImmOps, Funct
  <2>4. Encoded(l, pc) = IType(Unsigned(x), Unsigned(y), Bits(n), Unsigned(f), OpImm)
    <3>1. m \in DOMAIN ImmRows \ {"srai"}
      BY <1>5
    <3>2. QED BY <1>2, <3>1, EncodedByMnemonic
  <2>5. Asked(l, pc) = WithImm(op, x, y, n) /\ Parser(l.mnemonic) # {"reg_mem"}
    BY <1>1, <1>3
  <2>6. OpImm \in SevenBits
    BY PlainSelects
  <2>7. QED BY <1>2, <2>1, <2>2, <2>3, <2>4, <2>5, <2>6, ImmMeans
<1>6. QED BY <1>4, <1>5

\* The instructions on registers.
LEMMA RegMeans ==
  ASSUME source \in Sources, LabelsRight, NEW pc \in 0 .. 4 * Len(source),
         NEW l, LineTyped(l), WellFormed(l), l.mnemonic \in DOMAIN RegRows \cup {"neg"}
  PROVE  Means(l, pc)
<1> PICK m : m = l.mnemonic
  OBVIOUS
<1> PICK w : w = Encoded(l, pc)
  OBVIOUS
<1>1. CASE m \in DOMAIN RegRows
  <2> PICK x, y, z : x = SaidAt(l, 1, pc) /\ y = SaidAt(l, 2, pc) /\ z = SaidAt(l, 3, pc)
    OBVIOUS
  <2> PICK row : row = <<RegRows[m][1], RegRows[m][2], OpNamed[m]>>
    OBVIOUS
  <2>1. Parser(l.mnemonic) = {"reg3"}
    BY <1>1, ParserByMnemonic
  <2>2. Register(l, 1, pc) /\ Register(l, 2, pc) /\ Register(l, 3, pc)
    BY <2>1, LineOperands
  <2>3. w = RType(Unsigned(x), Unsigned(y), Unsigned(z), Unsigned(row[1]), Unsigned(row[2]), OpReg)
    BY <1>1, <2>2, EncodedByMnemonic DEF Register
  <2>4. Asked(l, pc) = WithRegs(row[3], x, y, z)
    BY <1>1, AskedByMnemonic
  <2>5. row \in RegOps /\ FormatNamed(row[3]) = "R"
    BY <1>1, RegMnemonics
  <2>6. x \in 0 .. 255 /\ y \in 0 .. 255 /\ z \in 0 .. 255 /\ Parser(l.mnemonic) # {"reg_mem"}
    BY <2>1, <2>2 DEF Register, Byte
  <2>7. Fits(l, WithRegs(row[3], x, y, z)) <=> Gets(w, WithRegs(row[3], x, y, z))
    BY <2>3, <2>5, <2>6, RegLine
  <2>8. QED BY <2>4, <2>7 DEF Means
<1>2. CASE m = "neg"
  <2> PICK x, z : x = SaidAt(l, 1, pc) /\ z = SaidAt(l, 2, pc)
    OBVIOUS
  <2> PICK row : row = <<0, 32, "Sub">>
    OBVIOUS
  <2>1. Parser(l.mnemonic) = {"reg2"}
    BY <1>2, ParserByMnemonic
  <2>2. Register(l, 1, pc) /\ Register(l, 2, pc)
    BY <2>1, LineOperands
  <2>3. w = RType(Unsigned(x), Unsigned(0), Unsigned(z), Unsigned(row[1]), Unsigned(row[2]), OpReg)
    BY <1>2, <2>2, EncodedByMnemonic, SmallNumbers, ZenonT(30) DEF Register
  <2>4. Asked(l, pc) = WithRegs(row[3], x, 0, z)
    BY <1>2, AskedByMnemonic
  <2>5. row \in RegOps /\ FormatNamed(row[3]) = "R"
    BY DEF RegOps, FormatNamed
  <2>6. x \in Byte /\ z \in Byte
    BY <2>2 DEF Register
  <2>7. 0 \in Byte /\ Parser(l.mnemonic) # {"reg_mem"}
    BY <2>1 DEF Byte
  <2>8. Fits(l, WithRegs(row[3], x, 0, z)) <=> Gets(w, WithRegs(row[3], x, 0, z))
    BY <2>3, <2>5, <2>6, <2>7, RegLine, ZenonT(30) DEF Byte
  <2>9. QED BY <2>4, <2>8 DEF Means
<1>3. QED BY <1>1, <1>2

\* Loads and stores.
LEMMA MemMeans ==
  ASSUME source \in Sources, LabelsRight, NEW pc \in 0 .. 4 * Len(source),
         NEW l, LineTyped(l), WellFormed(l), l.mnemonic \in DOMAIN LoadRows \cup DOMAIN StoreRows
  PROVE  Means(l, pc)
<1> PICK m : m = l.mnemonic
  OBVIOUS
<1> PICK w : w = Encoded(l, pc)
  OBVIOUS
<1> PICK t : t = Op(l, 2)
  OBVIOUS
<1> PICK n, k : n = SaidOffset(t) /\ k = OffsetOf(t)
  OBVIOUS
<1> PICK x, y : x = SaidAt(l, 1, pc) /\ y = Said(t.base, pc)
  OBVIOUS
<1>1. Parser(l.mnemonic) = {"reg_mem"}
  BY ParserByMnemonic
<1>2. Register(l, 1, pc) /\ OperandText(t) /\ MemText(t)
  BY <1>1, LineOperands
<1>3. x \in 0 .. 255 /\ RegAt(l, 1) = Unsigned(x)
  BY <1>2 DEF Register, Byte
<1>4. y \in 0 .. 255 /\ BaseAt(l) = Unsigned(y)
  <2>1. RegText(t.base) /\ OperandText(t.base)
    BY <1>2, MemOperand
  <2>2. y \in 0 .. 255 /\ The(RegOf(t.base)) = y
    BY <2>1, RegOperand, ZenonT(30)
  <2>3. QED BY <2>2 DEF BaseAt
<1>5. OffAt(l) = Bits(k)
  BY DEF OffAt
<1>6. CASE m \in DOMAIN LoadRows
  <2> PICK row : row = <<LoadRows[m], OpNamed[m]>>
    OBVIOUS
  <2>1. row \in LoadOps /\ FormatNamed(row[2]) = "I" /\ ~IsShift(row[2])
    BY <1>6, LoadMnemonics
  <2>2. w = IType(Unsigned(x), Unsigned(y), Bits(k), Unsigned(row[1]), OpLoad)
    <3>1. w = IType(RegAt(l, 1), BaseAt(l), OffAt(l), Unsigned(LoadRows[m]), OpLoad)
      BY <1>6, EncodedByMnemonic
    <3>2. row[1] = LoadRows[m]
      OBVIOUS
    <3>3. QED BY <1>3, <1>4, <1>5, <3>1, <3>2
  <2>3. Asked(l, pc) = WithImm(row[2], x, y, n)
    BY <1>6, AskedByMnemonic
  <2>4. Fits(l, WithImm(row[2], x, y, n))
          <=> Gets(IType(Unsigned(x), Unsigned(y), Bits(k), Unsigned(row[1]), OpLoad),
                   WithImm(row[2], x, y, n))
    BY <1>1, <1>2, <1>3, <1>4, <2>1, LoadLine, ZenonT(30)
  <2>5. QED BY <2>2, <2>3, <2>4 DEF Means
<1>7. CASE m \in DOMAIN StoreRows
  <2> PICK row : row = <<StoreRows[m], OpNamed[m]>>
    OBVIOUS
  <2>1. row \in StoreOps /\ FormatNamed(row[2]) = "S" /\ ~IsShift(row[2])
    BY <1>7, StoreMnemonics
  <2>2. w = SType(Unsigned(y), Unsigned(x), Bits(k), Unsigned(row[1]), OpStore)
    <3>1. w = SType(BaseAt(l), RegAt(l, 1), OffAt(l), Unsigned(StoreRows[m]), OpStore)
      BY <1>7, EncodedByMnemonic
    <3>2. row[1] = StoreRows[m]
      OBVIOUS
    <3>3. QED BY <1>3, <1>4, <1>5, <3>1, <3>2
  <2>3. Asked(l, pc) = NoTarget(row[2], y, x, n)
    BY <1>7, AskedByMnemonic
  <2>4. Fits(l, NoTarget(row[2], y, x, n))
          <=> Gets(SType(Unsigned(y), Unsigned(x), Bits(k), Unsigned(row[1]), OpStore),
                   NoTarget(row[2], y, x, n))
    BY <1>1, <1>2, <1>3, <1>4, <2>1, StoreLine, ZenonT(30)
  <2>5. QED BY <2>2, <2>3, <2>4 DEF Means
<1>8. QED BY <1>6, <1>7

\* Branches.
LEMMA BranchMeans ==
  ASSUME source \in Sources, LabelsRight, NEW pc \in 0 .. 4 * Len(source),
         NEW l, LineTyped(l), WellFormed(l), l.mnemonic \in DOMAIN BranchRows
  PROVE  Means(l, pc)
<1> PICK m : m = l.mnemonic
  OBVIOUS
<1> PICK w : w = Encoded(l, pc)
  OBVIOUS
<1> PICK x, y, n : x = SaidAt(l, 1, pc) /\ y = SaidAt(l, 2, pc) /\ n = SaidAt(l, 3, pc)
  OBVIOUS
<1> PICK row : row = <<BranchRows[m], OpNamed[m]>>
  OBVIOUS
<1>1. Parser(l.mnemonic) = {"reg_reg_label"}
  BY ParserByMnemonic
<1>2. Register(l, 1, pc) /\ Register(l, 2, pc) /\ Number(l, 3, pc)
  BY <1>1, LineOperands
<1>3. row \in BranchOps /\ FormatNamed(row[2]) = "B" /\ ~IsShift(row[2])
  BY BranchMnemonics
<1>4. w = BType(Unsigned(x), Unsigned(y), Bits(n), Unsigned(row[1]), OpBranch)
  BY <1>2, EncodedByMnemonic DEF Register, Number
<1>5. Asked(l, pc) = NoTarget(row[2], x, y, n)
  BY AskedByMnemonic
<1>6. x \in 0 .. 255 /\ y \in 0 .. 255 /\ n \in Int32 /\ Parser(l.mnemonic) # {"reg_mem"}
  BY <1>1, <1>2 DEF Register, Number, Byte
<1>7. Fits(l, NoTarget(row[2], x, y, n)) <=> Gets(w, NoTarget(row[2], x, y, n))
  BY <1>3, <1>4, <1>6, BranchLine
<1>8. QED BY <1>5, <1>7 DEF Means

\* Jumps and upper immediates.
LEMMA LongMeans ==
  ASSUME source \in Sources, LabelsRight, NEW pc \in 0 .. 4 * Len(source),
         NEW l, LineTyped(l), WellFormed(l), l.mnemonic \in {"j", "jal", "lui", "auipc"}
  PROVE  Means(l, pc)
<1> PICK w : w = Encoded(l, pc)
  OBVIOUS
<1>1. CASE l.mnemonic = "j"
  <2> PICK n : n = SaidAt(l, 1, pc)
    OBVIOUS
  <2>1. Parser(l.mnemonic) = {"resolve"}
    BY <1>1, ParserByMnemonic
  <2>2. Number(l, 1, pc)
    BY <2>1, LineOperands
  <2>3. w = JType(Unsigned(0), Bits(n), OpJal)
    BY <1>1, <2>2, EncodedByMnemonic, SmallNumbers DEF Number
  <2>4. Asked(l, pc) = NoSource("Jal", 0, n)
    BY <1>1, AskedByMnemonic
  <2>5. 0 \in 0 .. 255 /\ n \in Int32 /\ Parser(l.mnemonic) # {"reg_mem"}
    BY <2>1, <2>2 DEF Number
  <2>6. Fits(l, NoSource("Jal", 0, n)) <=> Gets(w, NoSource("Jal", 0, n))
    BY <2>3, <2>5, JumpLine
  <2>7. QED BY <2>4, <2>6 DEF Means
<1>2. ASSUME l.mnemonic \in {"jal", "lui", "auipc"},
             NEW x, x = SaidAt(l, 1, pc), NEW n, n = SaidAt(l, 2, pc)
      PROVE  /\ x \in 0 .. 255 /\ n \in Int32 /\ Parser(l.mnemonic) # {"reg_mem"}
             /\ RegAt(l, 1) = Unsigned(x) /\ ImmAt(l, 2, pc) = Bits(n)
             /\ Asked(l, pc) = NoSource(OpNamed[l.mnemonic], x, n)
  <2>1. Parser(l.mnemonic) = {"reg_imm"}
    BY <1>2, ParserByMnemonic
  <2>2. Register(l, 1, pc) /\ Number(l, 2, pc)
    BY <2>1, LineOperands
  <2>3. QED BY <1>2, <2>1, <2>2, AskedByMnemonic DEF Register, Number, Byte
<1> PICK x, n : x = SaidAt(l, 1, pc) /\ n = SaidAt(l, 2, pc)
  OBVIOUS
<1>3. CASE l.mnemonic = "jal"
  <2>1. /\ x \in 0 .. 255 /\ n \in Int32 /\ Parser(l.mnemonic) # {"reg_mem"}
        /\ Asked(l, pc) = NoSource("Jal", x, n)
    BY <1>2, <1>3 DEF OpNamed
  <2>2. w = JType(Unsigned(x), Bits(n), OpJal)
    BY <1>2, <1>3, EncodedByMnemonic, ZenonT(30)
  <2>3. Fits(l, NoSource("Jal", x, n)) <=> Gets(w, NoSource("Jal", x, n))
    BY <2>1, <2>2, JumpLine
  <2>4. QED BY <2>1, <2>3 DEF Means
<1>4. CASE l.mnemonic = "lui"
  <2>1. /\ x \in 0 .. 255 /\ n \in Int32 /\ Parser(l.mnemonic) # {"reg_mem"}
        /\ Asked(l, pc) = NoSource("Lui", x, n)
    BY <1>2, <1>4 DEF OpNamed
  <2>2. w = UType(Unsigned(x), Bits(n), OpLui)
    BY <1>2, <1>4, EncodedByMnemonic
  <2>3. /\ OpLui \in SevenBits /\ \A f : Selects(OpLui, f, "Lui", "U")
        /\ FormatNamed("Lui") = "U" /\ ~IsShift("Lui")
    BY PlainSelects
  <2>4. Fits(l, NoSource("Lui", x, n)) <=> Gets(w, NoSource("Lui", x, n))
    BY <2>1, <2>2, <2>3, UpperLine
  <2>5. QED BY <2>1, <2>4 DEF Means
<1>5. CASE l.mnemonic = "auipc"
  <2>1. /\ x \in 0 .. 255 /\ n \in Int32 /\ Parser(l.mnemonic) # {"reg_mem"}
        /\ Asked(l, pc) = NoSource("Auipc", x, n)
    BY <1>2, <1>5 DEF OpNamed
  <2>2. w = UType(Unsigned(x), Bits(n), OpAuipc)
    BY <1>2, <1>5, EncodedByMnemonic, ZenonT(30)
  <2>3. /\ OpAuipc \in SevenBits /\ \A f : Selects(OpAuipc, f, "Auipc", "U")
        /\ FormatNamed("Auipc") = "U" /\ ~IsShift("Auipc")
    BY PlainSelects
  <2>4. Fits(l, NoSource("Auipc", x, n)) <=> Gets(w, NoSource("Auipc", x, n))
    BY <2>1, <2>2, <2>3, UpperLine
  <2>5. QED BY <2>1, <2>4 DEF Means
<1>6. QED BY <1>1, <1>3, <1>4, <1>5

\* Every accepted line, at any address.
LEMMA LineMeans ==
  ASSUME source \in Sources, LabelsRight, NEW pc \in 0 .. 4 * Len(source),
         NEW l, LineTyped(l), WellFormed(l)
  PROVE  Means(l, pc)
<1>1. Parser(l.mnemonic) # {}
  BY WellFormedByParser
<1>2. \/ l.mnemonic \in {"nop", "mv", "li", "jr", "ret", "not", "jalr"}
      \/ l.mnemonic \in DOMAIN RegRows \cup {"neg"}
      \/ l.mnemonic \in {"j", "jal", "lui", "auipc"}
      \/ l.mnemonic \in DOMAIN ImmRows
      \/ l.mnemonic \in DOMAIN LoadRows \cup DOMAIN StoreRows
      \/ l.mnemonic \in DOMAIN BranchRows
  BY <1>1 DEF Parser
<1>3. QED BY <1>2, PseudoMeans, RegMeans, LongMeans, ImmRowMeans, MemMeans, BranchMeans

\* The words there are at any moment are those of the lines in front.
LEMMA AsmMeans ==
  ASSUME AsmInv
  PROVE  WordsAreWhatWasAsked
<1>1. SUFFICES ASSUME NEW i \in DOMAIN source, source[i].kind = "instr",
                      InstrsUpTo(i) \in DOMAIN words, NEW k, k = InstrsUpTo(i),
                      NEW a, a = Asked(source[i], 4 * (k - 1))
               PROVE  Fits(source[i], a) <=> Gets(words[k], a)
  BY DEF WordsAreWhatWasAsked, Gets
<1>2. /\ Len(source) \in Nat /\ DOMAIN source = 1 .. Len(source)
      /\ Len(lines) \in Nat /\ DOMAIN lines = 1 .. Len(lines)
      /\ Len(words) \in Nat /\ DOMAIN words = 1 .. Len(words)
      /\ source \in Sources
  BY SourceIsLines, LenProperties DEF AsmInv
<1>3. k = Instrs(source, i) /\ i \in Nat \ {0} /\ i - 1 \in Nat
  BY <1>1, <1>2 DEF InstrsUpTo, Instrs
<1>4. Instrs(source, i) = Instrs(source, i - 1) + 1 /\ Instrs(source, i - 1) \in Nat
  BY <1>1, <1>3, InstrsNext, InstrsFinite
<1>5. stage # "clean"
  <2>1. words # <<>>
    BY <1>1
  <2>2. QED BY <2>1 DEF AsmInv
<1>6. PICK r \in Nat : EmittedTo(r)
  <2>1. PICK f : Progress(f)
    BY DEF AsmInv
  <2>2. /\ f \in [DOMAIN lines -> 1 .. Len(source)] /\ next \in 1 .. Len(lines) + 1
    BY <1>5, <2>1 DEF AsmInv, Progress, KeptAt, Seen
  <2>3. Reached(Len(source), Len(lines), f, next) \in Nat
    BY <1>2, <2>2 DEF Reached
  <2>4. QED BY <1>5, <2>1, <2>3 DEF Progress
<1>7. i <= r
  <2>1. SUFFICES ASSUME r <= i - 1 PROVE FALSE
    BY <1>3
  <2>2. Instrs(source, r) <= Instrs(source, i - 1) /\ Instrs(source, r) \in Nat
    BY <1>3, <2>1, InstrsGrow, InstrsFinite
  <2>3. k <= Instrs(source, r)
    BY <1>1, <1>2, <1>6 DEF EmittedTo
  <2>4. QED BY <1>3, <1>4, <2>2, <2>3
<1>8. WellFormed(source[i]) /\ words[k] = Encoded(source[i], 4 * Instrs(source, i - 1))
  <2>1. i \in 1 .. r
    BY <1>3, <1>7
  <2>2. QED BY <1>1, <1>3, <1>6, <2>1 DEF EmittedTo, Encodes
<1>9. 4 * (k - 1) = 4 * Instrs(source, i - 1) /\ 4 * (k - 1) \in 0 .. 4 * Len(source)
  <2>1. i - 1 \in 0 .. Len(source)
    BY <1>2
  <2>2. Instrs(source, i - 1) \in 0 .. Len(source)
    BY <1>2, <2>1, InstrsBound
  <2>3. QED BY <1>2, <1>3, <1>4, <2>2
<1>10. LineTyped(source[i])
  <2>1. source[i] # BlankLine /\ \A name : source[i] # LabelLine(name)
    BY <1>1 DEF BlankLine, LabelLine
  <2>2. QED BY <1>2, <2>1, SourceAssumption DEF LineTyped
<1>11. Means(source[i], 4 * (k - 1))
  BY <1>2, <1>5, <1>8, <1>9, <1>10, LineMeans DEF AsmInv
<1>12. QED BY <1>1, <1>8, <1>9, <1>11 DEF Means

-----------------------------------------------------------------------------
(* The assembler: what the runs check, for any sources. *)

\* For any sources: the addresses, labels and words of the assembler stay in their types.
THEOREM AssemblerTyped == Spec => []TypeOK
<1>1. Spec => []AsmInv
  BY AsmInitial, AsmInductive, PTL DEF Spec
<1>2. AsmInv => TypeOK
  BY AsmTyped
<1>3. QED BY <1>1, <1>2, PTL

\* For any sources: assemble() accepts exactly those of which every line is well formed,
\* with one word for each instruction, and otherwise stops at the first that is not, with
\* a word for each instruction in front of it.
THEOREM FirstBadLineStops == Spec => []StopsAtFirstBadLine
<1>1. Spec => []AsmInv
  BY AsmInitial, AsmInductive, PTL DEF Spec
<1>2. AsmInv => StopsAtFirstBadLine
  BY AsmStops
<1>3. QED BY <1>1, <1>2, PTL

\* For any sources: the k-th instruction is encoded into the k-th word for address
\* 4 * (k - 1), and a label is as far from there as the instructions between them, wherever
\* in the source it stands; of several labels of a name the last counts.
THEOREM WordsAndLabelsInPlace == Spec => [](WordsInPlace /\ LabelsInPlace)
<1>1. Spec => []AsmInv
  BY AsmInitial, AsmInductive, PTL DEF Spec
<1>2. AsmInv => WordsInPlace /\ LabelsInPlace
  BY AsmPlaces
<1>3. QED BY <1>1, <1>2, PTL

\* For any sources, and whatever the labels, numbers and registers of their lines: a line's
\* word decodes to the instruction the line asks for, at the place its labels have in the
\* source, exactly when its registers are among the 32 and its number is one that its
\* format carries; of all others the word decodes to another instruction or to none.
THEOREM WordsMeanWhatLinesAsk == Spec => []WordsAreWhatWasAsked
<1>1. Spec => []AsmInv
  BY AsmInitial, AsmInductive, PTL DEF Spec
<1>2. AsmInv => WordsAreWhatWasAsked
  BY AsmMeans
<1>3. QED BY <1>1, <1>2, PTL
=============================================================================
