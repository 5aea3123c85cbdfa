----------------------------- MODULE Assembler -----------------------------
(***************************************************************************)
(* assemble() of src/src/utils/assembler.rs: clean() gives every line its  *)
(* address, collect_labels() records where labels stand, emit() encodes    *)
(* the instruction lines one by one and stops at the first bad one.        *)
(*                                                                         *)
(* A line of the source is blank, a label, or a mnemonic with operands; an *)
(* operand is classified by what the parsers make of its text.  A line has *)
(* no more operands than its mnemonic reads.                               *)
(***************************************************************************)
EXTENDS Sequences, FiniteSets, Encoding, Latch

CONSTANTS
  Names,    \* label names
  Sources   \* the source texts to assemble, sequences of lines

VARIABLES
  source, stage,
  next,           \* the line the current loop is at
  addr, lines,    \* clean(): the next address, the lines kept with theirs
  labels,         \* name -> address, for the names that are labels
  words, error    \* what assemble() returns

vars == <<source, stage, next, addr, lines, labels, words, error>>

\* Lines.
BlankLine        == [kind |-> "blank"]
LabelLine(name)  == [kind |-> "label", name |-> name]
InstrLine(m, ops) == [kind |-> "instr", mnemonic |-> m, ops |-> ops]

\* Operands: x<n> or its ABI name, decimal and hexadecimal numbers, any other word,
\* offset(base), and the empty text.
X(n)           == [kind |-> "reg", n |-> n]
Dec(n)         == [kind |-> "dec", n |-> n]
Hex(n)         == [kind |-> "hex", n |-> n]
Name(s)        == [kind |-> "name", name |-> s]
Mem(off, base) == [kind |-> "mem", off |-> off, base |-> base]
Empty          == [kind |-> "empty"]

\* A source is a finite sequence of such lines.
IsSequence(s) == s \in Seq({s[i] : i \in DOMAIN s})

\* lo <= n <= hi
Between(lo, n, hi) == lo <= n /\ n <= hi

\* What a number parses to.
Int32 == {n \in Int : Between(-2147483647 - 1, n, 2147483647)}

\* The texts of operands; an offset and its base have no brackets of their own.
PlainText(t) == \/ t.kind = "reg" /\ t.n \in Nat
                \/ t.kind \in {"dec", "hex"} /\ t.n \in Int32
                \/ t.kind \in {"name", "empty"}
OperandText(t) == PlainText(t) \/ (t.kind = "mem" /\ PlainText(t.off) /\ PlainText(t.base))

\* The code casts addresses to i32.
ASSUME SourceAssumption ==
  \A s \in Sources :
    /\ IsSequence(s)
    /\ 4 * Len(s) \in Int32
    /\ \A i \in DOMAIN s :
         \/ s[i] = BlankLine
         \/ \E name \in Names : s[i] = LabelLine(name)
         \/ /\ s[i].kind = "instr" /\ IsSequence(s[i].ops)
            /\ \A j \in DOMAIN s[i].ops : OperandText(s[i].ops[j])

AsmError == {"UnknownInstruction", "UnknownRegister", "BadOperands", "UndefinedLabel"}

\* An i32 as a word.
Bits(n) == Unsigned(n) \cup (IF n < 0 THEN {31} ELSE {})

-----------------------------------------------------------------------------
(* The operand parsers, options of a number. *)

\* reg(): any u8 after the x.
RegOf(t) == IF t.kind = "reg" /\ t.n < 256 THEN {t.n} ELSE {}

\* Mutant: only labels that are already behind count.
ResolvedBackward(t, pc) ==
  CASE t.kind \in {"dec", "hex"} -> {t.n}
    [] t.kind = "name" /\ t.name \in DOMAIN labels /\ labels[t.name] <= pc
                                 -> {labels[t.name] - pc}
    [] OTHER                     -> {}

\* resolve(): a number, or the distance to a label.
Resolved(t, pc) ==
  CASE t.kind \in {"dec", "hex"}                       -> {t.n}
    [] t.kind = "name" /\ t.name \in DOMAIN labels     -> {labels[t.name] - pc}
    [] OTHER                                           -> {}

\* parse_mem_operand(): an offset that is not a decimal number counts as 0.
OffsetOf(t) == IF t.off.kind = "dec" THEN t.off.n ELSE 0

-----------------------------------------------------------------------------
(* The mnemonics of assemble_line(), with their functs. *)

RegRows == [add |-> <<0, 0>>, sub |-> <<0, 32>>, and |-> <<7, 0>>, or |-> <<6, 0>>,
            xor |-> <<4, 0>>, sll |-> <<1, 0>>, srl |-> <<5, 0>>, sra |-> <<5, 32>>,
            slt |-> <<2, 0>>, sltu |-> <<3, 0>>]
ImmRows == [addi |-> 0, andi |-> 7, ori |-> 6, xori |-> 4, slli |-> 1, srli |-> 5, srai |-> 5,
            slti |-> 2, sltiu |-> 3]
LoadRows   == [lb |-> 0, lh |-> 1, lw |-> 2, lbu |-> 4, lhu |-> 5]
StoreRows  == [sb |-> 0, sh |-> 1, sw |-> 2]
BranchRows == [beq |-> 0, bne |-> 1, blt |-> 4, bge |-> 5, bltu |-> 6, bgeu |-> 7]

\* Which parser reads the operands of a mnemonic; none if it is unknown.
Parser(m) ==
  CASE m \in {"nop", "ret"}                        -> {"nothing"}
    [] m \in {"mv", "not", "neg"}                  -> {"reg2"}
    [] m \in {"li", "lui", "auipc", "jal"}         -> {"reg_imm"}
    [] m = "j"                                     -> {"resolve"}
    [] m = "jr"                                    -> {"reg"}
    [] m \in DOMAIN RegRows                        -> {"reg3"}
    [] m \in DOMAIN ImmRows \cup {"jalr"}          -> {"reg_reg_imm"}
    [] m \in DOMAIN LoadRows \cup DOMAIN StoreRows -> {"reg_mem"}
    [] m \in DOMAIN BranchRows                     -> {"reg_reg_label"}
    [] OTHER                                       -> {}

\* The i-th operand; text that is not there is empty.
Op(l, i) == IF i \in DOMAIN l.ops THEN l.ops[i] ELSE Empty

\* A check a parser makes, and the error if it fails.
Enough(l, n)    == [ok |-> Len(l.ops) >= n, error |-> "BadOperands"]
IsReg(t)        == [ok |-> RegOf(t) # {}, error |-> "UnknownRegister"]
Resolves(t, pc) == [ok |-> Resolved(t, pc) # {}, error |-> "UndefinedLabel"]
IsMem(t)        == [ok |-> t.kind = "mem", error |-> "BadOperands"]

\* The checks in the order the parser makes them.
Checks(l, pc) ==
  LET by == Parser(l.mnemonic)
  IN CASE by = {}                -> <<[ok |-> FALSE, error |-> "UnknownInstruction"]>>
       [] by = {"nothing"}       -> <<>>
       [] by = {"reg"}           -> <<IsReg(Op(l, 1))>>
       [] by = {"resolve"}       -> <<Resolves(Op(l, 1), pc)>>
       [] by = {"reg2"}          -> <<Enough(l, 2), IsReg(Op(l, 1)), IsReg(Op(l, 2))>>
       [] by = {"reg3"}          -> <<Enough(l, 3), IsReg(Op(l, 1)), IsReg(Op(l, 2)),
                                      IsReg(Op(l, 3))>>
       [] by = {"reg_imm"}       -> <<Enough(l, 2), IsReg(Op(l, 1)), Resolves(Op(l, 2), pc)>>
       [] by = {"reg_reg_imm"}   -> <<Enough(l, 3), IsReg(Op(l, 1)), IsReg(Op(l, 2)),
                                      Resolves(Op(l, 3), pc)>>
       [] by = {"reg_reg_label"} -> <<Enough(l, 3), Resolves(Op(l, 3), pc), IsReg(Op(l, 1)),
                                      IsReg(Op(l, 2))>>
       [] by = {"reg_mem"}       ->
            <<Enough(l, 2), IsReg(Op(l, 1)), IsMem(Op(l, 2))>> \o
            (IF Op(l, 2).kind = "mem" THEN <<IsReg(Op(l, 2).base)>> ELSE <<>>)

\* The error assemble_line() returns: that of the first check to fail.
ErrorsOf(l, pc) ==
  LET c == Checks(l, pc)
  IN {c[i].error : i \in {j \in DOMAIN c : ~c[j].ok /\ \A k \in 1 .. j - 1 : c[k].ok}}

-----------------------------------------------------------------------------
(* The word of a line whose operands pass. *)

OpImm == Unsigned(\b0010011)
OpReg == Unsigned(\b0110011)

Encoded(l, pc) ==
  LET m        == l.mnemonic
      Reg(i)   == Unsigned(The(RegOf(Op(l, i))))
      Imm(i)   == Bits(The(Resolved(Op(l, i), pc)))
      Base     == Unsigned(The(RegOf(Op(l, 2).base)))
      Off      == Bits(OffsetOf(Op(l, 2)))
      Jump     == Unsigned(\b1101111)
      JumpReg  == Unsigned(\b1100111)
  IN CASE m = "nop" -> Bits(19)
       [] m = "mv"  -> IType(Reg(1), Reg(2), {}, {}, OpImm)
       [] m = "li"  -> IType(Reg(1), {}, Imm(2), {}, OpImm)
       [] m = "j"   -> JType({}, Imm(1), Jump)
       [] m = "jr"  -> IType({}, Reg(1), {}, {}, JumpReg)
       [] m = "ret" -> IType({}, Unsigned(1), {}, {}, JumpReg)
       [] m = "not" -> IType(Reg(1), Reg(2), Bits(-1), Unsigned(4), OpImm)
       [] m = "neg" -> RType(Reg(1), {}, Reg(2), {}, Unsigned(32), OpReg)
       [] m \in DOMAIN RegRows ->
            RType(Reg(1), Reg(2), Reg(3), Unsigned(RegRows[m][1]), Unsigned(RegRows[m][2]), OpReg)
       [] m = "srai" -> IType(Reg(1), Reg(2), Imm(3) \cup {10}, Unsigned(5), OpImm)
       [] m \in DOMAIN ImmRows \ {"srai"} ->
            IType(Reg(1), Reg(2), Imm(3), Unsigned(ImmRows[m]), OpImm)
       [] m \in DOMAIN LoadRows ->
            IType(Reg(1), Base, Off, Unsigned(LoadRows[m]), Unsigned(\b0000011))
       [] m \in DOMAIN StoreRows ->
            SType(Base, Reg(1), Off, Unsigned(StoreRows[m]), Unsigned(\b0100011))
       [] m \in DOMAIN BranchRows ->
            BType(Reg(1), Reg(2), Imm(3), Unsigned(BranchRows[m]), Unsigned(\b1100011))
       [] m = "jal"   -> JType(Reg(1), Imm(2), Jump)
       [] m = "jalr"  -> IType(Reg(1), Reg(2), Imm(3), {}, JumpReg)
       [] m = "lui"   -> UType(Reg(1), Imm(2), Unsigned(\b0110111))
       [] m = "auipc" -> UType(Reg(1), Imm(2), Unsigned(\b0010111))

-----------------------------------------------------------------------------
(* assemble() *)

Init ==
  /\ source \in Sources
  /\ stage = "clean"
  /\ next = 1 /\ addr = 0
  /\ lines = <<>> /\ words = <<>>
  /\ labels = <<>>
  /\ error = {}

\* Mutant: addresses count words.
AddrInWords(l) == IF l.kind = "instr" THEN addr + 1 ELSE addr

\* The address of the line after l: a label takes no space.
AddrAfter(l) == IF l.kind = "instr" THEN addr + 4 ELSE addr

\* clean()
CleanLine ==
  /\ stage = "clean"
  /\ next <= Len(source)
  /\ lines' = IF source[next].kind = "blank" THEN lines
              ELSE Append(lines, [addr |-> addr, line |-> source[next]])
  /\ addr' = AddrAfter(source[next])
  /\ next' = next + 1
  /\ UNCHANGED <<source, stage, labels, words, error>>

LabelAt(i, name) == lines[i].line = LabelLine(name)

\* collect_labels(): the last of several labels of a name counts.
LabelsCollected ==
  [name \in {n \in Names : \E i \in DOMAIN lines : LabelAt(i, n)} |->
     lines[CHOOSE i \in DOMAIN lines :
             LabelAt(i, name) /\ \A j \in i + 1 .. Len(lines) : ~LabelAt(j, name)].addr]

CollectLabels ==
  /\ stage = "clean"
  /\ next > Len(source)
  /\ labels' = LabelsCollected
  /\ stage' = "emit"
  /\ next' = 1
  /\ UNCHANGED <<source, addr, lines, words, error>>

\* emit()
EmitNothing ==
  /\ stage = "emit"
  /\ next <= Len(lines)
  /\ lines[next].line.kind = "label"
  /\ next' = next + 1
  /\ UNCHANGED <<source, stage, addr, lines, labels, words, error>>

EmitWord ==
  /\ stage = "emit"
  /\ next <= Len(lines)
  /\ LET l == lines[next]
     IN /\ l.line.kind = "instr"
        /\ ErrorsOf(l.line, l.addr) = {}
        /\ words' = Append(words, Encoded(l.line, l.addr))
  /\ next' = next + 1
  /\ UNCHANGED <<source, stage, addr, lines, labels, error>>

EmitError ==
  /\ stage = "emit"
  /\ next <= Len(lines)
  /\ LET l == lines[next]
     IN /\ l.line.kind = "instr"
        /\ ErrorsOf(l.line, l.addr) # {}
        /\ error' = ErrorsOf(l.line, l.addr)
  /\ stage' = "failed"
  /\ UNCHANGED <<source, next, addr, lines, labels, words>>

Assembled ==
  /\ stage = "emit"
  /\ next > Len(lines)
  /\ stage' = "done"
  /\ UNCHANGED <<source, next, addr, lines, labels, words, error>>

Next == CleanLine \/ CollectLabels \/ EmitNothing \/ EmitWord \/ EmitError \/ Assembled

Spec == Init /\ [][Next]_vars

-----------------------------------------------------------------------------
(* Properties *)

TypeOK ==
  /\ source \in Sources
  /\ stage \in {"clean", "emit", "done", "failed"}
  /\ next \in 1 .. Len(source) + 1
  /\ addr \in Nat
  /\ \A i \in DOMAIN lines : lines[i].addr \in 0 .. addr /\ lines[i].addr % 4 = 0
  /\ DOMAIN labels \subseteq Names /\ \A n \in DOMAIN labels : labels[n] \in 0 .. addr
  /\ words \in Seq(Word32)
  /\ error \in Option(AsmError)

\* The number of instructions among the first i lines.
InstrsUpTo(i) == Cardinality({j \in 1 .. i : source[j].kind = "instr"})

\* Where a label stands, by the source alone: after the instructions in front of its
\* last occurrence.
LabelLines(name) == {i \in DOMAIN source : source[i] = LabelLine(name)}
Defined == {n \in Names : LabelLines(n) # {}}
AddrOf(name) ==
  LET at == CHOOSE i \in LabelLines(name) : \A j \in LabelLines(name) : j <= i
  IN 4 * InstrsUpTo(at)

\* What an operand says: a register, a number, or for a label the way to it.
Said(t, pc) ==
  CASE t.kind \in {"reg", "dec", "hex"} -> t.n
    [] t.kind = "name"                  -> AddrOf(t.name) - pc
    [] t.kind = "empty"                 -> 0

\* What an offset says: a number, or nothing.
SaidOffset(t) == IF t.off.kind \in {"dec", "hex"} THEN t.off.n ELSE 0

\* The opcode of each mnemonic.
OpNamed ==
  [add |-> "Add", sub |-> "Sub", and |-> "And", or |-> "Or", xor |-> "Xor", sll |-> "Sll",
   srl |-> "Srl", sra |-> "Sra", slt |-> "Slt", sltu |-> "Sltu", addi |-> "Addi",
   andi |-> "Andi", ori |-> "Ori", xori |-> "Xori", slli |-> "Slli", srli |-> "Srli",
   srai |-> "Srai", slti |-> "Slti", sltiu |-> "Sltiu", lb |-> "Lb", lh |-> "Lh", lw |-> "Lw",
   lbu |-> "Lbu", lhu |-> "Lhu", sb |-> "Sb", sh |-> "Sh", sw |-> "Sw", beq |-> "Beq",
   bne |-> "Bne", blt |-> "Blt", bge |-> "Bge", bltu |-> "Bltu", bgeu |-> "Bgeu",
   jal |-> "Jal", jalr |-> "Jalr", lui |-> "Lui", auipc |-> "Auipc"]

\* The instruction a line asks for, by the fields its opcode uses.  The pseudo-
\* instructions are those the comments of assemble_line() name.
Asked(l, pc) ==
  LET m    == l.mnemonic
      O(i) == Said(Op(l, i), pc)
  IN CASE m = "nop" -> [op |-> "Addi", rd |-> 0, rs1 |-> 0, imm |-> 0]
       [] m = "mv"  -> [op |-> "Addi", rd |-> O(1), rs1 |-> O(2), imm |-> 0]
       [] m = "li"  -> [op |-> "Addi", rd |-> O(1), rs1 |-> 0, imm |-> O(2)]
       [] m = "j"   -> [op |-> "Jal", rd |-> 0, imm |-> O(1)]
       [] m = "jr"  -> [op |-> "Jalr", rd |-> 0, rs1 |-> O(1), imm |-> 0]
       [] m = "ret" -> [op |-> "Jalr", rd |-> 0, rs1 |-> 1, imm |-> 0]
       [] m = "not" -> [op |-> "Xori", rd |-> O(1), rs1 |-> O(2), imm |-> -1]
       [] m = "neg" -> [op |-> "Sub", rd |-> O(1), rs1 |-> 0, rs2 |-> O(2)]
       [] m \in DOMAIN RegRows -> [op |-> OpNamed[m], rd |-> O(1), rs1 |-> O(2), rs2 |-> O(3)]
       [] m \in DOMAIN ImmRows \cup {"jalr"} ->
            [op |-> OpNamed[m], rd |-> O(1), rs1 |-> O(2), imm |-> O(3)]
       [] m \in DOMAIN LoadRows ->
            [op |-> OpNamed[m], rd |-> O(1), rs1 |-> Said(Op(l, 2).base, pc),
             imm |-> SaidOffset(Op(l, 2))]
       [] m \in DOMAIN StoreRows ->
            [op |-> OpNamed[m], rs2 |-> O(1), rs1 |-> Said(Op(l, 2).base, pc),
             imm |-> SaidOffset(Op(l, 2))]
       [] m \in DOMAIN BranchRows ->
            [op |-> OpNamed[m], rs1 |-> O(1), rs2 |-> O(2), imm |-> O(3)]
       [] m \in {"jal", "lui", "auipc"} -> [op |-> OpNamed[m], rd |-> O(1), imm |-> O(2)]

IsShift(op) == op \in {"Slli", "Srli", "Srai"}

\* Whether an immediate survives the way into a word of the format and out of it.
Reaches(op, format, n) ==
  CASE IsShift(op)                    -> Between(0, n, 31)
    [] format = "I" /\ ~IsShift(op)   -> Between(-2048, n, 2047)
    [] format = "S"                   -> Between(0, n, 4095)
    [] format = "B"                   -> Between(-4096, n, 4094) /\ n % 2 = 0
    [] format = "J"                   -> Between(-1048576, n, 1048574) /\ n % 2 = 0
    [] format = "U"                   -> n % 4096 = 0

FormatNamed(op) ==
  CASE op \in {"Add", "Sub", "And", "Or", "Xor", "Sll", "Srl", "Sra", "Slt", "Sltu"} -> "R"
    [] op \in {"Sb", "Sh", "Sw"}                                                    -> "S"
    [] op \in {"Beq", "Bne", "Blt", "Bge", "Bltu", "Bgeu"}                          -> "B"
    [] op \in {"Lui", "Auipc"}                                                      -> "U"
    [] op = "Jal"                                                                   -> "J"
    [] OTHER                                                                        -> "I"

Fits(l, a) ==
  /\ \A f \in DOMAIN a \cap {"rd", "rs1", "rs2"} : a[f] < 32
  /\ "imm" \in DOMAIN a => Reaches(a.op, FormatNamed(a.op), a.imm)
  /\ Parser(l.mnemonic) = {"reg_mem"} /\ Op(l, 2).off.kind = "hex" => Op(l, 2).off.n = 0

\* A decoded instruction is the one asked for; of a shift's immediate the ALU uses the
\* five low bits.
Is(d, a) ==
  /\ d.op = a.op /\ d.format = FormatNamed(a.op)
  /\ \A f \in DOMAIN a \cap {"rd", "rs1", "rs2"} : d[f] = Unsigned(a[f])
  /\ "imm" \in DOMAIN a =>
       (IF IsShift(a.op) THEN Low(d.imm, 5) ELSE d.imm) = Bits(a.imm)

\* The word of an instruction line decodes to what the line asks for, branches and
\* jumps to the label they name included, exactly when the operands fit their
\* fields.  Nothing checks that they do: what does not fit is assembled all the
\* same, into another instruction, and so are a negative store offset and one in
\* hexadecimal.
WordsAreWhatWasAsked ==
  \A i \in DOMAIN source :
    source[i].kind = "instr" /\ InstrsUpTo(i) \in DOMAIN words =>
      LET l == source[i]
          k == InstrsUpTo(i)
          a == Asked(l, 4 * (k - 1))
      IN Fits(l, a) <=> \E d \in Decode(words[k]) : Is(d, a)

\* The texts of an operand of each kind.
RegText(t) == t.kind = "reg" /\ t.n < 256
ImmText(t) == t.kind \in {"dec", "hex"} \/ (t.kind = "name" /\ t.name \in Defined)
MemText(t) == t.kind = "mem" /\ RegText(t.base)

IsText(kind, t) == \/ kind = "reg" /\ RegText(t)
                   \/ kind = "imm" /\ ImmText(t)
                   \/ kind = "mem" /\ MemText(t)

\* What the operands of each parser have to be.
OperandKinds ==
  [nothing |-> <<>>, reg |-> <<"reg">>, resolve |-> <<"imm">>, reg2 |-> <<"reg", "reg">>,
   reg3 |-> <<"reg", "reg", "reg">>, reg_imm |-> <<"reg", "imm">>,
   reg_reg_imm |-> <<"reg", "reg", "imm">>, reg_reg_label |-> <<"reg", "reg", "imm">>,
   reg_mem |-> <<"reg", "mem">>]

Takes(l, kinds) ==
  Len(l.ops) >= Len(kinds) /\ \A i \in DOMAIN kinds : IsText(kinds[i], l.ops[i])

\* Whether a line is one the assembler accepts, by what it says and where the labels
\* of the whole source are.
WellFormed(l) == \E p \in Parser(l.mnemonic) : Takes(l, OperandKinds[p])

BadLines == {i \in DOMAIN source : source[i].kind = "instr" /\ ~WellFormed(source[i])}

\* assemble() succeeds, with a word for every instruction, if all lines are well
\* formed, wherever the labels they name stand; otherwise it stops at the first that
\* is not, having encoded all before it.
StopsAtFirstBadLine ==
  /\ stage = "done" => BadLines = {} /\ Len(words) = InstrsUpTo(Len(source))
  /\ stage = "failed" => \E i \in BadLines : /\ \A j \in BadLines : i <= j
                                           /\ Len(words) = InstrsUpTo(i) - 1
=============================================================================
