---------------------------- MODULE MCAssembler ----------------------------
(***************************************************************************)
(* Sources for TLC: every mnemonic alone with operands at the edges of     *)
(* their fields, and short programs of labels, jumps and bad lines.        *)
(***************************************************************************)
EXTENDS Assembler

McNames == {"a", "b"}

Regs  == {X(0), X(1), X(31), X(32), X(255), X(256)}
Few   == {X(2), X(31), X(40)}

\* Around the limits of 5, 11, 12, 13, 20 and 21 bits, and of an i32.
Numbers ==
  {-2147483647, -1048577, -1048576, -4097, -4096, -2049, -2048, -2, -1, 0, 1, 2, 31, 32,
   1024, 2047, 2048, 4094, 4095, 4096, 1048574, 1048576, 2147483647}

Imms == {Dec(n) : n \in Numbers} \cup {Hex(2047), Name("a")}
Mems == {Mem(Dec(n), X(2)) : n \in Numbers \cap -5000 .. 5000}
          \cup {Mem(Dec(8), r) : r \in Regs}
          \cup {Mem(t, X(1)) : t \in {Hex(0), Hex(16), Name("a"), X(5), Empty}}

Lines(ms, opss) == {InstrLine(m, ops) : m \in ms, ops \in opss}

SingleLines ==
  Lines({"nop", "ret"}, {<<>>})
    \cup Lines({"mv", "not", "neg"}, Regs \X Regs)
    \cup Lines(DOMAIN RegRows, Few \X Regs \X Few \cup Regs \X Few \X {X(1), X(33)})
    \cup Lines({"li", "lui", "auipc", "jal"}, Few \X Imms)
    \cup Lines(DOMAIN ImmRows \cup {"jalr"}, Few \X {X(3), X(33)} \X Imms)
    \cup Lines(DOMAIN BranchRows, Few \X {X(3), X(33)} \X Imms)
    \cup Lines(DOMAIN LoadRows \cup DOMAIN StoreRows, Few \X Mems)
    \cup Lines({"j"}, {<<t>> : t \in Imms})
    \cup Lines({"jr"}, {<<t>> : t \in Regs})

\* The line, and a label behind it.
SingleSources == {<<l, LabelLine("a")>> : l \in SingleLines}

ProgramLines ==
  {BlankLine, LabelLine("a"), LabelLine("b"),
   InstrLine("addi", <<X(1), X(1), Dec(-1)>>),
   InstrLine("bne", <<X(1), X(0), Name("a")>>),
   InstrLine("j", <<Name("b")>>),
   InstrLine("jal", <<X(1), Name("a")>>),
   InstrLine("sw", <<X(1), Mem(Dec(-4), X(2))>>),
   InstrLine("add", <<X(1), X(2)>>),
   InstrLine("beq", <<X(1), Name("q"), Name("c")>>),
   InstrLine("lw", <<X(1), X(2)>>),
   InstrLine("mul", <<X(1), X(2), X(3)>>)}

ProgramSources == UNION {[1 .. n -> ProgramLines] : n \in {0, 2, 4}}

McSources == SingleSources \cup ProgramSources
=============================================================================
