----------------------------- MODULE MCSimpleOOO -----------------------------
(***************************************************************************)
(* Instances of SimpleOOO for TLC: small memories holding every program of *)
(* a given length over a short list of instructions.                       *)
(***************************************************************************)
EXTENDS SimpleOOO, OooPrograms

CoreList == <<
  I("Addi", 1, 0, 2),
  R("Add", 2, 1, 1),
  R("Sub", 1, 2, 1),
  I("Lw", 2, 1, 8),
  S("Sw", 0, 1, 9),
  S("Bne", 1, 2, Neg(1)),
  S("Beq", 0, 0, 0)>>

CoreDecode == Encoding(CoreList)
\* Every program of three words, a branch to itself, and data from cell 8 on.
LoopingMems == Memories(3, 1 .. 7, <<7, 0, 0, 0, 0, 5, 3>>)

\* Longer programs that nothing holds back: they run into zero words, a word that
\* encodes nothing, addresses outside memory, or the end of memory.
PanickingMems == Memories(7, {0, 2, 4}, <<8, 0, 0>>) \cup Memories(6, {1, 2, 4}, <<0, 0, 0, 0>>)

CoreMems == LoopingMems \cup PanickingMems

\* The capacities of build_default() and a program of independent additions.
DefaultMems == {[a \in 0 .. 63 |-> IF a < 30 THEN 1 ELSE 0]}
DefaultDecode == [w \in 0 .. 127 |-> IF w = 1 THEN {I("Addi", 1, 0, 4)} ELSE {}]
=============================================================================
