----------------------------- MODULE MCFiveStage -----------------------------
(***************************************************************************)
(* Instances of the in-order core: every program of a given length over a  *)
(* short list of instructions and the word that encodes none.              *)
(***************************************************************************)
EXTENDS FiveStageDriver, OooPrograms

FivePipes == <<{"IntAlu", "LoadStore", "Branch"}>>
AllPolicies == Policy

\* What run_five_stage() passes to new().
DriverPolicies == {[hazard |-> "StallOnLoad", forwarding |-> "FullForwarding"]}

\* The word that encodes nothing but has x1 where an instruction would have rs1.
OddWord == 9

\* The rs1 and rs2 fields of each word; of another word that encodes nothing, x0 twice.
FieldsOf(decode) ==
  [w \in DOMAIN decode |->
     IF w = OddWord THEN {0, 1}
     ELSE IF decode[w] = {} THEN {0} ELSE UNION {{i.rs1, i.rs2} : i \in decode[w]}]

FiveList == <<
  I("Addi", 1, 2, 3),
  R("Sub", 2, 1, 2),
  I("Lw", 1, 0, 13),
  S("Sw", 0, 1, 14),
  R("Add", 2, 1, 1),
  I("Lw", 1, 2, 13),
  S("Sw", 0, 1, 3)>>
FiveDecode == Encoding(FiveList)
FiveRegs == FieldsOf(FiveDecode)

\* Straight-line programs without adjacent instructions, zero words to drain the
\* pipeline, and two cells of data.
SpacedMems ==
  {m \in Memories(7, 0 .. 5, <<0, 0, 0, 0, 0, 0, 7, 9>>) :
     \A a \in 0 .. 5 : m[a] = 0 \/ m[a + 1] = 0}

\* Every program of four words, loads from outside memory among them.
DenseMems == Memories(4, 0 .. 6, <<0, 0, 0, 0, 0, 0, 0, 0, 0, 7, 9>>)

\* Programs with stores into themselves and with the odd word, behind a load too.
OddMems ==
  {m \in Memories(5, {0, 2, 3, 7, OddWord}, <<0, 0, 0, 0, 0, 0, 0, 0, 7, 9>>) :
     \A a \in 0 .. 5 : FiveDecode[m[a]] = {} \/ FiveDecode[m[a + 1]] = {}}

FiveMems == SpacedMems \cup DenseMems \cup OddMems

\* A load and the instruction that uses it.
LoadUseMems == {MemoryOf(<<3, 2, 0, 0, 0, 0, 0, 0, 0, 0, 0, 0, 0, 5, 0>>)}
=============================================================================
