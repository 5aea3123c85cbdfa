--------------------------- MODULE MCOooRefinement ---------------------------
(***************************************************************************)
(* Instances of OooRefinement: families of programs, as in MCSimpleOOO.    *)
(***************************************************************************)
EXTENDS OooRefinement, OooPrograms

IsaList == <<
  I("Addi", 1, 2, 3),
  R("Sub", 2, 1, 2),
  I("Lw", 2, 0, 9),
  S("Sw", 0, 1, 10),
  S("Sw", 0, 2, 8),
  S("Beq", 0, 0, 0),
  I("Addi", 1, 1, Neg(1)),
  R("Add", 2, 2, 1),
  S("Bne", 1, 0, Neg(1)),
  S("Bgeu", 2, 1, Neg(2)),
  I("Addi", 1, 1, 5),
  S("Bne", 1, 2, Neg(1)),
  S("Blt", 2, 1, 2),
  I("Jalr", 2, 1, 3)>>
IsaDecode == Encoding(IsaList)

\* Straight-line code up to a branch to itself.  No two stores go to the same cell,
\* and no load reads a stored one.
StraightMems ==
  {m \in Memories(4, 1 .. 5, <<6, 0, 0, 0, 0, 11, 12>>) :
     \A a, b \in 0 .. 3 : a # b /\ m[a] \in {4, 5} => m[a] # m[b]}

\* Loops: three instructions, a backward branch, then zero words.
LoopMems ==
  {m \in Memories(4, {1, 3, 5, 7, 8, 9, 10}, <<0, 0, 0, 0, 0, 15, 15>>) :
     m[3] \in {9, 10} /\ \A a \in 0 .. 2 : m[a] \notin {9, 10}}

\* Branches and jumps anywhere, next to one another and in the words after a branch.
BranchyMems == Memories(4, {2, 6, 11, 12, 13, 14}, <<6, 0, 0, 0, 0, 0, 0>>)

IsaSequentialMems == StraightMems \cup LoopMems
IsaMems == IsaSequentialMems \cup BranchyMems

\* A store that waits for its data and a younger load from the same cell.
MemoryOrderList == <<
  I("Lw", 1, 0, 9),
  R("Add", 2, 1, 1),
  S("Sw", 0, 2, 8),
  I("Lw", 3, 0, 8),
  S("Beq", 0, 0, 0)>>
MemoryOrderDecode == Encoding(MemoryOrderList)
MemoryOrderMems == {MemoryOf(<<1, 2, 3, 4, 5, 0, 0, 0, 0, 7>>)}

\* A jump to itself, and an instruction further on (more than once: the word after a zero word is skipped).
JumpList == <<J("Jal", 1, 0), I("Addi", 2, 0, 4)>>
JumpDecode == Encoding(JumpList)
JumpMems == {MemoryOf(<<1, 0, 0, 0, 0, 2, 2, 2, 0, 0, 0, 0>>)}
=============================================================================
