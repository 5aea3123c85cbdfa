--------------------------------- MODULE Alu ---------------------------------
(***************************************************************************)
(* The pipelined ALU of src/src/alu.rs as operators on a record:           *)
(*   inProgress  the operations in the ALU, in the order they entered,     *)
(*               each with its age in cycles and the pipe it occupies      *)
(*   usage       resource_usage: which pipes are in use                    *)
(* Pipes[p] is the set of functional unit kinds of pipe p.  The instruction*)
(* an operation carries is opaque to the ALU apart from its opcode.        *)
(***************************************************************************)
EXTENDS Isa, Sequences, SequencesExt

CONSTANT Pipes   \* sequence of sets of functional unit kinds

\* get_instr_execution_latency() is 2 for every opcode.
Latency == 2

PipeIndex == 1 .. Len(Pipes)

Operation(I) == [instr : I, age : Nat, pipe : PipeIndex]
AluOf(I)     == [inProgress : Seq(Operation(I)), usage : [PipeIndex -> BOOLEAN]]

IdleAlu == [inProgress |-> <<>>, usage |-> [p \in PipeIndex |-> FALSE]]

\* pipe_supports()
PipeSupports(p, op) == \E kind \in Pipes[p] : KindSupports(kind, op)

\* The pipes try_enqueue() can put an operation in; it fails when there is none.
FreePipes(a, op) == {p \in PipeIndex : ~a.usage[p] /\ PipeSupports(p, op)}

FirstPipe(a, op) == CHOOSE p \in FreePipes(a, op) : \A q \in FreePipes(a, op) : p <= q

\* try_enqueue(), when it succeeds: the first free pipe is taken.
Enqueued(a, instr) ==
  [inProgress |-> Append(a.inProgress,
                         [instr |-> instr, age |-> 0, pipe |-> FirstPipe(a, instr.op)]),
   usage      |-> [a.usage EXCEPT ![FirstPipe(a, instr.op)] = TRUE]]

\* tick() removes the operation it records last.  With a latency of 2 that is
\* the first one whose age is 1 or 2: recording it raises max_age to its age
\* after the increment, at least 2, and a later one would have to be older than
\* that and not over its latency.
Eligible(a, i) == 0 < a.inProgress[i].age /\ a.inProgress[i].age <= Latency

Finishes(a, i) ==
  /\ i \in DOMAIN a.inProgress
  /\ Eligible(a, i)
  /\ \A j \in 1 .. i - 1 : ~Eligible(a, j)

SomeFinishes(a) == \E i \in DOMAIN a.inProgress : Eligible(a, i)

\* tick() ages every operation, finished or not.
Aged(o) == [instr |-> o.instr, age |-> o.age + 1, pipe |-> o.pipe]

AgedAll(a) == [j \in DOMAIN a.inProgress |-> Aged(a.inProgress[j])]

TickIdle(a) == [inProgress |-> AgedAll(a), usage |-> a.usage]

\* Mutant: the pipe of the finished operation stays in use.
TickFinishHoldingPipe(a, i) == [inProgress |-> RemoveAt(AgedAll(a), i), usage |-> a.usage]

\* tick() when operation i finishes: it leaves the ALU and its pipe is free.
TickFinish(a, i) ==
  [inProgress |-> RemoveAt(AgedAll(a), i),
   usage      |-> [a.usage EXCEPT ![a.inProgress[i].pipe] = FALSE]]

ASSUME AluAssumption == Pipes \in Seq(SUBSET FuncUnitKind)
=============================================================================
