------------------------------ MODULE SimpleOOO ------------------------------
(***************************************************************************)
(* The out-of-order core of src/src/simple_ooo/: SimpleOOO::tick() with    *)
(* the reservation station and the reorder buffer it is built from.        *)
(*                                                                         *)
(* tick() is one sequential pass over the pipeline.  `stage` says where in *)
(* that pass the simulator is; every stage of tick() is an action, and the *)
(* order of the stages within a cycle is the order of the statements:      *)
(*                                                                         *)
(*   IF -> ID -> IS -> DI (the dispatch loop) -> EX -> MEM -> WB -> CM -> UP *)
(*                                                                         *)
(* The remaining values of `stage` are the panics the program can reach.   *)
(***************************************************************************)
EXTENDS CircularBuffer, Alu

CONSTANTS
  MemSize,     \* words of memory (64 in the code)
  InitMems,    \* the memory images load() may have left
  RsSize,      \* reservation stations (8 in the code)
  RobSize      \* reorder buffer slots (16 in the code)

VARIABLES
  mem, regs,
  rat,          \* register alias table: Reg -> Option(Tag)
  pc, branchStall,
  ifId, idRs,   \* latches of the frontend
  rs,           \* station_entries of the reservation station, in order
  scan,         \* the loop index of dispatch(), from 1
  rob,          \* the circular buffer of the reorder buffer
  alu,
  aluMem, memRob,   \* latches of the backend
  stage

frontVars == <<pc, branchStall, ifId, idRs>>
archVars  == <<mem, regs, rat>>
execVars  == <<rs, scan, rob, alu>>
backVars  == <<aluMem, memRob>>
vars == <<frontVars, archVars, execVars, backVars, stage>>

Addr == 0 .. MemSize - 1
Tag  == Slots(RobSize)

-----------------------------------------------------------------------------
(* What flows through the pipeline. *)

\* Operand::Ready(v) and Operand::Waiting(t)
Operand    == [wait : Option(Tag), val : Word]
Ready(v)   == [wait |-> {}, val |-> v]
Waiting(t) == [wait |-> {t}, val |-> 0]
IsReady(x) == x.wait = {}

Fetched  == [pc : Word, word : Word]
Decoded  == [pc : Word, instr : Instr]
RsEntry  == [tag : Tag, op : Opcode, pc : Word, imm : Word,
             rs1 : Operand, rs2 : Operand, ready : BOOLEAN]
\* An entry is ready once it has a result, and only then.
RobEntry == {e \in [pc : Word, rd : Reg, format : Format, result : Option(Word),
                    ready : BOOLEAN] : e.ready <=> e.result # {}}
Result   == [tag : Tag, instr : RsEntry, result : Word]

Running == {"IF", "ID", "IS", "DI", "EX", "MEM", "WB", "CM", "UP"}
Panic   == {"FetchFault", "BadWord", "RobFull", "RsFull", "MemFault"}

ASSUME OooAssumption ==
  /\ MemSize \in Nat /\ 0 < MemSize /\ MemSize < WordMod
  /\ InitMems \subseteq [Addr -> Word]
  /\ RsSize \in Nat \ {0}
  /\ RobSize \in Nat \ {0}
  /\ Decode[0] = {}

Init ==
  /\ mem \in InitMems
  /\ regs = [r \in Reg |-> 0]
  /\ rat = [r \in Reg |-> {}]
  /\ pc = 0
  /\ branchStall = FALSE
  /\ ifId = EmptyLatch /\ idRs = EmptyLatch
  /\ aluMem = EmptyLatch /\ memRob = EmptyLatch
  /\ rs = <<>>
  /\ scan = 1
  /\ rob = EmptyBuffer(RobSize)
  /\ alu = IdleAlu
  /\ stage = "IF"

-----------------------------------------------------------------------------
(* IF.  The stall condition is evaluated once, before anything else. *)

\* Mutant: off by one, the station stalls only once it is over its capacity.
RsStallLate == Len(rs) > RsSize

RsStall == Len(rs) >= RsSize
StallFrontend == RsStall \/ IsFull(RobSize, rob) \/ branchStall

FetchStalled ==
  /\ stage = "IF"
  /\ StallFrontend
  /\ stage' = "ID"
  /\ UNCHANGED <<frontVars, archVars, execVars, backVars>>

Fetch ==
  /\ stage = "IF"
  /\ ~StallFrontend
  /\ pc \in Addr
  /\ ifId' = Staged(ifId, [pc |-> pc, word |-> mem[pc]])
  /\ pc' = pc + 1
  /\ stage' = "ID"
  /\ UNCHANGED <<branchStall, idRs, archVars, execVars, backVars>>

\* The slice mem[pc..pc + 4] is out of bounds.
FetchFault ==
  /\ stage = "IF"
  /\ ~StallFrontend
  /\ pc \notin Addr
  /\ stage' = "FetchFault"
  /\ UNCHANGED <<frontVars, archVars, execVars, backVars>>

-----------------------------------------------------------------------------
(* ID *)

DecodeBubble ==
  /\ stage = "ID"
  /\ ifId.active = {}
  /\ stage' = "IS"
  /\ UNCHANGED <<frontVars, archVars, execVars, backVars>>

DecodeInstr ==
  /\ stage = "ID"
  /\ \E f \in ifId.active : \E instr \in Decode[f.word] :
       idRs' = Staged(idRs, [pc |-> f.pc, instr |-> instr])
  /\ ifId' = Taken(ifId)
  /\ stage' = "IS"
  /\ UNCHANGED <<pc, branchStall, archVars, execVars, backVars>>

\* Mutant: a zero word is like any other word that does not decode.
DecodeZeroUnchecked ==
  /\ stage = "ID"
  /\ \E f \in ifId.active : f.word = 0
  /\ stage' = "BadWord"
  /\ UNCHANGED <<frontVars, archVars, execVars, backVars>>

\* A zero word ends tick() here: no later stage runs and no latch advances, so
\* the word staged by this cycle's fetch is overwritten by the next fetch.
DecodeZero ==
  /\ stage = "ID"
  /\ \E f \in ifId.active : f.word = 0
  /\ ifId' = Taken(ifId)
  /\ stage' = "IF"
  /\ UNCHANGED <<pc, branchStall, idRs, archVars, execVars, backVars>>

DecodePanic ==
  /\ stage = "ID"
  /\ \E f \in ifId.active : f.word # 0 /\ Decode[f.word] = {}
  /\ stage' = "BadWord"
  /\ UNCHANGED <<frontVars, archVars, execVars, backVars>>

-----------------------------------------------------------------------------
(* IS *)

\* is_tag_ready(): the result of an occupied slot, None while it is pending.
TagResult(b, t) == UNION {e.result : e \in b.data[t]}

\* Mutant: the register file is read without looking at the RAT.
ResolveIgnoringRat(b, r) == Ready(regs[r])

\* Mutant: an aliased operand always waits, whether or not its producer is done.
ResolveAlwaysWaiting(b, r) == IF rat[r] = {} THEN Ready(regs[r]) ELSE Waiting(The(rat[r]))

\* resolve_operands(), against the reorder buffer b
Resolve(b, r) ==
  IF rat[r] = {} THEN Ready(regs[r])
  ELSE LET t == The(rat[r])
       IN IF TagResult(b, t) = {} THEN Waiting(t) ELSE Ready(The(TagResult(b, t)))

NewRobEntry(d) ==
  [pc |-> d.pc, rd |-> d.instr.rd, format |-> FormatOf(d.instr.op),
   result |-> {}, ready |-> FALSE]

\* Mutant: readiness looks at the first operand only.
NewRsEntryHalfReady(tag, d, rs1, rs2) ==
  [tag |-> tag, op |-> d.instr.op, pc |-> d.pc, imm |-> d.instr.imm,
   rs1 |-> rs1, rs2 |-> rs2, ready |-> IsReady(rs1)]

NewRsEntry(tag, d, rs1, rs2) ==
  [tag |-> tag, op |-> d.instr.op, pc |-> d.pc, imm |-> d.instr.imm,
   rs1 |-> rs1, rs2 |-> rs2, ready |-> IsReady(rs1) /\ IsReady(rs2)]

IssueBubble ==
  /\ stage = "IS"
  /\ idRs.active = {}
  /\ stage' = "DI"
  /\ UNCHANGED <<frontVars, archVars, execVars, backVars>>

Issue ==
  /\ stage = "IS"
  /\ ~IsFull(RobSize, rob)
  /\ ~RsStall
  /\ \E d \in idRs.active :
       LET tag == rob.tail
           b   == Push(RobSize, rob, NewRobEntry(d))
           rd  == d.instr.rd
       IN /\ branchStall' = (branchStall \/ IsBranch(d.instr.op))
          /\ rob' = b
          /\ rat' = IF WritesRd(FormatOf(d.instr.op)) /\ rd # 0
                      THEN [rat EXCEPT ![rd] = {tag}] ELSE rat
          /\ rs' = Append(rs, NewRsEntry(tag, d, Resolve(b, d.instr.rs1),
                                                 Resolve(b, d.instr.rs2)))
  /\ idRs' = Taken(idRs)
  /\ stage' = "DI"
  /\ UNCHANGED <<pc, ifId, mem, regs, scan, alu, backVars>>

IssueRobFull ==
  /\ stage = "IS"
  /\ idRs.active # {}
  /\ IsFull(RobSize, rob)
  /\ stage' = "RobFull"
  /\ UNCHANGED <<frontVars, archVars, execVars, backVars>>

IssueRsFull ==
  /\ stage = "IS"
  /\ idRs.active # {}
  /\ ~IsFull(RobSize, rob)
  /\ RsStall
  /\ stage' = "RsFull"
  /\ UNCHANGED <<frontVars, archVars, execVars, backVars>>

-----------------------------------------------------------------------------
(* DI: the loop of dispatch(), one iteration per action. *)

DispatchSkip ==
  /\ stage = "DI"
  /\ scan \in DOMAIN rs
  /\ ~rs[scan].ready
  /\ scan' = scan + 1
  /\ UNCHANGED <<frontVars, archVars, rs, rob, alu, backVars, stage>>

\* A ready entry that finds no pipe has already been removed; it is put back at
\* the front, ahead of older entries, and the loop goes on.
DispatchBlocked ==
  /\ stage = "DI"
  /\ scan \in DOMAIN rs
  /\ rs[scan].ready
  /\ FreePipes(alu, rs[scan].op) = {}
  /\ rs' = Cons(rs[scan], RemoveAt(rs, scan))
  /\ scan' = scan + 1
  /\ UNCHANGED <<frontVars, archVars, rob, alu, backVars, stage>>

Dispatch ==
  /\ stage = "DI"
  /\ scan \in DOMAIN rs
  /\ rs[scan].ready
  /\ FreePipes(alu, rs[scan].op) # {}
  /\ rs' = RemoveAt(rs, scan)
  /\ alu' = Enqueued(alu, rs[scan])
  /\ scan' = 1
  /\ stage' = "EX"
  /\ UNCHANGED <<frontVars, archVars, rob, backVars>>

DispatchNone ==
  /\ stage = "DI"
  /\ scan > Len(rs)
  /\ scan' = 1
  /\ stage' = "EX"
  /\ UNCHANGED <<frontVars, archVars, rs, rob, alu, backVars>>

-----------------------------------------------------------------------------
(* EX, MEM and WB *)

\* ReservationStation::update(): the result v of tag t reaches every operand
\* that waits for it, and an entry with both operands becomes ready.
Delivered(x, t, v) == IF t \in x.wait THEN Ready(v) ELSE x

\* Mutant: a delivered operand does not make the entry ready.
WokenNeverReady(e, t, v) ==
  [e EXCEPT !.rs1 = Delivered(e.rs1, t, v), !.rs2 = Delivered(e.rs2, t, v)]

Woken(e, t, v) ==
  LET rs1 == Delivered(e.rs1, t, v)
      rs2 == Delivered(e.rs2, t, v)
  IN [e EXCEPT !.rs1 = rs1, !.rs2 = rs2, !.ready = @ \/ (IsReady(rs1) /\ IsReady(rs2))]

RsUpdated(t, v) == [j \in DOMAIN rs |-> Woken(rs[j], t, v)]

\* ReorderBuffer::update().  On an empty slot the code panics; NoLostProducer
\* says that does not happen.
RobUpdated(t, v) ==
  [rob EXCEPT !.data[t] = {[e EXCEPT !.result = {v}, !.ready = TRUE] : e \in @}]

\* Mutant: the reorder buffer is not told.
BroadcastRsOnly(t, v) == rs' = RsUpdated(t, v) /\ UNCHANGED rob

\* The broadcast on the common data bus: the two updates are always paired.
Broadcast(t, v) ==
  /\ rs' = RsUpdated(t, v)
  /\ rob' = RobUpdated(t, v)

ExecuteNone ==
  /\ stage = "EX"
  /\ ~SomeFinishes(alu)
  /\ alu' = TickIdle(alu)
  /\ stage' = "MEM"
  /\ UNCHANGED <<frontVars, archVars, rs, scan, rob, backVars>>

\* Mutant: the frontend is not released.
RedirectKeepingStall(res) == pc' = res.result /\ UNCHANGED branchStall

\* A resolved branch sets the program counter and lets the frontend go on.
Redirect(res) == pc' = res.result /\ branchStall' = FALSE

AluResult(e) ==
  [tag |-> e.tag, instr |-> e,
   result |-> Compute(e.op, e.pc, e.rs1.val, e.rs2.val, e.imm)]

Execute ==
  /\ stage = "EX"
  /\ \E i \in DOMAIN alu.inProgress :
       LET res == AluResult(alu.inProgress[i].instr)
       IN /\ Finishes(alu, i)
          /\ alu' = TickFinish(alu, i)
          /\ IF IsBranch(res.instr.op)
               THEN Redirect(res)
               ELSE UNCHANGED <<pc, branchStall>>
          /\ IF IsLoad(res.instr.op)
               THEN UNCHANGED <<rs, rob>>
               ELSE Broadcast(res.tag, res.result)
          /\ aluMem' = Staged(aluMem, res)
  /\ stage' = "MEM"
  /\ UNCHANGED <<ifId, idRs, archVars, scan, memRob>>

MemBubble ==
  /\ stage = "MEM"
  /\ aluMem.active = {}
  /\ stage' = "WB"
  /\ UNCHANGED <<frontVars, archVars, execVars, backVars>>

AccessesMemory(op) == IsLoad(op) \/ IsStore(op)

\* Mutant: the first operand is stored instead of the second.
MemAfterSwapped(r) ==
  IF IsStore(r.instr.op) THEN [mem EXCEPT ![r.result] = r.instr.rs1.val] ELSE mem

MemAfter(r) ==
  IF IsStore(r.instr.op) THEN [mem EXCEPT ![r.result] = r.instr.rs2.val] ELSE mem

\* mem_stage(): a load's result is the word read, a store's is 0, any other
\* instruction's goes through.
MemStage ==
  /\ stage = "MEM"
  /\ \E r \in aluMem.active :
       /\ AccessesMemory(r.instr.op) => r.result \in Addr
       /\ memRob' = Staged(memRob, [r EXCEPT !.result =
                      CASE IsLoad(r.instr.op)  -> mem[r.result]
                        [] IsStore(r.instr.op) -> 0
                        [] OTHER               -> r.result])
       /\ mem' = MemAfter(r)
  /\ aluMem' = Taken(aluMem)
  /\ stage' = "WB"
  /\ UNCHANGED <<frontVars, regs, rat, execVars>>

MemFault ==
  /\ stage = "MEM"
  /\ \E r \in aluMem.active : AccessesMemory(r.instr.op) /\ r.result \notin Addr
  /\ stage' = "MemFault"
  /\ UNCHANGED <<frontVars, archVars, execVars, backVars>>

\* Only loads still have a result to broadcast here.
WriteBackLoad ==
  /\ stage = "WB"
  /\ \E r \in memRob.active : IsLoad(r.instr.op) /\ Broadcast(r.tag, r.result)
  /\ memRob' = Taken(memRob)
  /\ stage' = "CM"
  /\ UNCHANGED <<frontVars, archVars, scan, alu, aluMem>>

WriteBackOther ==
  /\ stage = "WB"
  /\ \A r \in memRob.active : ~IsLoad(r.instr.op)
  /\ memRob' = Taken(memRob)
  /\ stage' = "CM"
  /\ UNCHANGED <<frontVars, archVars, execVars, aluMem>>

-----------------------------------------------------------------------------
(* CM: release() and the commit; UP: the latches advance. *)

HeadIsReady == ~IsEmpty(rob) /\ \E e \in HeadSlot(rob) : e.ready

CommitNone ==
  /\ stage = "CM"
  /\ ~HeadIsReady
  /\ stage' = "UP"
  /\ UNCHANGED <<frontVars, archVars, execVars, backVars>>

\* Mutant: the alias is cleared whichever instruction it names.
AliasAfterCommitCleared(rd, tag) == {}

\* The alias of rd is cleared only if it still names this instruction.
AliasAfterCommit(rd, tag) == rat[rd] \ {tag}

Commit ==
  /\ stage = "CM"
  /\ ~IsEmpty(rob)
  /\ \E e \in HeadSlot(rob) :
       /\ e.ready
       /\ IF WritesRd(e.format) /\ e.rd # 0
            THEN /\ regs' = [regs EXCEPT ![e.rd] = The(e.result)]
                 /\ rat' = [rat EXCEPT ![e.rd] = AliasAfterCommit(e.rd, rob.head)]
            ELSE UNCHANGED <<regs, rat>>
  /\ rob' = Pop(RobSize, rob)
  /\ stage' = "UP"
  /\ UNCHANGED <<frontVars, mem, rs, scan, alu, backVars>>

AdvanceLatches ==
  /\ stage = "UP"
  /\ ifId' = Advanced(ifId) /\ idRs' = Advanced(idRs)
  /\ aluMem' = Advanced(aluMem) /\ memRob' = Advanced(memRob)
  /\ stage' = "IF"
  /\ UNCHANGED <<pc, branchStall, archVars, execVars>>

\* A panic ends the process.
Panicked ==
  /\ stage \in Panic
  /\ UNCHANGED vars

Next ==
  \/ FetchStalled \/ Fetch \/ FetchFault
  \/ DecodeBubble \/ DecodeInstr \/ DecodeZero \/ DecodePanic
  \/ IssueBubble \/ Issue \/ IssueRobFull \/ IssueRsFull
  \/ DispatchSkip \/ DispatchBlocked \/ Dispatch \/ DispatchNone
  \/ ExecuteNone \/ Execute
  \/ MemBubble \/ MemStage \/ MemFault
  \/ WriteBackLoad \/ WriteBackOther
  \/ CommitNone \/ Commit
  \/ AdvanceLatches
  \/ Panicked

Spec == Init /\ [][Next]_vars

\* The owner of the core calls tick() in a loop.
FairSpec == Spec /\ WF_vars(Next)

-----------------------------------------------------------------------------
(* Properties *)

TypeOK ==
  /\ mem \in [Addr -> Word]
  /\ regs \in [Reg -> Word]
  /\ rat \in [Reg -> Option(Tag)]
  /\ pc \in Word
  /\ branchStall \in BOOLEAN
  /\ ifId \in LatchOf(Fetched)
  /\ idRs \in LatchOf(Decoded)
  /\ rs \in Seq(RsEntry)
  /\ scan \in Nat \ {0}
  /\ rob \in BufferOf(RobSize, RobEntry)
  /\ alu \in AluOf(RsEntry)
  /\ aluMem \in LatchOf(Result)
  /\ memRob \in LatchOf(Result)
  /\ stage \in Running \cup Panic

Rank(t) == AgeRank(RobSize, rob, t)

\* The in-flight instructions that will write r at commit.
Writers(r) ==
  {t \in Tag : \E e \in rob.data[t] : WritesRd(e.format) /\ e.rd = r /\ r # 0}

\* An alias names the youngest in-flight writer of its register, and there is
\* none exactly when no writer is in flight, x0 never having one.  A commit that
\* cleared a younger alias, a B- or S-type instruction that set one, or a tag
\* reused while an alias still names it would break this.
RatTracksYoungestWriter ==
  \A r \in Reg :
    rat[r] = {t \in Writers(r) : \A u \in Writers(r) : Rank(u) <= Rank(t)}

\* Instruction t has been issued and has no result yet.
Pending(t) == \E e \in rob.data[t] : e.result = {}

Waits(e) == e.rs1.wait \cup e.rs2.wait

\* Whatever a station entry waits for is in flight, older and not done, so that
\* its broadcast is still to come; an entry is dispatchable as soon as it waits
\* for nothing.  An update on one side only (ROB or RS), or an operand resolved
\* between the two, would leave an entry waiting for ever.
NoLostProducer ==
  \A i \in DOMAIN rs :
    /\ rs[i].ready <=> Waits(rs[i]) = {}
    /\ \A t \in Waits(rs[i]) : Pending(t) /\ Rank(t) < Rank(rs[i].tag)

\* Nothing reaches the ALU or the MEM stage with an unresolved operand: the
\* panics of get_inputs() and of mem_stage() on a Waiting operand do not occur.
OperandsReadyInExecution ==
  /\ \A i \in DOMAIN alu.inProgress : Waits(alu.inProgress[i].instr) = {}
  /\ \A r \in aluMem.staged \cup aluMem.active : Waits(r.instr) = {}

\* The places where the instruction with tag t can still be on its way to a result.
Homes(t) ==
  {<<"rs", i>> : i \in {j \in DOMAIN rs : rs[j].tag = t}}
  \cup {<<"alu", i>> : i \in {j \in DOMAIN alu.inProgress : alu.inProgress[j].instr.tag = t}}
  \cup {<<"aluMem", r.result>> : r \in {x \in aluMem.staged \cup aluMem.active :
                                        x.tag = t /\ IsLoad(x.instr.op)}}
  \cup {<<"memRob", r.result>> : r \in {x \in memRob.staged \cup memRob.active :
                                        x.tag = t /\ IsLoad(x.instr.op)}}

\* Every pending instruction is in exactly one place and a finished one or a
\* free slot in none, so no result is lost, produced twice, or delivered to a
\* tag that was reused.
OneHome ==
  \A t \in Tag : IF Pending(t) THEN \E h \in Homes(t) : Homes(t) = {h} ELSE Homes(t) = {}

\* A pipe is in use exactly when one operation occupies it, and no operation gets
\* past the age at which tick() can still return it.
AluKeepsUp ==
  /\ \A p \in PipeIndex :
       LET occupants == {i \in DOMAIN alu.inProgress : alu.inProgress[i].pipe = p}
       IN IF alu.usage[p] THEN \E i \in occupants : occupants = {i} ELSE occupants = {}
  /\ \A i, j \in DOMAIN alu.inProgress :
       i < j => alu.inProgress[j].age < alu.inProgress[i].age
  /\ \A i \in DOMAIN alu.inProgress : alu.inProgress[i].age < Latency

\* The frontend is only held by a branch that will still resolve: a stall left
\* behind by a resolved branch would stop fetching for good.
StallHasBranch ==
  branchStall =>
    \/ \E i \in DOMAIN rs : IsBranch(rs[i].op)
    \/ \E i \in DOMAIN alu.inProgress : IsBranch(alu.inProgress[i].instr.op)

\* The reorder buffer's ring is sound (see CircularBuffer).
RobWindow == WindowInv(RobSize, rob)

\* Fetched and not issued yet: what the frontend still delivers once it stalls.
InFrontend ==
  Cardinality(ifId.staged) + Cardinality(ifId.active)
    + Cardinality(idRs.staged) + Cardinality(idRs.active)

\* The stall of a full station or reorder buffer comes late, but never by more than
\* two instructions: with two slots held back neither could overflow.
SkidBound ==
  /\ Len(rs) + InFrontend <= RsSize + 2
  /\ rob.size + InFrontend <= RobSize + 2

Failed == stage \in Panic

\* Every issued instruction is eventually committed (or the program panics).
EveryIssueCommits ==
  \A t \in Tag : rob.data[t] # {} ~> (rob.data[t] = {} \/ Failed)

\* The frontend never stalls for good.
StallsEnd == StallFrontend ~> (~StallFrontend \/ Failed)

-----------------------------------------------------------------------------
(* What the comments of src/src/simple_ooo/mod.rs say and the code does not do. *)

\* "Stall the frontend if the RS or ROB are full. This models backpressure from the
\* backend: we can't issue new instructions if there is nowhere to put them" (lines
\* 176-178): the backpressure keeps both from overflowing.
BackpressureHolds == stage \notin {"RsFull", "RobFull"}
=============================================================================
