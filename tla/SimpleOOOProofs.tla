--------------------------- MODULE SimpleOOOProofs ---------------------------
(***************************************************************************)
(* Safety of the out-of-order core, for every memory, program, register    *)
(* count, pipe configuration and capacity.                                 *)
(*                                                                         *)
(* Part one: its states are typed, its ring is sound, a stall comes at     *)
(* most two instructions late and is held by a branch, and the ALU never   *)
(* falls behind.                                                           *)
(*                                                                         *)
(* Part two: aliases name the youngest writers, waiting entries wait for   *)
(* producers that will still broadcast, and no unresolved operand reaches  *)
(* the ALU.  The three hold together: an alias is a sound operand only     *)
(* because it names an instruction in flight, and commit may pop the head  *)
(* only because nothing waits for it.  On top of them, every pending       *)
(* instruction is in exactly one place of the core.                        *)
(***************************************************************************)
EXTENDS SimpleOOO, CommonLemmas, AluProofs

-----------------------------------------------------------------------------
(* Options and latches *)

\* Staging, reading and advancing keep a latch a latch.
LEMMA LatchSound ==
  ASSUME NEW S, NEW l \in LatchOf(S)
  PROVE  /\ \A x \in S : Staged(l, x) \in LatchOf(S)
         /\ Taken(l) \in LatchOf(S)
         /\ Advanced(l) \in LatchOf(S)
         /\ \A x \in l.active : x \in S
BY OptionOfOne DEF LatchOf, Staged, Taken, Advanced, Option

-----------------------------------------------------------------------------
(* Typing of what flows through the pipeline *)

LEMMA WordFacts ==
  /\ 0 \in Word /\ 1 \in Word
  /\ Addr \subseteq Word
  /\ \A a \in Addr : a + 1 \in Word
<1>1. WordMod \in Nat /\ WordMod > 1 /\ MemSize \in Nat /\ MemSize < WordMod
  BY IsaAssumption, OooAssumption
<1>2. QED BY <1>1 DEF Word, Addr

LEMMA OperandFacts ==
  /\ \A v \in Word : Ready(v) \in Operand
  /\ \A t \in Tag : Waiting(t) \in Operand
BY OptionOfOne, WordFacts DEF Ready, Waiting, Operand, Option

\* The result of a slot is an option of a word.
LEMMA TagResultFacts ==
  ASSUME NEW b \in BufferOf(RobSize, RobEntry), NEW t \in Tag
  PROVE  /\ TagResult(b, t) \in Option(Word)
         /\ \A e \in b.data[t] : e \in RobEntry /\ b.data[t] = {e} /\ TagResult(b, t) = e.result
<1>1. b.data[t] \in Option(RobEntry)
  BY DEF BufferOf, Tag
<1>2. CASE b.data[t] = {}
  BY <1>2 DEF TagResult, Option
<1>3. ASSUME NEW e \in b.data[t]
      PROVE  e \in RobEntry /\ b.data[t] = {e} /\ TagResult(b, t) = e.result
  <2>1. e \in RobEntry /\ b.data[t] = {e}
    BY <1>1, <1>3, OptionMember
  <2>2. TagResult(b, t) = UNION {x.result : x \in {e}}
    BY <2>1 DEF TagResult
  <2>3. QED BY <2>1, <2>2
<1>4. QED BY <1>2, <1>3 DEF RobEntry

LEMMA ResolveType ==
  ASSUME TypeOK, NEW b \in BufferOf(RobSize, RobEntry), NEW r \in Reg
  PROVE  Resolve(b, r) \in Operand
<1>1. rat[r] \in Option(Tag) /\ regs[r] \in Word
  BY DEF TypeOK
<1>2. CASE rat[r] = {}
  BY <1>1, <1>2, OperandFacts DEF Resolve
<1>3. CASE rat[r] # {}
  <2>1. The(rat[r]) \in Tag
    BY <1>1, <1>3, TheProperties
  <2>2. TagResult(b, The(rat[r])) \in Option(Word)
    BY <2>1, TagResultFacts
  <2>3. TagResult(b, The(rat[r])) # {} => The(TagResult(b, The(rat[r]))) \in Word
    BY <2>2, TheProperties
  <2>4. QED BY <1>3, <2>1, <2>3, OperandFacts DEF Resolve
<1>4. QED BY <1>2, <1>3

\* A woken entry is an entry, with the tag, the opcode and the like it had.
LEMMA WokenType ==
  ASSUME NEW e \in RsEntry, NEW t \in Tag, NEW v \in Word
  PROVE  /\ Woken(e, t, v) \in RsEntry
         /\ Woken(e, t, v).tag = e.tag /\ Woken(e, t, v).op = e.op
         /\ Woken(e, t, v).rs1 = Delivered(e.rs1, t, v)
         /\ Woken(e, t, v).rs2 = Delivered(e.rs2, t, v)
         /\ Woken(e, t, v).ready = (e.ready \/ (/\ IsReady(Delivered(e.rs1, t, v))
                                                /\ IsReady(Delivered(e.rs2, t, v))))
<1>1. Delivered(e.rs1, t, v) \in Operand /\ Delivered(e.rs2, t, v) \in Operand
  BY OperandFacts DEF Delivered, RsEntry
<1>2. QED BY <1>1 DEF Woken, RsEntry

LEMMA BroadcastType ==
  ASSUME TypeOK, NEW t \in Tag, NEW v \in Word
  PROVE  /\ RsUpdated(t, v) \in Seq(RsEntry)
         /\ Len(RsUpdated(t, v)) = Len(rs)
         /\ \A j \in 1 .. Len(rs) : RsUpdated(t, v)[j] = Woken(rs[j], t, v)
         /\ RobUpdated(t, v) \in BufferOf(RobSize, RobEntry)
<1>1. \A j \in DOMAIN rs : rs[j] \in RsEntry
  BY DEF TypeOK
<1>2. /\ RsUpdated(t, v) \in Seq(RsEntry) /\ Len(RsUpdated(t, v)) = Len(rs)
      /\ \A j \in 1 .. Len(rs) : RsUpdated(t, v)[j] = Woken(rs[j], t, v)
  <2> DEFINE f == RsUpdated(t, v)
  <2>1. rs \in Seq(RsEntry) /\ DOMAIN rs = 1 .. Len(rs)
    BY DEF TypeOK
  <2>2. f = [j \in DOMAIN rs |-> f[j]] /\ \A j \in DOMAIN rs : f[j] = Woken(rs[j], t, v)
    BY DEF RsUpdated
  <2>3. \A j \in DOMAIN rs : f[j] \in RsEntry
    BY <1>1, <2>2, WokenType
  <2>. HIDE DEF f
  <2>4. f \in Seq(RsEntry) /\ Len(f) = Len(rs)
    BY <2>1, <2>2, <2>3, MappedSequence
  <2>5. QED BY <2>1, <2>2, <2>4 DEF f
<1>3. RobUpdated(t, v) \in BufferOf(RobSize, RobEntry)
  <2> DEFINE o == {[e EXCEPT !.result = {v}, !.ready = TRUE] : e \in rob.data[t]}
  <2>1. rob.data[t] \in Option(RobEntry)
    BY DEF TypeOK, BufferOf, Tag
  <2>2. o \in Option(RobEntry)
    <3>1. ASSUME NEW e \in rob.data[t]
          PROVE  [e EXCEPT !.result = {v}, !.ready = TRUE] \in RobEntry
      <4>1. e \in RobEntry
        BY <2>1, OptionMember
      <4>2. {v} \in Option(Word)
        BY OptionOfOne
      <4>3. QED BY <4>1, <4>2 DEF RobEntry
    <3>2. QED BY <2>1, <3>1 DEF Option
  <2>3. RobUpdated(t, v) = [rob EXCEPT !.data = [rob.data EXCEPT ![t] = o]]
    BY DEF RobUpdated, TypeOK, BufferOf, Tag
  <2>4. QED BY <2>2, <2>3, ZenonT(30) DEF TypeOK, BufferOf, Tag
<1>4. QED BY <1>2, <1>3

\* The reorder buffer after a broadcast: same window, same instructions, and the
\* result in slot t only.
LEMMA RobUpdatedFacts ==
  ASSUME TypeOK, NEW t \in Tag, NEW v \in Word, NEW b, b = RobUpdated(t, v)
  PROVE  /\ b.head = rob.head /\ b.tail = rob.tail /\ b.size = rob.size
         /\ \A u \in Tag : u # t => b.data[u] = rob.data[u]
         /\ \A u \in Tag : (b.data[u] = {}) <=> (rob.data[u] = {})
         /\ \A e \in rob.data[t] : \E f \in b.data[t] :
              b.data[t] = {f} /\ f.format = e.format /\ f.rd = e.rd /\ f.result = {v}
<1> DEFINE o == {[e EXCEPT !.result = {v}, !.ready = TRUE] : e \in rob.data[t]}
<1>1. rob \in BufferOf(RobSize, RobEntry) /\ rob.data[t] \in Option(RobEntry)
  BY DEF TypeOK, BufferOf, Tag
<1>2. b = [rob EXCEPT !.data = [rob.data EXCEPT ![t] = o]]
  BY <1>1 DEF RobUpdated
<1>3. (o = {}) <=> (rob.data[t] = {})
  OBVIOUS
<1>4. ASSUME NEW e \in rob.data[t]
      PROVE  \E f \in o : o = {f} /\ f.format = e.format /\ f.rd = e.rd /\ f.result = {v}
  <2> DEFINE f == [e EXCEPT !.result = {v}, !.ready = TRUE]
  <2>1. e \in RobEntry /\ rob.data[t] = {e}
    BY <1>1, OptionMember
  <2>2. o = {f}
    BY <2>1
  <2>3. f.format = e.format /\ f.rd = e.rd /\ f.result = {v}
    BY <2>1 DEF RobEntry
  <2>. HIDE DEF o, f
  <2>4. QED BY <2>2, <2>3
<1>. HIDE DEF o
<1>5. b.head = rob.head /\ b.tail = rob.tail /\ b.size = rob.size
  BY <1>1, <1>2 DEF BufferOf
<1>6. b.data[t] = o /\ \A u \in Tag : u # t => b.data[u] = rob.data[u]
  BY <1>1, <1>2 DEF BufferOf, Tag
<1>7. QED BY <1>3, <1>4, <1>5, <1>6

\* Neither the order nor the occupation of the slots changes in a broadcast.
LEMMA BroadcastWindow ==
  ASSUME TypeOK, RobWindow, NEW t \in Tag, NEW v \in Word, rob' = RobUpdated(t, v)
  PROVE  RobWindow'
<1>1. /\ rob'.head = rob.head /\ rob'.tail = rob.tail /\ rob'.size = rob.size
      /\ \A u \in Tag : (rob'.data[u] = {}) <=> (rob.data[u] = {})
  BY RobUpdatedFacts
<1>2. QED BY <1>1 DEF RobWindow, WindowInv, InWindow, Tag

-----------------------------------------------------------------------------
(* Type correctness, with the window of the reorder buffer it depends on *)

LEMMA InitTyped == ASSUME Init PROVE TypeOK /\ RobWindow
<1>2. /\ RobSize \in Nat \ {0} /\ NumRegs \in Nat \ {0} /\ MemSize \in Nat \ {0}
      /\ InitMems \subseteq [Addr -> Word]
  BY OooAssumption, IsaAssumption
<1>3. rob \in BufferOf(RobSize, RobEntry) /\ RobWindow
  BY <1>2, EmptyBufferSound DEF Init, RobWindow
<1>4. alu \in AluOf(RsEntry)
  BY IdleAluSound DEF Init
<1>5. rs \in Seq(RsEntry)
  BY EmptySeq DEF Init
<1>6. \A S : EmptyLatch \in LatchOf(S)
  BY DEF EmptyLatch, LatchOf, Option
<1>7. rat \in [Reg -> Option(Tag)]
  BY DEF Init, Option
<1>8. mem \in [Addr -> Word] /\ regs \in [Reg -> Word]
  BY <1>2, WordFacts DEF Init
<1>9. pc \in Word /\ branchStall \in BOOLEAN /\ scan \in Nat \ {0}
  <2>1. pc = 0 /\ branchStall = FALSE /\ scan = 1
    BY DEF Init
  <2>2. 0 \in Word /\ 1 \in Nat \ {0}
    BY WordFacts
  <2>3. QED BY <2>1, <2>2
<1>10. stage \in Running \cup Panic
  BY DEF Init, Running
<1>11. /\ ifId \in LatchOf(Fetched) /\ idRs \in LatchOf(Decoded)
       /\ aluMem \in LatchOf(Result) /\ memRob \in LatchOf(Result)
  BY <1>6 DEF Init
<1>12. QED BY <1>3, <1>4, <1>5, <1>7, <1>8, <1>9, <1>10, <1>11 DEF TypeOK

\* The actions that only move on, panic or stutter.
MovesOn ==
  FetchStalled \/ FetchFault \/ DecodeBubble \/ DecodePanic \/ IssueBubble \/ IssueRobFull
  \/ IssueRsFull \/ MemBubble \/ MemFault \/ CommitNone \/ Panicked

LEMMA MovesOnFacts ==
  ASSUME TypeOK, MovesOn \/ UNCHANGED vars
  PROVE  UNCHANGED <<frontVars, archVars, execVars, backVars>> /\ stage' \in Running \cup Panic
BY DEF TypeOK, MovesOn, vars, frontVars, archVars, execVars, backVars, Running, Panic,
  FetchStalled, FetchFault, DecodeBubble, DecodePanic, IssueBubble, IssueRobFull,
  IssueRsFull, MemBubble, MemFault, CommitNone, Panicked

LEMMA FrontTyped ==
  ASSUME TypeOK, RobWindow, Fetch \/ DecodeInstr \/ DecodeZero
  PROVE  TypeOK' /\ RobWindow'
<1>1. CASE Fetch
  <2>1. pc \in Word /\ mem[pc] \in Word /\ pc' \in Word
    BY <1>1, WordFacts DEF Fetch, TypeOK
  <2>2. ifId' \in LatchOf(Fetched)
    BY <1>1, <2>1, LatchSound DEF Fetch, TypeOK, Fetched
  <2>3. QED BY <1>1, <2>1, <2>2 DEF Fetch, TypeOK, RobWindow, archVars, execVars, backVars, Running
<1>2. CASE DecodeInstr
  <2>1. PICK f \in ifId.active : \E instr \in Decode[f.word] :
          idRs' = Staged(idRs, [pc |-> f.pc, instr |-> instr])
    BY <1>2 DEF DecodeInstr
  <2>2. f \in Fetched
    BY <2>1, LatchSound DEF TypeOK
  <2>3. Decode[f.word] \in Option(Instr)
    BY <2>2, IsaAssumption DEF Fetched
  <2>4. PICK instr \in Decode[f.word] : idRs' = Staged(idRs, [pc |-> f.pc, instr |-> instr])
    BY <2>1
  <2>5. [pc |-> f.pc, instr |-> instr] \in Decoded
    BY <2>2, <2>3, OptionMember DEF Fetched, Decoded
  <2>6. idRs' \in LatchOf(Decoded) /\ ifId' \in LatchOf(Fetched)
    BY <1>2, <2>4, <2>5, LatchSound DEF DecodeInstr, TypeOK
  <2>7. QED BY <1>2, <2>6 DEF DecodeInstr, TypeOK, RobWindow, archVars, execVars, backVars, Running
<1>3. CASE DecodeZero
  <2>1. ifId' \in LatchOf(Fetched)
    BY <1>3, LatchSound DEF DecodeZero, TypeOK
  <2>2. QED BY <1>3, <2>1 DEF DecodeZero, TypeOK, RobWindow, archVars, execVars, backVars, Running
<1>4. QED BY <1>1, <1>2, <1>3

\* What an issue works with: the instruction, its tag and its two entries.
LEMMA IssueFacts ==
  ASSUME TypeOK, RobWindow, Issue
  PROVE  \E d \in Decoded :
           LET b == Push(RobSize, rob, NewRobEntry(d))
               e == NewRsEntry(rob.tail, d, Resolve(b, d.instr.rs1), Resolve(b, d.instr.rs2))
           IN  /\ d \in idRs.active
               /\ rob.tail \in Tag /\ rob.data[rob.tail] = {}
               /\ NewRobEntry(d) \in RobEntry /\ b \in BufferOf(RobSize, RobEntry)
               /\ WindowInv(RobSize, b)
               /\ Resolve(b, d.instr.rs1) \in Operand /\ Resolve(b, d.instr.rs2) \in Operand
               /\ e \in RsEntry
               /\ branchStall' = (branchStall \/ IsBranch(d.instr.op))
               /\ rob' = b /\ rs' = Append(rs, e)
               /\ rat' = IF WritesRd(FormatOf(d.instr.op)) /\ d.instr.rd # 0
                           THEN [rat EXCEPT ![d.instr.rd] = {rob.tail}] ELSE rat
<1>1. PICK d \in idRs.active :
        /\ branchStall' = (branchStall \/ IsBranch(d.instr.op))
        /\ rob' = Push(RobSize, rob, NewRobEntry(d))
        /\ rat' = IF WritesRd(FormatOf(d.instr.op)) /\ d.instr.rd # 0
                    THEN [rat EXCEPT ![d.instr.rd] = {rob.tail}] ELSE rat
        /\ rs' = Append(rs, NewRsEntry(rob.tail, d,
                              Resolve(Push(RobSize, rob, NewRobEntry(d)), d.instr.rs1),
                              Resolve(Push(RobSize, rob, NewRobEntry(d)), d.instr.rs2)))
  BY DEF Issue
<1>2. d \in Decoded
  BY <1>1, LatchSound DEF TypeOK
<1>3. d.pc \in Word /\ d.instr \in Instr
  BY <1>2 DEF Decoded
<1>4. /\ d.instr.op \in Opcode /\ d.instr.rd \in Reg /\ d.instr.rs1 \in Reg
      /\ d.instr.rs2 \in Reg /\ d.instr.imm \in Word
  BY <1>3 DEF Instr
<1>5. NewRobEntry(d) \in RobEntry
  <2>1. FormatOf(d.instr.op) \in Format
    BY <1>4, FormatOfType
  <2>2. {} \in Option(Word)
    BY DEF Option
  <2>3. QED BY <1>3, <1>4, <2>1, <2>2 DEF NewRobEntry, RobEntry
<1>6. RobSize \in Nat \ {0} /\ ~IsFull(RobSize, rob)
  BY OooAssumption DEF Issue
<1>. DEFINE b == Push(RobSize, rob, NewRobEntry(d))
<1>7. /\ rob.data[rob.tail] = {} /\ b \in BufferOf(RobSize, RobEntry) /\ WindowInv(RobSize, b)
  BY <1>5, <1>6, PushSound DEF TypeOK, RobWindow
<1>8. rob.tail \in Tag
  BY DEF TypeOK, BufferOf, Tag
<1>9. Resolve(b, d.instr.rs1) \in Operand /\ Resolve(b, d.instr.rs2) \in Operand
  BY <1>4, <1>7, ResolveType
<1>. HIDE DEF b
<1>10. NewRsEntry(rob.tail, d, Resolve(b, d.instr.rs1), Resolve(b, d.instr.rs2)) \in RsEntry
  BY <1>3, <1>4, <1>8, <1>9 DEF NewRsEntry, RsEntry, IsReady
<1>11. QED BY <1>1, <1>2, <1>5, <1>7, <1>8, <1>9, <1>10 DEF b

LEMMA IssueTyped ==
  ASSUME TypeOK, RobWindow, Issue
  PROVE  TypeOK' /\ RobWindow'
<1>1. PICK d \in Decoded :
        LET b == Push(RobSize, rob, NewRobEntry(d))
            e == NewRsEntry(rob.tail, d, Resolve(b, d.instr.rs1), Resolve(b, d.instr.rs2))
        IN  /\ rob.tail \in Tag
            /\ b \in BufferOf(RobSize, RobEntry) /\ WindowInv(RobSize, b)
            /\ e \in RsEntry
            /\ branchStall' = (branchStall \/ IsBranch(d.instr.op))
            /\ rob' = b /\ rs' = Append(rs, e)
            /\ rat' = IF WritesRd(FormatOf(d.instr.op)) /\ d.instr.rd # 0
                        THEN [rat EXCEPT ![d.instr.rd] = {rob.tail}] ELSE rat
  BY IssueFacts
<1>2. rob' \in BufferOf(RobSize, RobEntry) /\ RobWindow'
  BY <1>1 DEF RobWindow
<1>3. rs' \in Seq(RsEntry)
  BY <1>1 DEF TypeOK
<1>4. rat' \in [Reg -> Option(Tag)]
  <2>1. {rob.tail} \in Option(Tag)
    BY <1>1, OptionOfOne
  <2>2. QED BY <1>1, <2>1 DEF TypeOK
<1>5. branchStall' \in BOOLEAN
  BY <1>1, Zenon DEF TypeOK
<1>6. idRs' \in LatchOf(Decoded)
  BY LatchSound DEF Issue, TypeOK
<1>7. UNCHANGED <<pc, ifId, mem, regs, scan, alu, aluMem, memRob>> /\ stage' = "DI"
  BY DEF Issue, backVars
<1>8. QED BY <1>2, <1>3, <1>4, <1>5, <1>6, <1>7 DEF TypeOK, Running

LEMMA DispatchTyped ==
  ASSUME TypeOK, RobWindow, DispatchSkip \/ DispatchBlocked \/ Dispatch \/ DispatchNone
  PROVE  TypeOK' /\ RobWindow'
<1>1. rs \in Seq(RsEntry) /\ DOMAIN rs = 1 .. Len(rs) /\ scan \in Nat \ {0} /\ 1 \in Nat \ {0}
      /\ scan + 1 \in Nat \ {0}
  BY DEF TypeOK
<1>2. UNCHANGED <<pc, branchStall, ifId, idRs, mem, regs, rat, rob, aluMem, memRob>>
      /\ stage' \in Running
  BY DEF TypeOK, DispatchSkip, DispatchBlocked, Dispatch, DispatchNone, frontVars, archVars,
         backVars, Running
<1>3. scan' \in Nat \ {0}
  BY <1>1 DEF DispatchSkip, DispatchBlocked, Dispatch, DispatchNone
<1>4. rs' \in Seq(RsEntry)
  <2>1. CASE DispatchBlocked
    BY <1>1, <2>1, MovedToFrontFacts DEF DispatchBlocked
  <2>2. CASE Dispatch
    BY <1>1, <2>2, RemoveAtFacts DEF Dispatch
  <2>3. CASE DispatchSkip \/ DispatchNone
    BY <1>1, <2>3 DEF DispatchSkip, DispatchNone
  <2>4. QED BY <2>1, <2>2, <2>3
<1>5. alu' \in AluOf(RsEntry)
  <2>1. CASE Dispatch
    <3>1. rs[scan] \in RsEntry /\ FreePipes(alu, rs[scan].op) # {} /\ alu' = Enqueued(alu, rs[scan])
      BY <1>1, <2>1 DEF Dispatch
    <3>2. QED BY <3>1, EnqueuedFacts DEF TypeOK
  <2>2. CASE DispatchBlocked \/ DispatchSkip \/ DispatchNone
    BY <2>2 DEF DispatchBlocked, DispatchSkip, DispatchNone, TypeOK
  <2>3. QED BY <2>1, <2>2
<1>6. QED BY <1>2, <1>3, <1>4, <1>5 DEF TypeOK, RobWindow

LEMMA AluResultType ==
  ASSUME NEW e \in RsEntry
  PROVE  AluResult(e) \in Result
<1>1. /\ e.op \in Opcode /\ e.pc \in Word /\ e.imm \in Word /\ e.tag \in Tag
      /\ e.rs1.val \in Word /\ e.rs2.val \in Word
  BY DEF RsEntry, Operand
<1>2. Compute(e.op, e.pc, e.rs1.val, e.rs2.val, e.imm) \in Word
  BY <1>1, ComputeInWord
<1>3. QED BY <1>1, <1>2 DEF AluResult, Result

LEMMA ExecuteTyped ==
  ASSUME TypeOK, RobWindow, Execute \/ ExecuteNone
  PROVE  TypeOK' /\ RobWindow'
<1>1. CASE ExecuteNone
  <2>1. alu' \in AluOf(RsEntry)
    BY <1>1, TickIdleFacts DEF ExecuteNone, TypeOK
  <2>2. QED BY <1>1, <2>1 DEF ExecuteNone, TypeOK, RobWindow, frontVars, archVars, backVars, Running
<1>2. CASE Execute
  <2>1. PICK i \in DOMAIN alu.inProgress :
          LET res == AluResult(alu.inProgress[i].instr)
          IN /\ alu' = TickFinish(alu, i)
             /\ IF IsBranch(res.instr.op) THEN Redirect(res) ELSE UNCHANGED <<pc, branchStall>>
             /\ IF IsLoad(res.instr.op) THEN UNCHANGED <<rs, rob>>
                  ELSE Broadcast(res.tag, res.result)
             /\ aluMem' = Staged(aluMem, res)
    BY <1>2 DEF Execute
  <2>. DEFINE res == AluResult(alu.inProgress[i].instr)
  <2>2. i \in 1 .. Len(alu.inProgress) /\ alu.inProgress[i] \in Operation(RsEntry)
    BY <2>1 DEF TypeOK, AluOf
  <2>3. res \in Result
    BY <2>2, AluResultType DEF Operation
  <2>4. res.tag \in Tag /\ res.result \in Word
    BY <2>3 DEF Result
  <2>5. alu' \in AluOf(RsEntry)
    BY <2>1, <2>2, TickFinishFacts DEF TypeOK
  <2>6. aluMem' \in LatchOf(Result)
    BY <2>1, <2>3, LatchSound DEF TypeOK
  <2>. HIDE DEF res
  <2>7. pc' \in Word /\ branchStall' \in BOOLEAN
    BY <2>1, <2>4 DEF Redirect, TypeOK, res
  <2>8. rs' \in Seq(RsEntry) /\ rob' \in BufferOf(RobSize, RobEntry) /\ RobWindow'
    <3>1. CASE IsLoad(res.instr.op)
      BY <2>1, <3>1 DEF TypeOK, RobWindow, res
    <3>2. CASE ~IsLoad(res.instr.op)
      <4>1. rs' = RsUpdated(res.tag, res.result) /\ rob' = RobUpdated(res.tag, res.result)
        BY <2>1, <3>2 DEF Broadcast, res
      <4>2. QED BY <2>4, <4>1, BroadcastType, BroadcastWindow
    <3>3. QED BY <3>1, <3>2
  <2>9. UNCHANGED <<ifId, idRs, mem, regs, rat, scan, memRob>> /\ stage' = "MEM"
    BY <1>2 DEF Execute, archVars
  <2>10. QED BY <2>5, <2>6, <2>7, <2>8, <2>9 DEF TypeOK, Running
<1>3. QED BY <1>1, <1>2

LEMMA MemTyped ==
  ASSUME TypeOK, RobWindow, MemStage
  PROVE  TypeOK' /\ RobWindow'
<1>1. PICK r \in aluMem.active :
        /\ AccessesMemory(r.instr.op) => r.result \in Addr
        /\ memRob' = Staged(memRob, [r EXCEPT !.result =
                       CASE IsLoad(r.instr.op)  -> mem[r.result]
                         [] IsStore(r.instr.op) -> 0
                         [] OTHER               -> r.result])
        /\ mem' = MemAfter(r)
  BY DEF MemStage
<1>2. r \in Result
  BY LatchSound DEF TypeOK
<1>3. r.result \in Word /\ r.instr.rs2.val \in Word
  BY <1>2 DEF Result, RsEntry, Operand
<1>. DEFINE v == CASE IsLoad(r.instr.op)  -> mem[r.result]
                   [] IsStore(r.instr.op) -> 0
                   [] OTHER               -> r.result
<1>4. v \in Word
  <2>1. CASE IsLoad(r.instr.op)
    <3>1. v = mem[r.result]
      BY <2>1 DEF IsLoad, IsStore, LoadOps, StoreOps
    <3>2. QED BY <1>1, <2>1, <3>1 DEF AccessesMemory, TypeOK
  <2>2. CASE IsStore(r.instr.op)
    <3>1. v = 0
      BY <2>2 DEF IsLoad, IsStore, LoadOps, StoreOps
    <3>2. QED BY <3>1, WordFacts
  <2>3. CASE ~IsLoad(r.instr.op) /\ ~IsStore(r.instr.op)
    BY <1>3, <2>3
  <2>4. QED BY <2>1, <2>2, <2>3
<1>5. mem' \in [Addr -> Word]
  BY <1>1, <1>3 DEF MemAfter, TypeOK
<1>6. memRob' \in LatchOf(Result)
  <2>. HIDE DEF v
  <2>1. [r EXCEPT !.result = v] \in Result
    BY <1>2, <1>4 DEF Result
  <2>2. memRob' = Staged(memRob, [r EXCEPT !.result = v])
    BY <1>1 DEF v
  <2>3. QED BY <2>1, <2>2, LatchSound DEF TypeOK
<1>7. aluMem' \in LatchOf(Result)
  BY LatchSound DEF MemStage, TypeOK
<1>8. QED BY <1>5, <1>6, <1>7 DEF MemStage, TypeOK, RobWindow, frontVars, execVars, Running

LEMMA WriteBackTyped ==
  ASSUME TypeOK, RobWindow, WriteBackLoad \/ WriteBackOther
  PROVE  TypeOK' /\ RobWindow'
<1>1. memRob' \in LatchOf(Result)
  BY LatchSound DEF WriteBackLoad, WriteBackOther, TypeOK
<1>2. CASE WriteBackLoad
  <2>1. PICK r \in memRob.active : Broadcast(r.tag, r.result)
    BY <1>2 DEF WriteBackLoad
  <2>2. r \in Result
    BY LatchSound DEF TypeOK
  <2>3. r.tag \in Tag /\ r.result \in Word
    BY <2>2 DEF Result
  <2>4. rs' \in Seq(RsEntry) /\ rob' \in BufferOf(RobSize, RobEntry) /\ RobWindow'
    BY <2>1, <2>3, BroadcastType, BroadcastWindow DEF Broadcast
  <2>5. QED BY <1>1, <1>2, <2>4 DEF WriteBackLoad, TypeOK, frontVars, archVars, Running
<1>3. CASE WriteBackOther
  BY <1>1, <1>3 DEF WriteBackOther, TypeOK, RobWindow, frontVars, archVars, execVars, Running
<1>4. QED BY <1>2, <1>3

\* What a commit works with: the head entry and its result.
LEMMA CommitFacts ==
  ASSUME TypeOK, RobWindow, Commit
  PROVE  \E e \in RobEntry :
           /\ rob.head \in Tag /\ rob.data[rob.head] = {e} /\ e.result # {}
           /\ The(e.result) \in Word
           /\ IF WritesRd(e.format) /\ e.rd # 0
                THEN /\ regs' = [regs EXCEPT ![e.rd] = The(e.result)]
                     /\ rat' = [rat EXCEPT ![e.rd] = AliasAfterCommit(e.rd, rob.head)]
                ELSE UNCHANGED <<regs, rat>>
           /\ rob' = Pop(RobSize, rob)
           /\ Pop(RobSize, rob) \in BufferOf(RobSize, RobEntry)
           /\ WindowInv(RobSize, Pop(RobSize, rob))
<1>1. PICK e \in rob.data[rob.head] :
        /\ e.ready
        /\ IF WritesRd(e.format) /\ e.rd # 0
             THEN /\ regs' = [regs EXCEPT ![e.rd] = The(e.result)]
                  /\ rat' = [rat EXCEPT ![e.rd] = AliasAfterCommit(e.rd, rob.head)]
             ELSE UNCHANGED <<regs, rat>>
  BY DEF Commit, HeadSlot
<1>2. rob.head \in Tag /\ rob.data[rob.head] \in Option(RobEntry)
  BY DEF TypeOK, BufferOf, Tag
<1>3. e \in RobEntry /\ rob.data[rob.head] = {e}
  BY <1>2, OptionMember
<1>4. e.result # {} /\ e.result \in Option(Word)
  BY <1>1, <1>3 DEF RobEntry
<1>5. The(e.result) \in Word
  BY <1>4, TheProperties
<1>6. RobSize \in Nat \ {0} /\ ~IsEmpty(rob) /\ rob' = Pop(RobSize, rob)
  BY OooAssumption DEF Commit
<1>7. /\ Pop(RobSize, rob) \in BufferOf(RobSize, RobEntry)
      /\ WindowInv(RobSize, Pop(RobSize, rob))
  BY <1>6, PopSound DEF TypeOK, RobWindow
<1>8. QED BY <1>1, <1>2, <1>3, <1>4, <1>5, <1>6, <1>7

LEMMA CommitTyped ==
  ASSUME TypeOK, RobWindow, Commit
  PROVE  TypeOK' /\ RobWindow'
<1>1. PICK e \in RobEntry :
           /\ The(e.result) \in Word
           /\ IF WritesRd(e.format) /\ e.rd # 0
                THEN /\ regs' = [regs EXCEPT ![e.rd] = The(e.result)]
                     /\ rat' = [rat EXCEPT ![e.rd] = AliasAfterCommit(e.rd, rob.head)]
                ELSE UNCHANGED <<regs, rat>>
           /\ rob' = Pop(RobSize, rob)
           /\ Pop(RobSize, rob) \in BufferOf(RobSize, RobEntry)
           /\ WindowInv(RobSize, Pop(RobSize, rob))
  BY CommitFacts
<1>2. e.rd \in Reg /\ rat[e.rd] \in Option(Tag)
  BY DEF RobEntry, TypeOK
<1>3. AliasAfterCommit(e.rd, rob.head) \in Option(Tag)
  BY <1>2 DEF AliasAfterCommit, Option
<1>4. regs' \in [Reg -> Word] /\ rat' \in [Reg -> Option(Tag)]
  BY <1>1, <1>2, <1>3 DEF TypeOK
<1>5. QED BY <1>1, <1>4 DEF Commit, TypeOK, RobWindow, frontVars, backVars, Running

LEMMA AdvanceTyped ==
  ASSUME TypeOK, RobWindow, AdvanceLatches
  PROVE  TypeOK' /\ RobWindow'
<1>1. /\ ifId' \in LatchOf(Fetched) /\ idRs' \in LatchOf(Decoded)
      /\ aluMem' \in LatchOf(Result) /\ memRob' \in LatchOf(Result)
  BY LatchSound DEF AdvanceLatches, TypeOK
<1>2. QED BY <1>1 DEF AdvanceLatches, TypeOK, RobWindow, archVars, execVars, Running

LEMMA StepTyped ==
  ASSUME TypeOK, RobWindow, [Next]_vars
  PROVE  TypeOK' /\ RobWindow'
<1>1. CASE MovesOn \/ UNCHANGED vars
  BY <1>1, MovesOnFacts DEF TypeOK, RobWindow, frontVars, archVars, execVars, backVars
<1>2. QED
  BY <1>1, FrontTyped, IssueTyped, DispatchTyped, ExecuteTyped, MemTyped, WriteBackTyped,
     CommitTyped, AdvanceTyped DEF Next, MovesOn

\* Every state of the core is typed.
THEOREM TypeCorrect == Spec => []TypeOK
<1>1. Init => TypeOK /\ RobWindow
  BY InitTyped
<1>2. TypeOK /\ RobWindow /\ [Next]_vars => (TypeOK /\ RobWindow)'
  BY StepTyped
<1>3. QED BY <1>1, <1>2, PTL DEF Spec

\* The slots of the reorder buffer that are occupied are those between head and
\* tail: no tag is reused while it is in flight.
THEOREM RobWindowHolds == Spec => []RobWindow
<1>1. Init => TypeOK /\ RobWindow
  BY InitTyped
<1>2. TypeOK /\ RobWindow /\ [Next]_vars => (TypeOK /\ RobWindow)'
  BY StepTyped
<1>3. QED BY <1>1, <1>2, PTL DEF Spec

-----------------------------------------------------------------------------
(* Where instructions go: the station and the ALU, before and after a step *)

LEMMA StationShape ==
  ASSUME TypeOK
  PROVE  /\ rs \in Seq(RsEntry) /\ Len(rs) \in Nat /\ DOMAIN rs = 1 .. Len(rs)
         /\ \A j \in 1 .. Len(rs) : rs[j] \in RsEntry
BY DEF TypeOK

\* The issued instruction is last, under the tag it was allocated.
LEMMA StationAfterIssue ==
  ASSUME TypeOK, RobWindow, Issue
  PROVE  /\ DOMAIN rs' = 1 .. Len(rs) + 1
         /\ \A j \in 1 .. Len(rs) : rs'[j] = rs[j]
         /\ rs'[Len(rs) + 1].tag = rob.tail
         /\ branchStall' => branchStall \/ IsBranch(rs'[Len(rs) + 1].op)
<1>1. PICK d \in Decoded :
        LET b == Push(RobSize, rob, NewRobEntry(d))
            e == NewRsEntry(rob.tail, d, Resolve(b, d.instr.rs1), Resolve(b, d.instr.rs2))
        IN /\ e \in RsEntry /\ rs' = Append(rs, e)
           /\ branchStall' = (branchStall \/ IsBranch(d.instr.op))
  BY IssueFacts
<1>2. PICK e \in RsEntry : rs' = Append(rs, e) /\ e.op = d.instr.op /\ e.tag = rob.tail
  BY <1>1 DEF NewRsEntry
<1>3. /\ DOMAIN rs' = 1 .. Len(rs) + 1 /\ rs'[Len(rs) + 1] = e
      /\ \A j \in 1 .. Len(rs) : rs'[j] = rs[j]
  BY <1>2, StationShape, AppendProperties
<1>4. branchStall' => branchStall \/ IsBranch(e.op)
  BY <1>1, <1>2
<1>5. QED BY <1>2, <1>3, <1>4

\* The dispatched entry leaves the station and no other.
LEMMA StationAfterDispatch ==
  ASSUME TypeOK, Dispatch
  PROVE  /\ scan \in 1 .. Len(rs)
         /\ DOMAIN rs' = 1 .. Len(rs) - 1
         /\ \A j \in 1 .. Len(rs) - 1 : rs'[j] = rs[IF j < scan THEN j ELSE j + 1]
<1>1. rs \in Seq(RsEntry) /\ scan \in 1 .. Len(rs) /\ rs' = RemoveAt(rs, scan)
  BY StationShape DEF Dispatch
<1>2. /\ rs' \in Seq(RsEntry) /\ Len(rs') = Len(rs) - 1
      /\ \A j \in 1 .. Len(rs) - 1 : rs'[j] = rs[IF j < scan THEN j ELSE j + 1]
  BY <1>1, RemoveAtFacts
<1>3. DOMAIN rs' = 1 .. Len(rs')
  BY <1>2
<1>4. QED BY <1>1, <1>2, <1>3

\* A blocked entry goes to the front, and those ahead of it one place back.
LEMMA StationAfterBlocked ==
  ASSUME TypeOK, DispatchBlocked
  PROVE  /\ scan \in 1 .. Len(rs)
         /\ DOMAIN rs' = 1 .. Len(rs)
         /\ \A j \in 1 .. Len(rs) :
              rs'[j] = IF j = 1 THEN rs[scan] ELSE IF j <= scan THEN rs[j - 1] ELSE rs[j]
<1>1. rs \in Seq(RsEntry) /\ scan \in 1 .. Len(rs) /\ rs' = Cons(rs[scan], RemoveAt(rs, scan))
  BY StationShape DEF DispatchBlocked
<1>2. /\ rs' \in Seq(RsEntry) /\ Len(rs') = Len(rs)
      /\ \A j \in 1 .. Len(rs) :
           rs'[j] = IF j = 1 THEN rs[scan] ELSE IF j <= scan THEN rs[j - 1] ELSE rs[j]
  BY <1>1, MovedToFrontFacts
<1>3. DOMAIN rs' = 1 .. Len(rs')
  BY <1>2
<1>4. QED BY <1>1, <1>2, <1>3

\* A broadcast keeps the instructions of the station.
LEMMA StationAfterBroadcast ==
  ASSUME TypeOK, NEW t \in Tag, NEW v \in Word, Broadcast(t, v)
  PROVE  /\ DOMAIN rs' = DOMAIN rs
         /\ \A j \in DOMAIN rs : rs'[j].op = rs[j].op /\ rs'[j].tag = rs[j].tag
<1>1. /\ rs' \in Seq(RsEntry) /\ Len(rs') = Len(rs)
      /\ \A j \in 1 .. Len(rs) : rs'[j] = Woken(rs[j], t, v)
  BY BroadcastType DEF Broadcast
<1>2. DOMAIN rs = 1 .. Len(rs) /\ \A j \in 1 .. Len(rs) : rs[j] \in RsEntry
  BY StationShape
<1>3. DOMAIN rs' = 1 .. Len(rs)
  BY <1>1
<1>4. ASSUME NEW j \in 1 .. Len(rs) PROVE rs'[j].op = rs[j].op /\ rs'[j].tag = rs[j].tag
  <2>1. rs[j] \in RsEntry /\ rs'[j] = Woken(rs[j], t, v)
    BY <1>1, <1>2
  <2>2. QED BY <2>1, WokenType
<1>5. QED BY <1>2, <1>3, <1>4

LEMMA CoreAluShape ==
  ASSUME TypeOK
  PROVE  /\ alu \in AluOf(RsEntry) /\ Len(alu.inProgress) \in Nat
         /\ DOMAIN alu.inProgress = 1 .. Len(alu.inProgress)
         /\ \A j \in 1 .. Len(alu.inProgress) : alu.inProgress[j].instr \in RsEntry
<1>1. alu \in AluOf(RsEntry)
  BY DEF TypeOK
<1>2. alu.inProgress \in Seq(Operation(RsEntry))
  BY <1>1 DEF AluOf
<1>3. \A j \in 1 .. Len(alu.inProgress) : alu.inProgress[j] \in Operation(RsEntry)
  BY <1>2
<1>4. \A o \in Operation(RsEntry) : o.instr \in RsEntry
  BY DEF Operation
<1>5. QED BY <1>1, <1>3, <1>4, AluShape

\* The dispatched entry is last in the ALU.
LEMMA AluAfterDispatch ==
  ASSUME TypeOK, Dispatch
  PROVE  /\ DOMAIN alu'.inProgress = 1 .. Len(alu.inProgress) + 1
         /\ \A j \in 1 .. Len(alu.inProgress) : alu'.inProgress[j].instr = alu.inProgress[j].instr
         /\ alu'.inProgress[Len(alu.inProgress) + 1].instr = rs[scan]
<1>1. PICK e \in RsEntry : e = rs[scan]
  BY StationShape, StationAfterDispatch
<1>2. FreePipes(alu, e.op) # {} /\ alu' = Enqueued(alu, e)
  BY <1>1 DEF Dispatch
<1>3. alu \in AluOf(RsEntry)
  BY DEF TypeOK
<1>4. alu'.inProgress[Len(alu.inProgress) + 1].instr = e
  BY <1>2, <1>3, EnqueuedFacts
<1>5. PICK o \in Operation(RsEntry) : alu'.inProgress = Append(alu.inProgress, o)
  <2>1. PICK p \in PipeIndex, o \in Operation(RsEntry) :
          /\ ~alu.usage[p]
          /\ Enqueued(alu, e).usage = [alu.usage EXCEPT ![p] = TRUE]
          /\ Enqueued(alu, e).inProgress = Append(alu.inProgress, o)
          /\ o.pipe = p /\ o.age = 0
    BY <1>2, <1>3, EnqueuedPipe
  <2>2. QED BY <1>2, <2>1, Zenon
<1>6. /\ DOMAIN alu'.inProgress = 1 .. Len(alu.inProgress) + 1
      /\ \A j \in 1 .. Len(alu.inProgress) : alu'.inProgress[j] = alu.inProgress[j]
  <2>1. alu.inProgress \in Seq(Operation(RsEntry))
    BY <1>3 DEF AluOf
  <2>2. QED BY <1>5, <2>1, AppendProperties
<1>7. QED BY <1>1, <1>4, <1>6

LEMMA AgedInstr == ASSUME NEW o PROVE Aged(o).instr = o.instr
BY DEF Aged

LEMMA AluAfterIdle ==
  ASSUME TypeOK, ExecuteNone
  PROVE  /\ DOMAIN alu'.inProgress = DOMAIN alu.inProgress
         /\ \A j \in DOMAIN alu.inProgress : alu'.inProgress[j].instr = alu.inProgress[j].instr
<1>1. alu \in AluOf(RsEntry) /\ alu' = TickIdle(alu)
  BY DEF ExecuteNone, TypeOK
<1>2. /\ alu' \in AluOf(RsEntry) /\ Len(alu'.inProgress) = Len(alu.inProgress)
      /\ \A j \in 1 .. Len(alu.inProgress) : alu'.inProgress[j] = Aged(alu.inProgress[j])
  BY <1>1, TickIdleFacts
<1>3. /\ DOMAIN alu'.inProgress = 1 .. Len(alu.inProgress)
      /\ DOMAIN alu.inProgress = 1 .. Len(alu.inProgress)
  BY <1>1, <1>2, AluShape
<1>4. QED BY <1>2, <1>3, AgedInstr

\* The finished operation leaves the ALU and no other.
LEMMA AluAfterFinish ==
  ASSUME TypeOK, NEW i \in DOMAIN alu.inProgress, alu' = TickFinish(alu, i)
  PROVE  /\ DOMAIN alu'.inProgress = 1 .. Len(alu.inProgress) - 1
         /\ \A j \in 1 .. Len(alu.inProgress) - 1 :
              alu'.inProgress[j].instr = alu.inProgress[IF j < i THEN j ELSE j + 1].instr
<1>1. alu \in AluOf(RsEntry) /\ i \in 1 .. Len(alu.inProgress)
  BY CoreAluShape
<1>2. /\ TickFinish(alu, i) \in AluOf(RsEntry)
      /\ Len(TickFinish(alu, i).inProgress) = Len(alu.inProgress) - 1
  BY <1>1, TickFinishFacts
<1>3. \A j \in 1 .. Len(alu.inProgress) - 1 :
        TickFinish(alu, i).inProgress[j] = Aged(alu.inProgress[IF j < i THEN j ELSE j + 1])
  BY <1>1, TickFinishFacts
<1>4. DOMAIN alu'.inProgress = 1 .. Len(alu.inProgress) - 1
  BY <1>2, AluShape
<1>5. QED BY <1>3, <1>4, AgedInstr

\* Without position k a sequence of n is one of n - 1: each other position i has a place.
LEMMA PlaceWithout ==
  ASSUME NEW n \in Nat, NEW k \in 1 .. n, NEW i \in 1 .. n, i # k
  PROVE  \E j \in 1 .. n - 1 : i = IF j < k THEN j ELSE j + 1
<1>1. CASE i < k
  <2>1. i \in 1 .. n - 1
    BY <1>1
  <2>2. QED BY <1>1, <2>1
<1>2. CASE i > k
  <2>1. i - 1 \in 1 .. n - 1 /\ ~(i - 1 < k) /\ i = (i - 1) + 1
    BY <1>2
  <2>2. QED BY <2>1
<1>3. QED BY <1>1, <1>2

\* Nor is one lost when position k moves to the front.
LEMMA PlaceInFront ==
  ASSUME NEW n \in Nat, NEW k \in 1 .. n, NEW i \in 1 .. n
  PROVE  \E j \in 1 .. n : i = IF j = 1 THEN k ELSE IF j <= k THEN j - 1 ELSE j
<1>1. CASE i < k
  <2>1. i + 1 \in 1 .. n /\ i + 1 # 1 /\ i + 1 <= k /\ i = (i + 1) - 1
    BY <1>1
  <2>2. QED BY <2>1
<1>2. CASE i = k
  <2>1. 1 \in 1 .. n
    OBVIOUS
  <2>2. QED BY <1>2, <2>1
<1>3. CASE i > k
  BY <1>3
<1>4. QED BY <1>1, <1>2, <1>3

-----------------------------------------------------------------------------
(* The flow of instructions: how far the frontend overshoots, what releases it, and *)
(* the pace of the ALU                                                              *)

\* What a latch of the frontend can hold at each point of the cycle: a fetch never
\* finds both sides of IF/ID occupied, nor a decode the staged side of ID/RS.
FrontendOrder ==
  /\ stage = "IF" => ifId.staged = {} \/ ifId.active = {}
  /\ stage \in {"IF", "ID"} => idRs.staged = {}

\* Only between a dispatch and the tick that follows it has the ALU a new operation.
TickedOutsideEX == stage # "EX" => AllTicked(alu)

FlowInv == TypeOK /\ RobWindow /\ SkidBound /\ FrontendOrder /\ StallHasBranch /\ AluKeepsUp /\ TickedOutsideEX

LEMMA OptionCount ==
  ASSUME NEW S, NEW o \in Option(S)
  PROVE  /\ Cardinality(o) = 0 \/ Cardinality(o) = 1
         /\ o = {} <=> Cardinality(o) = 0
<1>1. CASE o = {}
  BY <1>1, FS_EmptySet
<1>2. ASSUME NEW x \in o PROVE Cardinality(o) = 1
  <2>1. o = {x}
    BY OptionMember
  <2>2. QED BY <2>1, FS_Singleton
<1>3. QED BY <1>1, <1>2

LEMMA OneMember == ASSUME NEW x PROVE Cardinality({x}) = 1
BY FS_Singleton

\* The lengths a step works with.
LEMMA FlowCounts ==
  ASSUME TypeOK
  PROVE  /\ Len(rs) \in Nat /\ rob.size \in 0 .. RobSize
         /\ RsSize \in Nat \ {0} /\ RobSize \in Nat \ {0}
         /\ \A c \in {ifId.staged, ifId.active, idRs.staged, idRs.active} :
              (Cardinality(c) = 0 \/ Cardinality(c) = 1) /\ (c = {} <=> Cardinality(c) = 0)
<1>1. /\ ifId.staged \in Option(Fetched) /\ ifId.active \in Option(Fetched)
      /\ idRs.staged \in Option(Decoded) /\ idRs.active \in Option(Decoded)
  BY DEF TypeOK, LatchOf
<1>2. ASSUME NEW c \in {ifId.staged, ifId.active, idRs.staged, idRs.active}
      PROVE  (Cardinality(c) = 0 \/ Cardinality(c) = 1) /\ (c = {} <=> Cardinality(c) = 0)
  <2>1. CASE c = ifId.staged \/ c = ifId.active
    BY <1>1, <2>1, OptionCount
  <2>2. CASE c = idRs.staged \/ c = idRs.active
    BY <1>1, <2>2, OptionCount
  <2>3. QED BY <2>1, <2>2
<1>3. Len(rs) \in Nat /\ rob.size \in 0 .. RobSize
  BY DEF TypeOK, BufferOf
<1>4. QED BY <1>2, <1>3, OooAssumption

\* Where the bound can be disturbed: nothing grows unless the frontend gives it up,
\* except in a fetch that was not stalled.
LEMMA SkidStep ==
  ASSUME TypeOK, RobWindow, SkidBound, FrontendOrder, [Next]_vars
  PROVE  SkidBound' /\ FrontendOrder'
<1>. DEFINE fs == Cardinality(ifId.staged)
            fa == Cardinality(ifId.active)
            ds == Cardinality(idRs.staged)
            da == Cardinality(idRs.active)
<1>1. /\ Len(rs) \in Nat /\ rob.size \in 0 .. RobSize
      /\ RsSize \in Nat \ {0} /\ RobSize \in Nat \ {0}
      /\ fs \in {0, 1} /\ fa \in {0, 1} /\ ds \in {0, 1} /\ da \in {0, 1}
      /\ ifId.staged = {} <=> fs = 0
      /\ ifId.active = {} <=> fa = 0
      /\ idRs.staged = {} <=> ds = 0
      /\ idRs.active = {} <=> da = 0
  BY FlowCounts
<1>2. /\ Len(rs) + (fs + fa + ds + da) <= RsSize + 2
      /\ rob.size + (fs + fa + ds + da) <= RobSize + 2
  BY DEF SkidBound, InFrontend
<1>3. /\ Len(rs)' \in Nat /\ rob'.size \in Nat
  <2>1. TypeOK'
    BY StepTyped
  <2>2. QED BY <2>1, OooAssumption DEF TypeOK, BufferOf
<1>4. ASSUME UNCHANGED <<ifId, idRs>>, Len(rs)' <= Len(rs), rob'.size <= rob.size,
             stage' \notin {"IF", "ID"} \/ stage' = stage
      PROVE  SkidBound' /\ FrontendOrder'
  <2>1. FrontendOrder'
    BY <1>4 DEF FrontendOrder
  <2>2. /\ Len(rs)' + (fs + fa + ds + da) <= RsSize + 2
        /\ rob'.size + (fs + fa + ds + da) <= RobSize + 2
    <3>. HIDE DEF fs, fa, ds, da
    <3>1. QED BY <1>1, <1>2, <1>3, <1>4
  <2>3. InFrontend' = fs + fa + ds + da
    BY <1>4 DEF InFrontend
  <2>4. QED BY <2>1, <2>2, <2>3 DEF SkidBound
<1>5. CASE FetchStalled
  <2>1. UNCHANGED <<ifId, idRs, rs, rob>> /\ stage = "IF" /\ stage' = "ID"
    BY <1>5 DEF FetchStalled, frontVars, execVars
  <2>2. FrontendOrder'
    BY <2>1 DEF FrontendOrder
  <2>3. QED BY <2>1, <2>2 DEF SkidBound, InFrontend
<1>6. CASE Fetch
  <2>1. /\ stage = "IF" /\ stage' = "ID" /\ UNCHANGED <<idRs, rs, rob>>
        /\ ifId'.active = ifId.active
        /\ ifId'.staged = {[pc |-> pc, word |-> mem[pc]]}
    BY <1>6 DEF Fetch, Staged, execVars
  <2>2. Len(rs) < RsSize /\ rob.size < RobSize
    <3>1. ~(Len(rs) >= RsSize) /\ rob.size # RobSize
      BY <1>6 DEF Fetch, StallFrontend, RsStall, IsFull
    <3>2. QED BY <1>1, <3>1
  <2>3. FrontendOrder' /\ ds = 0
    BY <1>1, <2>1 DEF FrontendOrder
  <2>4. InFrontend' = 1 + fa + ds + da
    BY <2>1, OneMember DEF InFrontend
  <2>5. /\ Len(rs) + (1 + fa + ds + da) <= RsSize + 2
        /\ rob.size + (1 + fa + ds + da) <= RobSize + 2
    <3>. HIDE DEF fs, fa, ds, da
    <3>1. QED BY <1>1, <2>2, <2>3
  <2>6. QED BY <2>1, <2>3, <2>4, <2>5 DEF SkidBound
<1>7. CASE DecodeInstr
  <2>1. /\ stage = "ID" /\ stage' = "IS" /\ UNCHANGED <<rs, rob>> /\ ifId.active # {}
        /\ ifId'.staged = ifId.staged /\ ifId'.active = {}
        /\ idRs'.active = idRs.active /\ \E x : idRs'.staged = {x}
    <3>1. PICK f \in ifId.active : \E instr \in Decode[f.word] :
            idRs' = Staged(idRs, [pc |-> f.pc, instr |-> instr])
      BY <1>7 DEF DecodeInstr
    <3>2. PICK x : idRs' = Staged(idRs, x)
      BY <3>1
    <3>3. QED BY <1>7, <3>1, <3>2 DEF DecodeInstr, Staged, Taken, execVars
  <2>2. fa = 1 /\ ds = 0
    BY <1>1, <2>1 DEF FrontendOrder
  <2>3. InFrontend' = fs + 0 + 1 + da
    BY <2>1, OneMember, FS_EmptySet DEF InFrontend
  <2>4. /\ Len(rs) + (fs + 0 + 1 + da) <= RsSize + 2
        /\ rob.size + (fs + 0 + 1 + da) <= RobSize + 2
    <3>. HIDE DEF fs, fa, ds, da
    <3>1. QED BY <1>1, <1>2, <2>2
  <2>5. FrontendOrder'
    BY <2>1 DEF FrontendOrder
  <2>6. QED BY <2>1, <2>3, <2>4, <2>5 DEF SkidBound
<1>8. CASE DecodeZero
  <2>1. /\ stage = "ID" /\ stage' = "IF" /\ UNCHANGED <<idRs, rs, rob>>
        /\ ifId'.staged = ifId.staged /\ ifId'.active = {}
    BY <1>8 DEF DecodeZero, Taken, execVars
  <2>2. InFrontend' = fs + 0 + ds + da
    BY <2>1, FS_EmptySet DEF InFrontend
  <2>3. /\ Len(rs) + (fs + 0 + ds + da) <= RsSize + 2
        /\ rob.size + (fs + 0 + ds + da) <= RobSize + 2
    <3>. HIDE DEF fs, fa, ds, da
    <3>1. QED BY <1>1, <1>2
  <2>4. FrontendOrder'
    BY <2>1 DEF FrontendOrder
  <2>5. QED BY <2>1, <2>2, <2>3, <2>4 DEF SkidBound
<1>9. CASE Issue
  <2>1. /\ stage' = "DI" /\ idRs.active # {} /\ ifId' = ifId
        /\ idRs'.staged = idRs.staged /\ idRs'.active = {}
    BY <1>9 DEF Issue, Taken
  <2>2. Len(rs)' = Len(rs) + 1 /\ rob'.size = rob.size + 1
    <3>1. PICK d \in Decoded :
            LET b == Push(RobSize, rob, NewRobEntry(d))
                e == NewRsEntry(rob.tail, d, Resolve(b, d.instr.rs1), Resolve(b, d.instr.rs2))
            IN e \in RsEntry /\ rob' = b /\ rs' = Append(rs, e)
      BY <1>9, IssueFacts
    <3>2. rob'.size = rob.size + 1
      BY <3>1 DEF Push
    <3>3. rs \in Seq(RsEntry)
      BY DEF TypeOK
    <3>4. QED BY <3>1, <3>2, <3>3, AppendProperties
  <2>3. da = 1
    BY <1>1, <2>1
  <2>4. InFrontend' = fs + fa + ds + 0
    BY <2>1, FS_EmptySet DEF InFrontend
  <2>5. /\ Len(rs) + 1 + (fs + fa + ds + 0) <= RsSize + 2
        /\ rob.size + 1 + (fs + fa + ds + 0) <= RobSize + 2
    <3>. HIDE DEF fs, fa, ds, da
    <3>1. QED BY <1>1, <1>2, <2>3
  <2>6. FrontendOrder'
    BY <2>1 DEF FrontendOrder
  <2>7. QED BY <2>2, <2>4, <2>5, <2>6 DEF SkidBound
<1>10. CASE AdvanceLatches
  <2>1. /\ stage' = "IF" /\ UNCHANGED <<rs, rob>>
        /\ ifId'.staged = {} /\ ifId'.active = ifId.staged
        /\ idRs'.staged = {} /\ idRs'.active = idRs.staged
    BY <1>10 DEF AdvanceLatches, Advanced, execVars
  <2>2. InFrontend' = 0 + fs + 0 + ds
    BY <2>1, FS_EmptySet DEF InFrontend
  <2>3. /\ Len(rs) + (0 + fs + 0 + ds) <= RsSize + 2
        /\ rob.size + (0 + fs + 0 + ds) <= RobSize + 2
    <3>. HIDE DEF fs, fa, ds, da
    <3>1. QED BY <1>1, <1>2
  <2>4. FrontendOrder'
    BY <2>1 DEF FrontendOrder
  <2>5. QED BY <2>1, <2>2, <2>3, <2>4 DEF SkidBound
<1>11. ASSUME NEW t \in Tag, NEW v \in Word, Broadcast(t, v)
       PROVE  Len(rs)' = Len(rs) /\ rob'.size = rob.size
  BY <1>11, BroadcastType, RobUpdatedFacts DEF Broadcast
<1>12. CASE DispatchSkip \/ DispatchBlocked \/ Dispatch \/ DispatchNone
  <2>1. UNCHANGED <<ifId, idRs, rob>> /\ (stage' \notin {"IF", "ID"} \/ stage' = stage)
    BY <1>12 DEF DispatchSkip, DispatchBlocked, Dispatch, DispatchNone, frontVars
  <2>2. Len(rs)' <= Len(rs)
    <3>1. rs \in Seq(RsEntry) /\ DOMAIN rs = 1 .. Len(rs)
      BY DEF TypeOK
    <3>2. CASE DispatchSkip \/ DispatchNone
      BY <1>1, <3>2 DEF DispatchSkip, DispatchNone
    <3>3. CASE DispatchBlocked
      <4>1. Len(rs)' = Len(rs)
        BY <3>1, <3>3, MovedToFrontFacts DEF DispatchBlocked
      <4>2. QED BY <1>1, <4>1
    <3>4. CASE Dispatch
      <4>1. Len(rs)' = Len(rs) - 1
        BY <3>1, <3>4, RemoveAtFacts DEF Dispatch
      <4>2. QED BY <1>1, <4>1
    <3>5. QED BY <1>12, <3>2, <3>3, <3>4
  <2>3. rob'.size <= rob.size
    BY <1>1, <2>1
  <2>4. QED BY <1>4, <2>1, <2>2, <2>3
<1>13. CASE Execute \/ ExecuteNone
  <2>1. UNCHANGED <<ifId, idRs>> /\ stage' = "MEM"
    BY <1>13 DEF Execute, ExecuteNone, frontVars
  <2>2. Len(rs)' = Len(rs) /\ rob'.size = rob.size
    <3>1. CASE UNCHANGED <<rs, rob>>
      BY <3>1
    <3>2. CASE ~UNCHANGED <<rs, rob>>
      <4>1. Execute
        BY <1>13, <3>2 DEF ExecuteNone
      <4>2. PICK i \in DOMAIN alu.inProgress :
              Broadcast(AluResult(alu.inProgress[i].instr).tag,
                        AluResult(alu.inProgress[i].instr).result)
        BY <3>2, <4>1 DEF Execute
      <4>3. alu.inProgress[i] \in Operation(RsEntry)
        BY DEF TypeOK, AluOf
      <4>4. AluResult(alu.inProgress[i].instr) \in Result
        BY <4>3, AluResultType DEF Operation
      <4>5. QED BY <1>11, <4>2, <4>4 DEF Result
    <3>3. QED BY <3>1, <3>2
  <2>3. QED BY <1>1, <1>4, <2>1, <2>2
<1>14. CASE WriteBackLoad
  <2>1. UNCHANGED <<ifId, idRs>> /\ stage' = "CM"
    BY <1>14 DEF WriteBackLoad, frontVars
  <2>2. PICK r \in memRob.active : Broadcast(r.tag, r.result)
    BY <1>14 DEF WriteBackLoad
  <2>3. r \in Result
    BY LatchSound DEF TypeOK
  <2>4. Len(rs)' = Len(rs) /\ rob'.size = rob.size
    BY <1>11, <2>2, <2>3 DEF Result
  <2>5. QED BY <1>1, <1>4, <2>1, <2>4
<1>15. CASE Commit
  <2>1. UNCHANGED <<ifId, idRs, rs>> /\ stage' = "UP" /\ rob' = Pop(RobSize, rob)
    BY <1>15 DEF Commit, frontVars
  <2>2. rob'.size = rob.size - 1
    BY <2>1 DEF Pop
  <2>3. QED BY <1>1, <1>4, <2>1, <2>2
<1>16. CASE MemStage \/ WriteBackOther
  <2>1. UNCHANGED <<ifId, idRs, rs, rob>> /\ stage' \in {"WB", "CM"}
    BY <1>16 DEF MemStage, WriteBackOther, frontVars, execVars
  <2>2. QED BY <1>1, <1>4, <2>1
<1>17. CASE (MovesOn /\ ~FetchStalled) \/ UNCHANGED vars
  <2>1. UNCHANGED <<ifId, idRs, rs, rob>>
    BY <1>17, MovesOnFacts DEF frontVars, execVars
  <2>2. stage' \notin {"IF", "ID"} \/ stage' = stage
    BY <1>17 DEF MovesOn, vars, FetchFault, DecodeBubble, DecodePanic, IssueBubble, IssueRobFull,
       IssueRsFull, MemBubble, MemFault, CommitNone, Panicked
  <2>3. QED BY <1>1, <1>4, <2>1, <2>2
<1>18. QED
  BY <1>5, <1>6, <1>7, <1>8, <1>9, <1>10, <1>12, <1>13, <1>14, <1>15, <1>16, <1>17
     DEF Next, MovesOn

BranchWaits    == \E i \in DOMAIN rs : IsBranch(rs[i].op)
BranchExecutes == \E i \in DOMAIN alu.inProgress : IsBranch(alu.inProgress[i].instr.op)

\* The branch that holds the frontend is in the station, then in the ALU, and releases
\* the frontend when it leaves it.
LEMMA StallStep ==
  ASSUME TypeOK, RobWindow, StallHasBranch, [Next]_vars
  PROVE  StallHasBranch'
<1>1. StallHasBranch <=> (branchStall => BranchWaits \/ BranchExecutes)
  BY DEF StallHasBranch, BranchWaits, BranchExecutes
<1>2. StallHasBranch' <=> (branchStall' => BranchWaits' \/ BranchExecutes')
  BY DEF StallHasBranch, BranchWaits, BranchExecutes
<1>3. DOMAIN rs = 1 .. Len(rs) /\ Len(rs) \in Nat
  BY StationShape
<1>4. alu \in AluOf(RsEntry) /\ Len(alu.inProgress) \in Nat
      /\ DOMAIN alu.inProgress = 1 .. Len(alu.inProgress)
  BY CoreAluShape
<1>5. rs' = rs => BranchWaits' = BranchWaits
  BY DEF BranchWaits
<1>6. alu' = alu => BranchExecutes' = BranchExecutes
  BY DEF BranchExecutes
<1>7. ASSUME NEW t \in Tag, NEW v \in Word, Broadcast(t, v), BranchWaits
      PROVE  BranchWaits'
  BY <1>7, StationAfterBroadcast DEF BranchWaits
<1>8. ASSUME UNCHANGED <<branchStall, rs, alu>>
      PROVE  StallHasBranch'
  BY <1>1, <1>2, <1>5, <1>6, <1>8
<1>9. CASE MovesOn \/ UNCHANGED vars
  BY <1>8, <1>9, MovesOnFacts DEF frontVars, execVars
<1>10. CASE Fetch \/ DecodeInstr \/ DecodeZero \/ DispatchSkip \/ DispatchNone
            \/ MemStage \/ WriteBackOther \/ Commit \/ AdvanceLatches
  BY <1>8, <1>10 DEF Fetch, DecodeInstr, DecodeZero, DispatchSkip, DispatchNone, MemStage,
     WriteBackOther, Commit, AdvanceLatches, frontVars, execVars
<1>11. CASE Issue
  <2>1. BranchWaits => BranchWaits'
    BY <1>3, <1>11, StationAfterIssue DEF BranchWaits
  <2>2. branchStall' => branchStall \/ BranchWaits'
    BY <1>3, <1>11, StationAfterIssue DEF BranchWaits
  <2>3. alu' = alu
    BY <1>11 DEF Issue
  <2>4. QED BY <1>1, <1>2, <1>6, <2>1, <2>2, <2>3
<1>12. CASE DispatchBlocked
  <2>1. UNCHANGED <<branchStall, alu>>
    BY <1>12 DEF DispatchBlocked, frontVars
  <2>2. /\ scan \in 1 .. Len(rs) /\ DOMAIN rs' = 1 .. Len(rs)
        /\ \A j \in 1 .. Len(rs) :
             rs'[j] = IF j = 1 THEN rs[scan] ELSE IF j <= scan THEN rs[j - 1] ELSE rs[j]
    BY <1>12, StationAfterBlocked
  <2>3. ASSUME NEW i \in 1 .. Len(rs) PROVE \E j \in 1 .. Len(rs) : rs'[j] = rs[i]
    <3>1. PICK j \in 1 .. Len(rs) : i = IF j = 1 THEN scan ELSE IF j <= scan THEN j - 1 ELSE j
      BY <1>3, <2>2, PlaceInFront
    <3>2. QED BY <2>2, <3>1
  <2>4. BranchWaits => BranchWaits'
    BY <1>3, <2>2, <2>3 DEF BranchWaits
  <2>5. QED BY <1>1, <1>2, <1>6, <2>1, <2>4
<1>13. CASE Dispatch
  <2>1. UNCHANGED branchStall
    BY <1>13 DEF Dispatch, frontVars
  <2>2. BranchExecutes => BranchExecutes'
    BY <1>4, <1>13, AluAfterDispatch DEF BranchExecutes
  <2>3. ASSUME NEW i \in 1 .. Len(rs), IsBranch(rs[i].op)
        PROVE  BranchWaits' \/ BranchExecutes'
    <3>1. CASE i = scan
      <4>1. Len(alu.inProgress) + 1 \in DOMAIN alu'.inProgress
        BY <1>4, <1>13, AluAfterDispatch
      <4>2. QED BY <1>13, <2>3, <3>1, <4>1, AluAfterDispatch DEF BranchExecutes
    <3>2. CASE i # scan
      <4>1. PICK j \in 1 .. Len(rs) - 1 : i = IF j < scan THEN j ELSE j + 1
        BY <1>3, <1>13, <3>2, StationAfterDispatch, PlaceWithout
      <4>2. j \in DOMAIN rs' /\ rs'[j] = rs[i]
        BY <1>13, <4>1, StationAfterDispatch
      <4>3. QED BY <2>3, <4>2 DEF BranchWaits
    <3>3. QED BY <3>1, <3>2
  <2>4. BranchWaits => BranchWaits' \/ BranchExecutes'
    BY <1>3, <2>3 DEF BranchWaits
  <2>5. QED BY <1>1, <1>2, <2>1, <2>2, <2>4
<1>14. CASE ExecuteNone
  <2>1. UNCHANGED <<branchStall, rs>>
    BY <1>14 DEF ExecuteNone, frontVars
  <2>2. BranchExecutes => BranchExecutes'
    BY <1>14, AluAfterIdle DEF BranchExecutes
  <2>3. QED BY <1>1, <1>2, <1>5, <2>1, <2>2
<1>15. CASE Execute
  <2>1. PICK i \in DOMAIN alu.inProgress :
          LET res == AluResult(alu.inProgress[i].instr)
          IN /\ alu' = TickFinish(alu, i)
             /\ IF IsBranch(res.instr.op) THEN Redirect(res) ELSE UNCHANGED <<pc, branchStall>>
             /\ IF IsLoad(res.instr.op) THEN UNCHANGED <<rs, rob>>
                  ELSE Broadcast(res.tag, res.result)
    BY <1>15 DEF Execute
  <2>. DEFINE x   == alu.inProgress[i].instr
              res == AluResult(x)
  <2>2. i \in 1 .. Len(alu.inProgress) /\ x \in RsEntry
    BY <1>4, CoreAluShape
  <2>3. res \in Result /\ res.instr = x
    BY <2>2, AluResultType DEF AluResult
  <2>4. CASE IsBranch(x.op)
    <3>1. Redirect(res)
      BY <2>1, <2>3, <2>4
    <3>2. branchStall' = FALSE
      BY <3>1 DEF Redirect
    <3>3. QED BY <1>2, <3>2
  <2>5. CASE ~IsBranch(x.op)
    <3>1. branchStall' = branchStall
      BY <2>1, <2>3, <2>5
    <3>2. BranchWaits => BranchWaits'
      <4>1. CASE IsLoad(x.op)
        BY <1>5, <2>1, <2>3, <4>1
      <4>2. CASE ~IsLoad(x.op)
        <5>1. Broadcast(res.tag, res.result)
          BY <2>1, <2>3, <4>2
        <5>2. res.tag \in Tag /\ res.result \in Word
          BY <2>3 DEF Result
        <5>. HIDE DEF res
        <5>3. QED BY <1>7, <5>1, <5>2
      <4>3. QED BY <4>1, <4>2
    <3>3. /\ DOMAIN alu'.inProgress = 1 .. Len(alu.inProgress) - 1
          /\ \A j \in 1 .. Len(alu.inProgress) - 1 :
               alu'.inProgress[j].instr = alu.inProgress[IF j < i THEN j ELSE j + 1].instr
      BY <2>1, AluAfterFinish
    <3>4. ASSUME NEW k \in 1 .. Len(alu.inProgress), IsBranch(alu.inProgress[k].instr.op)
          PROVE  BranchExecutes'
      <4>1. PICK j \in 1 .. Len(alu.inProgress) - 1 : k = IF j < i THEN j ELSE j + 1
        BY <1>4, <2>2, <2>5, <3>4, PlaceWithout
      <4>2. alu'.inProgress[j].instr = alu.inProgress[k].instr /\ j \in DOMAIN alu'.inProgress
        BY <3>3, <4>1
      <4>3. QED BY <3>4, <4>2 DEF BranchExecutes
    <3>5. BranchExecutes => BranchExecutes'
      BY <1>4, <3>4 DEF BranchExecutes
    <3>6. QED BY <1>1, <1>2, <3>1, <3>2, <3>5
  <2>6. QED BY <2>4, <2>5
<1>16. CASE WriteBackLoad
  <2>1. PICK r \in memRob.active : Broadcast(r.tag, r.result)
    BY <1>16 DEF WriteBackLoad
  <2>2. r \in Result
    BY LatchSound DEF TypeOK
  <2>3. BranchWaits => BranchWaits'
    BY <1>7, <2>1, <2>2 DEF Result
  <2>4. UNCHANGED <<branchStall, alu>>
    BY <1>16 DEF WriteBackLoad, frontVars
  <2>5. QED BY <1>1, <1>2, <1>6, <2>3, <2>4
<1>17. QED
  BY <1>9, <1>10, <1>11, <1>12, <1>13, <1>14, <1>15, <1>16 DEF Next, MovesOn

\* One operation enters the ALU per cycle, always before the tick, and one leaves it.
LEMMA AluStep ==
  ASSUME TypeOK, RobWindow, AluKeepsUp, TickedOutsideEX, [Next]_vars
  PROVE  AluKeepsUp' /\ TickedOutsideEX'
<1>1. (AluKeepsUp <=> AluSound(alu)) /\ (AluKeepsUp' <=> AluSound(alu'))
  BY DEF AluKeepsUp, AluSound
<1>2. alu \in AluOf(RsEntry)
  BY DEF TypeOK
<1>3. ASSUME alu' = alu, stage' = "EX" \/ stage # "EX"
      PROVE  AluKeepsUp' /\ TickedOutsideEX'
  BY <1>1, <1>3 DEF TickedOutsideEX, AllTicked
<1>4. CASE Dispatch
  <2>1. /\ stage = "DI" /\ stage' = "EX" /\ scan \in DOMAIN rs
        /\ FreePipes(alu, rs[scan].op) # {} /\ alu' = Enqueued(alu, rs[scan])
    BY <1>4 DEF Dispatch
  <2>2. PICK e \in RsEntry : e = rs[scan]
    BY <2>1 DEF TypeOK
  <2>3. FreePipes(alu, e.op) # {} /\ alu' = Enqueued(alu, e)
    BY <2>1, <2>2
  <2>4. AllTicked(alu) /\ AluSound(alu)
    BY <1>1, <2>1 DEF TickedOutsideEX
  <2>5. AluSound(alu')
    BY <1>2, <2>3, <2>4, EnqueuedSound
  <2>6. QED BY <1>1, <2>1, <2>5 DEF TickedOutsideEX
<1>5. CASE ExecuteNone
  <2>1. AluSound(TickIdle(alu)) /\ AllTicked(TickIdle(alu)) /\ alu' = TickIdle(alu)
    BY <1>1, <1>2, <1>5, TickIdleSound DEF ExecuteNone
  <2>2. QED BY <1>1, <2>1 DEF TickedOutsideEX
<1>6. CASE Execute
  <2>1. PICK i : Finishes(alu, i) /\ alu' = TickFinish(alu, i)
    BY <1>6 DEF Execute
  <2>2. AluSound(TickFinish(alu, i)) /\ AllTicked(TickFinish(alu, i))
    BY <1>1, <1>2, <2>1, TickFinishSound
  <2>3. QED BY <1>1, <2>1, <2>2 DEF TickedOutsideEX
<1>7. CASE Fetch \/ DecodeInstr \/ DecodeZero \/ Issue \/ DispatchSkip \/ DispatchBlocked
           \/ DispatchNone \/ MemStage \/ WriteBackLoad \/ WriteBackOther \/ Commit
           \/ AdvanceLatches
  <2>1. alu' = alu /\ stage # "EX"
    BY <1>7 DEF Fetch, DecodeInstr, DecodeZero, Issue, DispatchSkip, DispatchBlocked,
       DispatchNone, MemStage, WriteBackLoad, WriteBackOther, Commit, AdvanceLatches, execVars
  <2>2. QED BY <1>3, <2>1
<1>8. CASE MovesOn \/ UNCHANGED vars
  <2>1. alu' = alu
    BY <1>8, MovesOnFacts DEF execVars
  <2>2. stage' = "EX" \/ stage # "EX"
    BY <1>8 DEF MovesOn, vars, FetchStalled, FetchFault, DecodeBubble, DecodePanic, IssueBubble,
       IssueRobFull, IssueRsFull, MemBubble, MemFault, CommitNone, Panicked, Panic
  <2>3. QED BY <1>3, <2>1, <2>2
<1>9. QED BY <1>4, <1>5, <1>6, <1>7, <1>8 DEF Next, MovesOn

LEMMA InitFlows == ASSUME Init PROVE FlowInv
<1>1. TypeOK /\ RobWindow
  BY InitTyped
<1>2. SkidBound /\ FrontendOrder
  <2>1. /\ ifId.staged = {} /\ ifId.active = {} /\ idRs.staged = {} /\ idRs.active = {}
        /\ Len(rs) = 0 /\ rob.size = 0
    BY DEF Init, EmptyLatch, EmptyBuffer
  <2>2. InFrontend = 0
    BY <2>1, FS_EmptySet DEF InFrontend
  <2>3. QED BY <2>1, <2>2, OooAssumption DEF SkidBound, FrontendOrder
<1>3. StallHasBranch
  BY DEF Init, StallHasBranch
<1>4. AluKeepsUp /\ TickedOutsideEX
  <2>1. AluKeepsUp <=> AluSound(alu)
    BY DEF AluKeepsUp, AluSound
  <2>2. alu = IdleAlu
    BY DEF Init
  <2>3. QED BY <2>1, <2>2, IdleAluKeepsUp DEF TickedOutsideEX
<1>5. QED BY <1>1, <1>2, <1>3, <1>4 DEF FlowInv

LEMMA FlowAlways == Spec => []FlowInv
<1>1. Init => FlowInv
  BY InitFlows
<1>2. FlowInv /\ [Next]_vars => FlowInv'
  BY StepTyped, SkidStep, StallStep, AluStep DEF FlowInv
<1>3. QED BY <1>1, <1>2, PTL DEF Spec

\* The stall of a full station or reorder buffer comes late, but never by more than
\* the two instructions that IF/ID and ID/RS hold.
THEOREM OvershootIsTwo == Spec => []SkidBound
<1>1. FlowInv => SkidBound
  BY DEF FlowInv
<1>2. QED BY <1>1, FlowAlways, PTL

\* Whenever a branch holds the frontend, one is in the station or in the ALU.
THEOREM StallsAreHeldByBranches == Spec => []StallHasBranch
<1>1. FlowInv => StallHasBranch
  BY DEF FlowInv
<1>2. QED BY <1>1, FlowAlways, PTL

\* Every pipe in use has one occupant, and tick() returns each operation in time: none
\* is skipped past the age at which it could still leave.
THEOREM AluNeverBehind == Spec => []AluKeepsUp
<1>1. FlowInv => AluKeepsUp
  BY DEF FlowInv
<1>2. QED BY <1>1, FlowAlways, PTL

-----------------------------------------------------------------------------
(* Renaming and wake-up *)

IInv == TypeOK /\ RobWindow /\ RatTracksYoungestWriter /\ NoLostProducer
        /\ OperandsReadyInExecution

-----------------------------------------------------------------------------
(* The age order of tags *)

\* Tags have different ages; the head is the oldest.
LEMMA RankFacts ==
  ASSUME TypeOK, NEW t \in Tag
  PROVE  /\ Rank(t) \in 0 .. RobSize - 1
         /\ Rank(t) = 0 <=> t = rob.head
         /\ \A u \in Tag : Rank(t) = Rank(u) => t = u
<1>1. /\ RobSize \in Nat \ {0} /\ Tag = 0 .. RobSize - 1
      /\ rob.head \in 0 .. RobSize - 1 /\ t \in 0 .. RobSize - 1
  BY OooAssumption DEF TypeOK, BufferOf, Tag, Slots
<1>2. Rank(t) \in 0 .. RobSize - 1 /\ (Rank(t) = 0 <=> t = rob.head)
  BY <1>1 DEF Rank, AgeRank
<1>3. ASSUME NEW u \in 0 .. RobSize - 1, Rank(t) = Rank(u) PROVE t = u
  BY <1>1, <1>3 DEF Rank, AgeRank
<1>4. QED BY <1>1, <1>2, <1>3

\* A tag about to be allocated is younger than every tag in flight.
LEMMA TailIsYoungest ==
  ASSUME TypeOK, RobWindow, ~IsFull(RobSize, rob), NEW t \in Tag, rob.data[t] # {}
  PROVE  Rank(t) < Rank(rob.tail)
<1>1. InWindow(RobSize, rob, t)
  BY DEF RobWindow, WindowInv, Tag
<1>2. RobSize \in Nat \ {0} /\ rob.head \in 0 .. RobSize - 1 /\ t \in 0 .. RobSize - 1
      /\ rob.size \in 0 .. RobSize /\ rob.size # RobSize
  BY OooAssumption DEF TypeOK, BufferOf, Tag, Slots, IsFull
<1>3. rob.tail = IF rob.head + rob.size < RobSize THEN rob.head + rob.size
                                                  ELSE rob.head + rob.size - RobSize
  BY DEF RobWindow, WindowInv
<1>4. Rank(rob.tail) = rob.size
  BY <1>2, <1>3 DEF Rank, AgeRank
<1>5. Rank(t) < rob.size
  BY <1>1, <1>2 DEF Rank, AgeRank, InWindow
<1>6. QED BY <1>4, <1>5

\* After a commit every tag but the released one is one step older.
LEMMA RankAfterPop ==
  ASSUME TypeOK, NEW t \in Tag, t # rob.head, rob' = Pop(RobSize, rob)
  PROVE  Rank(t)' = Rank(t) - 1
<1>1. RobSize \in Nat \ {0} /\ rob.head \in Slots(RobSize) /\ t \in Slots(RobSize)
  BY OooAssumption DEF TypeOK, BufferOf, Tag
<1>2. rob'.head = IF rob.head + 1 = RobSize THEN 0 ELSE rob.head + 1
  BY <1>1, NextIndex DEF Pop
<1>3. QED BY <1>1, <1>2 DEF Rank, AgeRank, Slots

-----------------------------------------------------------------------------
(* Aliases *)

\* A slot's instruction as the commit stage sees it.
WritesTo(e, r) == WritesRd(e.format) /\ e.rd = r /\ r # 0

\* A broadcast changes neither who writes a register nor the order of the writers.
LEMMA AliasesAfterBroadcast ==
  ASSUME TypeOK, RatTracksYoungestWriter, NEW t \in Tag, NEW v \in Word,
         rob' = RobUpdated(t, v), rat' = rat
  PROVE  RatTracksYoungestWriter'
<1>1. /\ rob'.head = rob.head
      /\ \A u \in Tag : u # t => rob'.data[u] = rob.data[u]
      /\ (rob'.data[t] = {}) <=> (rob.data[t] = {})
      /\ \A e \in rob.data[t] : \E f \in rob'.data[t] :
           rob'.data[t] = {f} /\ f.format = e.format /\ f.rd = e.rd
  BY RobUpdatedFacts
<1>2. ASSUME NEW r \in Reg, NEW u \in Tag
      PROVE  (\E e \in rob'.data[u] : WritesTo(e, r)) <=> (\E e \in rob.data[u] : WritesTo(e, r))
  <2>1. CASE u # t
    BY <1>1, <2>1
  <2>2. CASE rob.data[t] = {} /\ u = t
    BY <1>1, <2>2
  <2>3. ASSUME NEW e \in rob.data[t], u = t
        PROVE  (\E x \in rob'.data[u] : WritesTo(x, r))
                 <=> (\E x \in rob.data[u] : WritesTo(x, r))
    <3>1. rob.data[t] = {e}
      BY <2>3, TagResultFacts DEF TypeOK
    <3>2. PICK f \in rob'.data[t] : rob'.data[t] = {f} /\ f.format = e.format /\ f.rd = e.rd
      BY <1>1
    <3>3. QED BY <2>3, <3>1, <3>2 DEF WritesTo
  <2>4. QED BY <2>1, <2>2, <2>3
<1>3. \A r \in Reg : Writers(r)' = Writers(r)
  BY <1>2 DEF Writers, WritesTo
<1>4. \A u : Rank(u)' = Rank(u)
  BY <1>1 DEF Rank, AgeRank
<1>5. QED BY <1>3, <1>4 DEF RatTracksYoungestWriter

\* An issued instruction is the youngest writer of its destination, if it has one.
LEMMA AliasesAfterIssue ==
  ASSUME TypeOK, RobWindow, RatTracksYoungestWriter, Issue
  PROVE  RatTracksYoungestWriter'
<1>1. PICK d \in Decoded :
        /\ rob.tail \in Tag /\ rob.data[rob.tail] = {}
        /\ rob' = Push(RobSize, rob, NewRobEntry(d))
        /\ rat' = IF WritesRd(FormatOf(d.instr.op)) /\ d.instr.rd # 0
                    THEN [rat EXCEPT ![d.instr.rd] = {rob.tail}] ELSE rat
  BY IssueFacts
<1>. DEFINE new == NewRobEntry(d)
<1>2. /\ rob'.head = rob.head /\ rob'.data[rob.tail] = {new}
      /\ \A u \in Tag : u # rob.tail => rob'.data[u] = rob.data[u]
  BY <1>1 DEF Push, TypeOK, BufferOf, Tag
<1>3. \A u : Rank(u)' = Rank(u)
  BY <1>2 DEF Rank, AgeRank
<1>4. new.format = FormatOf(d.instr.op) /\ new.rd = d.instr.rd
  BY DEF NewRobEntry
<1>5. ~IsFull(RobSize, rob)
  BY DEF Issue
<1>. HIDE DEF new
<1>6. ASSUME NEW r \in Reg
      PROVE  rat'[r] = {t \in Writers(r)' : \A u \in Writers(r)' : Rank(u)' <= Rank(t)'}
  <2>1. /\ \A u \in Tag : u # rob.tail => (u \in Writers(r)' <=> u \in Writers(r))
        /\ rob.tail \in Writers(r)' <=> WritesTo(new, r)
        /\ rob.tail \notin Writers(r)
        /\ Writers(r)' \subseteq Tag /\ Writers(r) \subseteq Tag
    BY <1>1, <1>2 DEF Writers, WritesTo
  <2>2. rat[r] = {t \in Writers(r) : \A u \in Writers(r) : Rank(u) <= Rank(t)}
    BY DEF RatTracksYoungestWriter
  <2>3. CASE WritesTo(new, r)
    <3>1. rat'[r] = {rob.tail}
      BY <1>1, <1>4, <2>3 DEF WritesTo, TypeOK
    <3>2. \A u \in Writers(r) : rob.data[u] # {} /\ u \in Tag
      BY DEF Writers
    <3>3. \A u \in Writers(r) : Rank(u) < Rank(rob.tail)
      BY <1>5, <3>2, TailIsYoungest
    <3>4. \A u \in Tag : Rank(u) \in Int
      BY RankFacts
    <3>5. \A u \in Writers(r)' : Rank(u) <= Rank(rob.tail)
      BY <1>1, <2>1, <3>3, <3>4
    <3>6. \A t \in Writers(r)' : t # rob.tail => ~(Rank(rob.tail) <= Rank(t))
      BY <1>1, <2>1, <3>3, <3>4
    <3>7. rob.tail \in Writers(r)'
      BY <2>1, <2>3
    <3>8. QED BY <1>3, <3>1, <3>5, <3>6, <3>7
  <2>4. CASE ~WritesTo(new, r)
    <3>1. Writers(r)' = Writers(r)
      BY <1>1, <2>1, <2>4
    <3>2. rat'[r] = rat[r]
      BY <1>1, <1>4, <2>4 DEF WritesTo, TypeOK
    <3>3. QED BY <1>3, <2>2, <3>1, <3>2
  <2>5. QED BY <2>3, <2>4
<1>7. QED BY <1>6 DEF RatTracksYoungestWriter

\* The committed instruction leaves the writers of its destination, and its alias
\* goes only if it was the last of them.
LEMMA AliasesAfterCommit ==
  ASSUME TypeOK, RobWindow, RatTracksYoungestWriter, Commit
  PROVE  RatTracksYoungestWriter'
<1>1. PICK e \in RobEntry :
        /\ rob.head \in Tag /\ rob.data[rob.head] = {e}
        /\ IF WritesRd(e.format) /\ e.rd # 0
             THEN rat' = [rat EXCEPT ![e.rd] = AliasAfterCommit(e.rd, rob.head)]
             ELSE UNCHANGED rat
        /\ rob' = Pop(RobSize, rob)
  BY CommitFacts
<1>2. /\ rob'.data[rob.head] = {}
      /\ \A u \in Tag : u # rob.head => rob'.data[u] = rob.data[u]
  BY <1>1 DEF Pop, TypeOK, BufferOf, Tag
<1>3. \A u \in Tag : u # rob.head => Rank(u)' = Rank(u) - 1
  BY <1>1, RankAfterPop
<1>4. \A u \in Tag : Rank(u) \in Int /\ Rank(u) >= Rank(rob.head)
                     /\ (Rank(u) <= Rank(rob.head) => u = rob.head)
  BY <1>1, RankFacts
<1>5. ASSUME NEW r \in Reg
      PROVE  rat'[r] = {t \in Writers(r)' : \A u \in Writers(r)' : Rank(u)' <= Rank(t)'}
  <2>1. Writers(r)' = Writers(r) \ {rob.head} /\ Writers(r) \subseteq Tag
    BY <1>1, <1>2 DEF Writers
  <2>2. rat[r] = {t \in Writers(r) : \A u \in Writers(r) : Rank(u) <= Rank(t)}
    BY DEF RatTracksYoungestWriter
  <2>3. rat'[r] = rat[r] \ {rob.head}
    <3>1. CASE WritesTo(e, r)
      BY <1>1, <3>1 DEF WritesTo, AliasAfterCommit, TypeOK
    <3>2. CASE ~WritesTo(e, r)
      <4>1. rat'[r] = rat[r]
        BY <1>1, <3>2 DEF WritesTo, TypeOK
      <4>2. rob.head \notin Writers(r)
        BY <1>1, <3>2 DEF Writers, WritesTo
      <4>3. QED BY <2>2, <4>1, <4>2
    <3>3. QED BY <3>1, <3>2
  <2>4. \A t, u \in Writers(r)' : Rank(u)' <= Rank(t)' <=> Rank(u) <= Rank(t)
    BY <1>3, <1>4, <2>1
  <2>5. \A t \in Writers(r)' :
          (\A u \in Writers(r)' : Rank(u) <= Rank(t)) <=> (\A u \in Writers(r) : Rank(u) <= Rank(t))
    BY <1>1, <1>4, <2>1
  <2>6. QED BY <2>1, <2>2, <2>3, <2>4, <2>5
<1>6. QED BY <1>5 DEF RatTracksYoungestWriter

-----------------------------------------------------------------------------
(* Waiting entries *)

\* An entry that is ready or waits for producers in flight, older than itself.
EntryOk(e) ==
  /\ e.ready <=> Waits(e) = {}
  /\ \A t \in Waits(e) : Pending(t) /\ Rank(t) < Rank(e.tag)

\* NoLostProducer, entry by entry, in the current and in the next state.
LEMMA EntriesOkNow ==
  ASSUME NoLostProducer, NEW i \in DOMAIN rs
  PROVE  EntryOk(rs[i])
BY DEF NoLostProducer, EntryOk

LEMMA EntriesOkNext ==
  ASSUME ASSUME NEW j \in DOMAIN rs', NEW e, e = rs'[j] PROVE EntryOk(e)'
  PROVE  NoLostProducer'
<1>1. ASSUME NEW j \in DOMAIN rs'
      PROVE  \A e : e = rs'[j] => EntryOk(e)'
  OBVIOUS
<1>2. QED BY <1>1 DEF NoLostProducer, EntryOk, Waits

LEMMA WaitsAreTags ==
  ASSUME NEW e \in RsEntry
  PROVE  Waits(e) \subseteq Tag
BY DEF Waits, RsEntry, Operand, Option

\* The entries of the station after a step that only moves or removes some.
LEMMA EntriesMoved ==
  ASSUME TypeOK, NoLostProducer, rob' = rob,
         \A j \in DOMAIN rs' : \E i \in DOMAIN rs : rs'[j] = rs[i]
  PROVE  NoLostProducer'
<1>1. ASSUME NEW j \in DOMAIN rs', NEW e, e = rs'[j]
      PROVE  EntryOk(e)'
  <2>1. PICK i \in DOMAIN rs : e = rs[i]
    BY <1>1
  <2>2. EntryOk(e)
    BY <2>1, EntriesOkNow
  <2>3. \A t : (Pending(t)' <=> Pending(t)) /\ Rank(t)' = Rank(t)
    BY DEF Pending, Rank
  <2>4. QED BY <2>2, <2>3 DEF EntryOk
<1>2. QED BY <1>1, EntriesOkNext

\* A broadcast to the station and the reorder buffer: whoever waited for it no longer
\* does, and every other producer is as pending as it was.
LEMMA EntriesAfterBroadcast ==
  ASSUME TypeOK, NoLostProducer, NEW t \in Tag, NEW v \in Word,
         rs' = RsUpdated(t, v), rob' = RobUpdated(t, v)
  PROVE  NoLostProducer'
<1>1. /\ DOMAIN rs = 1 .. Len(rs) /\ DOMAIN rs' = 1 .. Len(rs)
      /\ \A j \in 1 .. Len(rs) : rs[j] \in RsEntry /\ rs'[j] = Woken(rs[j], t, v)
  <2>1. rs' \in Seq(RsEntry) /\ Len(rs') = Len(rs) /\ rs \in Seq(RsEntry)
    BY BroadcastType DEF TypeOK
  <2>2. \A j \in 1 .. Len(rs) : rs'[j] = Woken(rs[j], t, v)
    BY BroadcastType
  <2>3. QED BY <2>1, <2>2
<1>2. /\ rob'.head = rob.head
      /\ \A u \in Tag : u # t => rob'.data[u] = rob.data[u]
  BY RobUpdatedFacts
<1>3. \A u \in Tag : Rank(u)' = Rank(u) /\ (u # t /\ Pending(u) => Pending(u)')
  BY <1>2 DEF Rank, AgeRank, Pending
<1>4. ASSUME NEW j \in DOMAIN rs', NEW f, f = rs'[j]
      PROVE  EntryOk(f)'
  <2>1. PICK e \in RsEntry : e = rs[j] /\ f = Woken(e, t, v) /\ j \in DOMAIN rs
    BY <1>1, <1>4
  <2>2. EntryOk(e)
    BY <2>1, EntriesOkNow
  <2>3. /\ f.tag = e.tag /\ f.rs1 = Delivered(e.rs1, t, v) /\ f.rs2 = Delivered(e.rs2, t, v)
        /\ f.ready = (e.ready \/ (/\ IsReady(Delivered(e.rs1, t, v))
                                 /\ IsReady(Delivered(e.rs2, t, v))))
    BY <2>1, WokenType
  <2>4. \A x \in Operand : Delivered(x, t, v).wait = x.wait \ {t}
    BY DEF Delivered, Operand, Ready, Option
  <2>5. e.rs1 \in Operand /\ e.rs2 \in Operand /\ e.tag \in Tag /\ e.ready \in BOOLEAN
    BY <2>1 DEF RsEntry
  <2>6. Waits(f) = Waits(e) \ {t}
    BY <2>3, <2>4, <2>5 DEF Waits
  <2>7. f.ready <=> (e.ready \/ Waits(f) = {})
    BY <2>3, <2>5 DEF IsReady, Waits
  <2>8. f.ready <=> Waits(f) = {}
    BY <2>2, <2>6, <2>7 DEF EntryOk
  <2>9. \A u \in Waits(f) : u \in Tag /\ u # t /\ Pending(u) /\ Rank(u) < Rank(e.tag)
    BY <2>1, <2>2, <2>6, WaitsAreTags DEF EntryOk
  <2>10. \A u \in Waits(f) : Pending(u)' /\ Rank(u)' < Rank(f.tag)'
    BY <1>3, <2>3, <2>5, <2>9
  <2>11. QED BY <2>8, <2>10 DEF EntryOk
<1>5. QED BY <1>4, EntriesOkNext

\* An operand waits only for an instruction in flight without a result.
LEMMA ResolvedWaits ==
  ASSUME TypeOK, RobWindow, RatTracksYoungestWriter, ~IsFull(RobSize, rob),
         NEW r \in Reg, NEW b \in BufferOf(RobSize, RobEntry), NEW t \in Resolve(b, r).wait,
         \A u \in Tag : u # rob.tail => b.data[u] = rob.data[u], rob.data[rob.tail] = {}
  PROVE  t \in Tag /\ t # rob.tail /\ Pending(t) /\ Rank(t) < Rank(rob.tail)
<1>1. rat[r] # {} /\ t = The(rat[r]) /\ TagResult(b, t) = {}
  BY DEF Resolve, Ready, Waiting
<1>2. t \in Tag /\ t \in rat[r]
  BY <1>1, TheProperties DEF TypeOK
<1>3. t \in Writers(r)
  BY <1>2 DEF RatTracksYoungestWriter
<1>4. PICK e : e \in rob.data[t]
  BY <1>3 DEF Writers
<1>5. t # rob.tail /\ e \in b.data[t]
  BY <1>2, <1>4
<1>6. e.result = {}
  BY <1>1, <1>2, <1>5, TagResultFacts
<1>7. QED BY <1>2, <1>4, <1>5, <1>6, TailIsYoungest DEF Pending

LEMMA EntriesAfterIssue ==
  ASSUME TypeOK, RobWindow, RatTracksYoungestWriter, NoLostProducer, Issue
  PROVE  NoLostProducer'
<1>. DEFINE b(d) == Push(RobSize, rob, NewRobEntry(d))
            entry(d) == NewRsEntry(rob.tail, d, Resolve(b(d), d.instr.rs1),
                                                Resolve(b(d), d.instr.rs2))
<1>1. PICK d \in Decoded :
        /\ rob.tail \in Tag /\ rob.data[rob.tail] = {}
        /\ b(d) \in BufferOf(RobSize, RobEntry)
        /\ Resolve(b(d), d.instr.rs1) \in Operand /\ Resolve(b(d), d.instr.rs2) \in Operand
        /\ entry(d) \in RsEntry
        /\ rob' = b(d) /\ rs' = Append(rs, entry(d))
  BY IssueFacts
<1>. DEFINE x == Resolve(b(d), d.instr.rs1)
            y == Resolve(b(d), d.instr.rs2)
            e == entry(d)
<1>2. /\ rob'.head = rob.head
      /\ \A u \in Tag : u # rob.tail => rob'.data[u] = rob.data[u]
  BY <1>1 DEF Push, TypeOK, BufferOf, Tag
<1>3. d.instr.rs1 \in Reg /\ d.instr.rs2 \in Reg /\ ~IsFull(RobSize, rob)
  BY DEF Decoded, Instr, Issue
<1>4. e.rs1 = x /\ e.rs2 = y /\ e.tag = rob.tail /\ e.ready = (IsReady(x) /\ IsReady(y))
  BY DEF NewRsEntry
<1>5. \A u \in x.wait \cup y.wait :
        u \in Tag /\ u # rob.tail /\ Pending(u) /\ Rank(u) < Rank(rob.tail)
  BY <1>1, <1>2, <1>3, ResolvedWaits
<1>6. \A u \in Tag : Rank(u)' = Rank(u) /\ (u # rob.tail /\ Pending(u) => Pending(u)')
  BY <1>2 DEF Rank, AgeRank, Pending
<1>. HIDE DEF b, x, y, e
<1>7. /\ DOMAIN rs = 1 .. Len(rs) /\ Len(rs) \in Nat /\ DOMAIN rs' = 1 .. Len(rs) + 1
      /\ \A j \in 1 .. Len(rs) : rs'[j] = rs[j] /\ rs[j] \in RsEntry
      /\ rs'[Len(rs) + 1] = e
  <2>1. rs \in Seq(RsEntry) /\ e \in RsEntry /\ rs' = Append(rs, e)
    BY <1>1 DEF TypeOK, e, x, y
  <2>2. QED BY <2>1, AppendProperties
<1>8. ASSUME NEW j \in 1 .. Len(rs), NEW o, o = rs[j]
      PROVE  EntryOk(o)'
  <2>1. EntryOk(o) /\ o \in RsEntry
    BY <1>7, <1>8, EntriesOkNow
  <2>2. \A u \in Waits(o) : u \in Tag /\ u # rob.tail
    BY <1>1, <2>1, WaitsAreTags DEF EntryOk, Pending
  <2>3. o.tag \in Tag
    BY <2>1 DEF RsEntry
  <2>4. QED BY <1>6, <2>1, <2>2, <2>3 DEF EntryOk
<1>9. ASSUME NEW o, o = e
      PROVE  EntryOk(o)'
  <2>1. Waits(o) = x.wait \cup y.wait
    BY <1>4, <1>9 DEF Waits
  <2>2. o.ready <=> Waits(o) = {}
    BY <1>4, <1>9, <2>1 DEF IsReady
  <2>3. ASSUME NEW u \in Waits(o), NEW t, t = rob.tail
        PROVE  Pending(u)' /\ Rank(u)' < Rank(t)'
    BY <1>1, <1>5, <1>6, <2>1, <2>3
  <2>4. PICK t : t = rob.tail
    OBVIOUS
  <2>5. o.tag = t
    BY <1>4, <1>9, <2>4
  <2>6. QED BY <2>2, <2>3, <2>4, <2>5 DEF EntryOk
<1>10. ASSUME NEW j \in DOMAIN rs', NEW o, o = rs'[j]
       PROVE  EntryOk(o)'
  <2>1. j \in 1 .. Len(rs) \/ j = Len(rs) + 1
    BY <1>7
  <2>2. QED BY <1>7, <1>8, <1>9, <1>10, <2>1
<1>11. QED BY <1>10, EntriesOkNext

\* The released instruction has its result, so nothing waits for it.
LEMMA EntriesAfterCommit ==
  ASSUME TypeOK, RobWindow, NoLostProducer, Commit
  PROVE  NoLostProducer'
<1>1. PICK e \in RobEntry :
        /\ rob.head \in Tag /\ rob.data[rob.head] = {e} /\ e.result # {}
        /\ rob' = Pop(RobSize, rob)
  BY CommitFacts
<1>2. ~Pending(rob.head)
  BY <1>1 DEF Pending
<1>3. \A u \in Tag : u # rob.head => rob'.data[u] = rob.data[u]
  BY <1>1 DEF Pop, TypeOK, BufferOf, Tag
<1>4. \A u \in Tag : Rank(u) \in Nat /\ (Rank(u) > 0 => Rank(u)' = Rank(u) - 1)
  BY <1>1, RankFacts, RankAfterPop
<1>5. rs' = rs /\ DOMAIN rs = 1 .. Len(rs) /\ \A j \in DOMAIN rs : rs[j] \in RsEntry
  BY DEF Commit, TypeOK
<1>6. ASSUME NEW j \in DOMAIN rs, NEW o, o = rs[j]
      PROVE  EntryOk(o)'
  <2>1. EntryOk(o) /\ o \in RsEntry /\ o.tag \in Tag
    BY <1>5, <1>6, EntriesOkNow DEF RsEntry
  <2>2. ASSUME NEW u \in Waits(o)
        PROVE  Pending(u)' /\ Rank(u)' < Rank(o.tag)'
    <3>1. u \in Tag /\ Pending(u) /\ Rank(u) < Rank(o.tag)
      BY <2>1, WaitsAreTags DEF EntryOk
    <3>2. u # rob.head
      BY <1>2, <3>1
    <3>3. Pending(u)'
      BY <1>3, <3>1, <3>2 DEF Pending
    <3>4. Rank(u)' = Rank(u) - 1
      BY <1>1, <3>1, <3>2, RankAfterPop
    <3>5. Rank(o.tag)' = Rank(o.tag) - 1
      BY <1>4, <2>1, <3>1
    <3>6. QED BY <1>4, <2>1, <3>1, <3>3, <3>4, <3>5
  <2>3. QED BY <2>1, <2>2 DEF EntryOk
<1>7. QED BY <1>5, <1>6, EntriesOkNext

-----------------------------------------------------------------------------
(* Operands in the ALU *)

\* An operation keeps the instruction it entered the ALU with.
LEMMA OperandsAfterExecute ==
  ASSUME TypeOK, OperandsReadyInExecution, Execute \/ ExecuteNone
  PROVE  OperandsReadyInExecution'
<1>1. DOMAIN alu.inProgress = 1 .. Len(alu.inProgress) /\ Len(alu.inProgress) \in Nat
      /\ \A o : Aged(o).instr = o.instr
  BY DEF TypeOK, AluOf, Aged
<1>2. CASE ExecuteNone
  <2>1. alu' \in AluOf(RsEntry) /\ alu' = TickIdle(alu) /\ aluMem' = aluMem
    BY <1>2, StepTyped, TickIdleFacts DEF ExecuteNone, TypeOK, backVars
  <2>2. /\ DOMAIN alu'.inProgress = 1 .. Len(alu.inProgress)
        /\ \A j \in 1 .. Len(alu.inProgress) : alu'.inProgress[j] = Aged(alu.inProgress[j])
    <3>1. alu \in AluOf(RsEntry)
      BY DEF TypeOK
    <3>2. /\ Len(alu'.inProgress) = Len(alu.inProgress)
          /\ \A j \in 1 .. Len(alu.inProgress) : alu'.inProgress[j] = Aged(alu.inProgress[j])
      BY <2>1, <3>1, TickIdleFacts
    <3>3. QED BY <2>1, <3>2 DEF AluOf
  <2>3. QED BY <1>1, <2>1, <2>2 DEF OperandsReadyInExecution, Waits
<1>3. CASE Execute
  <2>1. PICK i \in DOMAIN alu.inProgress :
          /\ alu' = TickFinish(alu, i)
          /\ aluMem' = Staged(aluMem, AluResult(alu.inProgress[i].instr))
    BY <1>3 DEF Execute
  <2>2. alu' \in AluOf(RsEntry)
    BY <1>1, <2>1, TickFinishFacts DEF TypeOK
  <2>3. /\ DOMAIN alu'.inProgress = 1 .. Len(alu.inProgress) - 1
        /\ \A j \in 1 .. Len(alu.inProgress) - 1 :
             alu'.inProgress[j] = Aged(alu.inProgress[IF j < i THEN j ELSE j + 1])
    <3>1. alu \in AluOf(RsEntry)
      BY DEF TypeOK
    <3>2. /\ Len(alu'.inProgress) = Len(alu.inProgress) - 1
          /\ \A j \in 1 .. Len(alu.inProgress) - 1 :
               alu'.inProgress[j] = Aged(alu.inProgress[IF j < i THEN j ELSE j + 1])
      <4>1. Len(alu'.inProgress) = Len(alu.inProgress) - 1
        BY <1>1, <2>1, <3>1, TickFinishFacts
      <4>2. i \in 1 .. Len(alu.inProgress) /\ alu' = TickFinish(alu, i)
        BY <1>1, <2>1
      <4>3. \A j \in 1 .. Len(alu.inProgress) - 1 :
              TickFinish(alu, i).inProgress[j] = Aged(alu.inProgress[IF j < i THEN j ELSE j + 1])
        BY <3>1, <4>2, TickFinishFacts
      <4>4. QED BY <4>1, <4>2, <4>3
    <3>3. QED BY <2>2, <3>2 DEF AluOf
  <2>4. \A j \in DOMAIN alu'.inProgress : \E k \in DOMAIN alu.inProgress :
          alu'.inProgress[j].instr = alu.inProgress[k].instr
    <3>1. ASSUME NEW j \in 1 .. Len(alu.inProgress) - 1
          PROVE  \E k \in 1 .. Len(alu.inProgress) :
                   alu'.inProgress[j].instr = alu.inProgress[k].instr
      <4>1. PICK k : k = IF j < i THEN j ELSE j + 1
        OBVIOUS
      <4>2. alu'.inProgress[j] = Aged(alu.inProgress[k])
        BY <2>3, <4>1
      <4>3. k \in 1 .. Len(alu.inProgress)
        BY <1>1, <2>1, <4>1
      <4>4. QED BY <1>1, <4>2, <4>3
    <3>2. QED BY <1>1, <2>3, <3>1
  <2>5. Waits(AluResult(alu.inProgress[i].instr).instr) = {}
    BY <2>1 DEF OperandsReadyInExecution, AluResult
  <2>6. \A r \in aluMem'.staged \cup aluMem'.active : Waits(r.instr) = {}
    BY <2>1, <2>5 DEF OperandsReadyInExecution, Staged
  <2>7. QED BY <2>4, <2>6 DEF OperandsReadyInExecution, Waits
<1>4. QED BY <1>2, <1>3

\* Only entries that wait for nothing are dispatched.
LEMMA OperandsAfterDispatch ==
  ASSUME TypeOK, NoLostProducer, OperandsReadyInExecution, Dispatch
  PROVE  OperandsReadyInExecution'
<1>1. PICK e \in RsEntry :
        Waits(e) = {} /\ FreePipes(alu, e.op) # {} /\ alu' = Enqueued(alu, e)
  <2>1. /\ scan \in DOMAIN rs /\ rs[scan].ready /\ FreePipes(alu, rs[scan].op) # {}
        /\ alu' = Enqueued(alu, rs[scan])
    BY DEF Dispatch
  <2>2. EntryOk(rs[scan]) /\ rs[scan] \in RsEntry
    BY <2>1, EntriesOkNow DEF TypeOK
  <2>3. Waits(rs[scan]) = {}
    BY <2>1, <2>2 DEF EntryOk
  <2>4. QED BY <2>1, <2>2, <2>3
<1>2. alu \in AluOf(RsEntry) /\ aluMem' = aluMem
  BY DEF TypeOK, Dispatch, backVars
<1>. DEFINE n == Len(alu.inProgress)
<1>3. /\ alu' \in AluOf(RsEntry) /\ Len(alu'.inProgress) = n + 1
      /\ \A j \in 1 .. n : alu'.inProgress[j] = alu.inProgress[j]
      /\ alu'.inProgress[n + 1].instr = e
  <2>1. /\ Enqueued(alu, e) \in AluOf(RsEntry)
        /\ Len(Enqueued(alu, e).inProgress) = n + 1
    BY <1>1, <1>2, EnqueuedFacts
  <2>2. ASSUME NEW j \in 1 .. n PROVE Enqueued(alu, e).inProgress[j] = alu.inProgress[j]
    BY <1>1, <1>2, EnqueuedFacts
  <2>3. Enqueued(alu, e).inProgress[n + 1].instr = e
    BY <1>1, <1>2, EnqueuedFacts
  <2>4. QED BY <1>1, <2>1, <2>2, <2>3
<1>4. DOMAIN alu'.inProgress = 1 .. n + 1 /\ DOMAIN alu.inProgress = 1 .. n /\ n \in Nat
  BY <1>3 DEF TypeOK, AluOf
<1>5. ASSUME NEW j \in DOMAIN alu'.inProgress, NEW x, x = alu'.inProgress[j].instr
      PROVE  Waits(x) = {}
  <2>1. j \in 1 .. n \/ j = n + 1
    BY <1>4
  <2>2. QED BY <1>1, <1>3, <1>4, <1>5, <2>1 DEF OperandsReadyInExecution
<1>6. \A j \in DOMAIN alu'.inProgress : \A x : x = alu'.inProgress[j].instr => Waits(x) = {}
  BY <1>5
<1>7. QED BY <1>2, <1>6 DEF OperandsReadyInExecution, Waits

-----------------------------------------------------------------------------
(* The inductive invariant *)

LEMMA InitSafe == ASSUME Init PROVE IInv
<1>1. TypeOK /\ RobWindow
  BY InitTyped
<1>2. \A r \in Reg : Writers(r) = {} /\ rat[r] = {}
  BY DEF Init, EmptyBuffer, Writers, Tag
<1>3. RatTracksYoungestWriter
  BY <1>2 DEF RatTracksYoungestWriter
<1>4. DOMAIN rs = {} /\ DOMAIN alu.inProgress = {} /\ aluMem.staged = {} /\ aluMem.active = {}
  BY DEF Init, IdleAlu, EmptyLatch
<1>5. QED BY <1>1, <1>3, <1>4 DEF IInv, NoLostProducer, OperandsReadyInExecution

LEMMA SafeStep == ASSUME IInv, [Next]_vars PROVE IInv'
<1>. USE DEF IInv
<1>1. TypeOK' /\ RobWindow'
  BY StepTyped
<1>2. ASSUME UNCHANGED <<rat, rob, rs, alu, aluMem>>
      PROVE  IInv'
  BY <1>1, <1>2 DEF RatTracksYoungestWriter, Writers, Rank, NoLostProducer, Pending, Waits,
     OperandsReadyInExecution
<1>3. CASE MovesOn \/ UNCHANGED vars
  BY <1>2, <1>3, MovesOnFacts DEF archVars, execVars, backVars
<1>4. CASE Fetch \/ DecodeInstr \/ DecodeZero \/ DispatchSkip \/ DispatchNone
           \/ WriteBackOther
  BY <1>2, <1>4 DEF Fetch, DecodeInstr, DecodeZero, DispatchSkip, DispatchNone, WriteBackOther,
     archVars, execVars, backVars
<1>5. ASSUME UNCHANGED <<rat, rob>>
      PROVE  RatTracksYoungestWriter'
  BY <1>5 DEF RatTracksYoungestWriter, Writers, Rank
<1>6. ASSUME UNCHANGED <<alu, aluMem>>
      PROVE  OperandsReadyInExecution'
  BY <1>6 DEF OperandsReadyInExecution, Waits
<1>7. CASE Issue
  BY <1>1, <1>6, <1>7, AliasesAfterIssue, EntriesAfterIssue DEF Issue, backVars
<1>8. CASE DispatchBlocked
  <2>1. rs \in Seq(RsEntry) /\ scan \in 1 .. Len(rs) /\ DOMAIN rs = 1 .. Len(rs)
        /\ rs' = Cons(rs[scan], RemoveAt(rs, scan))
    BY <1>8 DEF DispatchBlocked, TypeOK
  <2>2. /\ DOMAIN rs' = 1 .. Len(rs) /\ Len(rs) \in Nat
        /\ \A j \in 1 .. Len(rs) : rs'[j]
               = IF j = 1 THEN rs[scan] ELSE IF j <= scan THEN rs[j - 1] ELSE rs[j]
    <3>1. /\ rs' \in Seq(RsEntry) /\ Len(rs') = Len(rs)
          /\ \A j \in 1 .. Len(rs) : rs'[j]
                = IF j = 1 THEN rs[scan] ELSE IF j <= scan THEN rs[j - 1] ELSE rs[j]
      BY <2>1, MovedToFrontFacts
    <3>2. QED BY <2>1, <3>1
  <2>3. ASSUME NEW j \in DOMAIN rs' PROVE \E i \in DOMAIN rs : rs'[j] = rs[i]
    BY <2>1, <2>2, <2>3
  <2>4. NoLostProducer'
    BY <1>8, <2>3, EntriesMoved DEF DispatchBlocked
  <2>5. QED BY <1>1, <1>5, <1>6, <1>8, <2>4 DEF DispatchBlocked, archVars, backVars
<1>9. CASE Dispatch
  <2>1. rs \in Seq(RsEntry) /\ scan \in 1 .. Len(rs) /\ DOMAIN rs = 1 .. Len(rs)
        /\ rs' = RemoveAt(rs, scan)
    BY <1>9 DEF Dispatch, TypeOK
  <2>2. /\ DOMAIN rs' = 1 .. Len(rs) - 1 /\ Len(rs) \in Nat
        /\ \A j \in 1 .. Len(rs) - 1 : rs'[j] = rs[IF j < scan THEN j ELSE j + 1]
    BY <2>1, RemoveAtFacts
  <2>3. ASSUME NEW j \in DOMAIN rs' PROVE \E i \in DOMAIN rs : rs'[j] = rs[i]
    BY <2>1, <2>2, <2>3
  <2>4. NoLostProducer'
    BY <1>9, <2>3, EntriesMoved DEF Dispatch
  <2>5. QED BY <1>1, <1>5, <1>9, <2>4, OperandsAfterDispatch DEF Dispatch, archVars
<1>10. ASSUME NEW t \in Tag, NEW v \in Word, Broadcast(t, v), rat' = rat
       PROVE  RatTracksYoungestWriter' /\ NoLostProducer'
  BY <1>10, AliasesAfterBroadcast, EntriesAfterBroadcast DEF Broadcast
<1>11. ASSUME UNCHANGED <<rs, rob>>
       PROVE  NoLostProducer'
  BY <1>11 DEF NoLostProducer, Pending, Rank, Waits
<1>12. CASE Execute \/ ExecuteNone
  <2>1. RatTracksYoungestWriter' /\ NoLostProducer'
    <3>1. CASE UNCHANGED <<rs, rob>>
      BY <1>5, <1>11, <1>12, <3>1 DEF Execute, ExecuteNone, archVars
    <3>2. CASE ~UNCHANGED <<rs, rob>>
      <4>1. Execute
        BY <1>12, <3>2 DEF ExecuteNone
      <4>2. PICK i \in DOMAIN alu.inProgress :
              Broadcast(AluResult(alu.inProgress[i].instr).tag,
                        AluResult(alu.inProgress[i].instr).result)
        BY <3>2, <4>1 DEF Execute
      <4>3. alu.inProgress[i] \in Operation(RsEntry)
        BY DEF TypeOK, AluOf
      <4>4. AluResult(alu.inProgress[i].instr) \in Result
        BY <4>3, AluResultType DEF Operation
      <4>5. QED BY <1>10, <4>1, <4>2, <4>4 DEF Execute, archVars, Result
    <3>3. QED BY <3>1, <3>2
  <2>2. QED BY <1>1, <1>12, <2>1, OperandsAfterExecute
<1>13. CASE MemStage
  <2>1. OperandsReadyInExecution'
    BY <1>13 DEF MemStage, Taken, OperandsReadyInExecution, Waits, execVars
  <2>2. QED BY <1>1, <1>5, <1>11, <1>13, <2>1 DEF MemStage, execVars
<1>14. CASE WriteBackLoad
  <2>1. PICK r \in memRob.active : Broadcast(r.tag, r.result)
    BY <1>14 DEF WriteBackLoad
  <2>2. r \in Result
    BY LatchSound DEF TypeOK
  <2>3. QED BY <1>1, <1>6, <1>10, <1>14, <2>1, <2>2 DEF WriteBackLoad, archVars, Result
<1>15. CASE Commit
  BY <1>1, <1>6, <1>15, AliasesAfterCommit, EntriesAfterCommit DEF Commit, backVars
<1>16. CASE AdvanceLatches
  <2>1. OperandsReadyInExecution'
    BY <1>16 DEF AdvanceLatches, Advanced, OperandsReadyInExecution, Waits, execVars
  <2>2. QED BY <1>1, <1>5, <1>11, <1>16, <2>1 DEF AdvanceLatches, archVars, execVars
<1>17. QED
  BY <1>3, <1>4, <1>7, <1>8, <1>9, <1>12, <1>13, <1>14, <1>15, <1>16 DEF Next, MovesOn

LEMMA SafeAlways == Spec => []IInv
<1>1. Init => IInv
  BY InitSafe
<1>2. IInv /\ [Next]_vars => IInv'
  BY SafeStep
<1>3. QED BY <1>1, <1>2, PTL DEF Spec

\* An alias always names the youngest in-flight writer of its register, and only
\* that: resolve_operands() never reads a stale register or a stale tag.
THEOREM AliasesTrackWriters == Spec => []RatTracksYoungestWriter
<1>1. IInv => RatTracksYoungestWriter
  BY DEF IInv
<1>2. QED BY <1>1, SafeAlways, PTL

\* Every operand waits for an older instruction that has not broadcast its result
\* yet, and an entry is dispatchable exactly when it waits for nothing: no wake-up
\* is lost, and no two entries wait for one another.
THEOREM NoWakeUpIsLost == Spec => []NoLostProducer
<1>1. IInv => NoLostProducer
  BY DEF IInv
<1>2. QED BY <1>1, SafeAlways, PTL

\* The panics of get_inputs() and mem_stage() on a waiting operand are unreachable.
THEOREM ExecutionHasOperands == Spec => []OperandsReadyInExecution
<1>1. IInv => OperandsReadyInExecution
  BY DEF IInv
<1>2. QED BY <1>1, SafeAlways, PTL

-----------------------------------------------------------------------------
(* Every pending instruction is in one place *)

\* A latch side holds the load with tag t.
LoadIn(o, t) == \E r \in o : r.tag = t /\ IsLoad(r.instr.op)

InStation(t) == \E i \in DOMAIN rs : rs[i].tag = t
InAlu(t)     == \E i \in DOMAIN alu.inProgress : alu.inProgress[i].instr.tag = t

Place == {"rs", "alu", "aluStaged", "aluActive", "memStaged", "memActive"}

\* The places of the instruction with tag t, the sides of a latch told apart.
Where(t) ==
  {p \in Place :
     \/ p = "rs"        /\ InStation(t)
     \/ p = "alu"       /\ InAlu(t)
     \/ p = "aluStaged" /\ LoadIn(aluMem.staged, t)
     \/ p = "aluActive" /\ LoadIn(aluMem.active, t)
     \/ p = "memStaged" /\ LoadIn(memRob.staged, t)
     \/ p = "memActive" /\ LoadIn(memRob.active, t)}

OneEntry(t) ==
  /\ \A i, j \in DOMAIN rs : rs[i].tag = t /\ rs[j].tag = t => i = j
  /\ \A i, j \in DOMAIN alu.inProgress :
       alu.inProgress[i].instr.tag = t /\ alu.inProgress[j].instr.tag = t => i = j

OnePlace(t) ==
  /\ IF Pending(t) THEN \E p \in Place : Where(t) = {p} ELSE Where(t) = {}
  /\ OneEntry(t)

\* What the latches of the backend can hold at each point of the cycle: nothing that a
\* stage would overwrite.
BackendOrder ==
  /\ stage \in {"IF", "ID", "IS", "DI", "EX"} => aluMem.staged = {}
  /\ stage \in {"IF", "ID", "IS", "DI", "EX", "MEM"} => memRob.staged = {}
  /\ stage \in {"WB", "CM", "UP"} => aluMem.active = {}
  /\ stage \in {"CM", "UP"} => memRob.active = {}

HomeInv == IInv /\ BackendOrder /\ \A t \in Tag : OnePlace(t)

LEMMA BackendStep ==
  ASSUME BackendOrder, [Next]_vars
  PROVE  BackendOrder'
<1>1. CASE FetchStalled \/ Fetch \/ FetchFault \/ DecodeBubble \/ DecodeInstr \/ DecodeZero
           \/ DecodePanic \/ IssueBubble \/ Issue \/ IssueRobFull \/ IssueRsFull
  BY <1>1 DEF BackendOrder, backVars, FetchStalled, Fetch, FetchFault, DecodeBubble, DecodeInstr,
     DecodeZero, DecodePanic, IssueBubble, Issue, IssueRobFull, IssueRsFull
<1>2. CASE DispatchSkip \/ DispatchBlocked \/ Dispatch \/ DispatchNone \/ ExecuteNone
  BY <1>2 DEF BackendOrder, backVars, DispatchSkip, DispatchBlocked, Dispatch, DispatchNone,
     ExecuteNone
<1>3. CASE Execute
  BY <1>3 DEF BackendOrder, Execute
<1>4. CASE MemBubble \/ MemFault \/ CommitNone \/ Commit
  BY <1>4 DEF BackendOrder, backVars, MemBubble, MemFault, CommitNone, Commit
<1>5. CASE MemStage
  BY <1>5 DEF BackendOrder, MemStage, Taken
<1>6. CASE WriteBackLoad \/ WriteBackOther
  BY <1>6 DEF BackendOrder, WriteBackLoad, WriteBackOther, Taken
<1>7. CASE AdvanceLatches
  BY <1>7 DEF BackendOrder, AdvanceLatches, Advanced
<1>8. CASE Panicked \/ UNCHANGED vars
  BY <1>8 DEF BackendOrder, Panicked, vars, backVars
<1>9. QED
  BY <1>1, <1>2, <1>3, <1>4, <1>5, <1>6, <1>7, <1>8 DEF Next

\* An instruction that neither moves nor gets its result.
LEMMA Stays ==
  ASSUME NEW t \in Tag, OnePlace(t), OneEntry(t)', Pending(t)' <=> Pending(t),
         InStation(t)' <=> InStation(t), InAlu(t)' <=> InAlu(t),
         LoadIn(aluMem.staged, t)' <=> LoadIn(aluMem.staged, t),
         LoadIn(aluMem.active, t)' <=> LoadIn(aluMem.active, t),
         LoadIn(memRob.staged, t)' <=> LoadIn(memRob.staged, t),
         LoadIn(memRob.active, t)' <=> LoadIn(memRob.active, t)
  PROVE  OnePlace(t)'
<1>1. Where(t)' = Where(t)
  BY DEF Where
<1>2. QED BY <1>1 DEF OnePlace

\* An instruction that is in one place only.
LEMMA OnlyThere ==
  ASSUME NEW t \in Tag, OnePlace(t)
  PROVE  /\ \A p, q \in Where(t) : p = q
         /\ (\E p : p \in Where(t)) <=> Pending(t)
         /\ "rs" \in Where(t) <=> InStation(t)
         /\ "alu" \in Where(t) <=> InAlu(t)
         /\ "aluStaged" \in Where(t) <=> LoadIn(aluMem.staged, t)
         /\ "aluActive" \in Where(t) <=> LoadIn(aluMem.active, t)
         /\ "memStaged" \in Where(t) <=> LoadIn(memRob.staged, t)
         /\ "memActive" \in Where(t) <=> LoadIn(memRob.active, t)
<1>1. (\A p, q \in Where(t) : p = q) /\ ((\E p : p \in Where(t)) <=> Pending(t))
  BY DEF OnePlace
<1>2. /\ "rs" \in Where(t) <=> InStation(t)
      /\ "alu" \in Where(t) <=> InAlu(t)
      /\ "aluStaged" \in Where(t) <=> LoadIn(aluMem.staged, t)
      /\ "aluActive" \in Where(t) <=> LoadIn(aluMem.active, t)
      /\ "memStaged" \in Where(t) <=> LoadIn(memRob.staged, t)
      /\ "memActive" \in Where(t) <=> LoadIn(memRob.active, t)
  BY DEF Where, Place
<1>3. QED BY <1>1, <1>2

\* An issue puts the instruction in the station, under a tag that was in no place.
LEMMA PlacesAfterIssue ==
  ASSUME HomeInv, Issue
  PROVE  \A t \in Tag : OnePlace(t)'
<1>1. TypeOK /\ RobWindow /\ Len(rs) \in Nat /\ DOMAIN rs = 1 .. Len(rs)
  BY StationShape DEF HomeInv, IInv
<1>2. /\ DOMAIN rs' = 1 .. Len(rs) + 1 /\ \A j \in 1 .. Len(rs) : rs'[j] = rs[j]
      /\ rs'[Len(rs) + 1].tag = rob.tail
  BY <1>1, StationAfterIssue
<1>3. PICK d \in Decoded : /\ rob.tail \in Tag /\ rob.data[rob.tail] = {}
                           /\ rob' = Push(RobSize, rob, NewRobEntry(d))
  BY <1>1, IssueFacts
<1>4. /\ rob'.data[rob.tail] = {NewRobEntry(d)}
      /\ \A u \in Tag : u # rob.tail => rob'.data[u] = rob.data[u]
  BY <1>1, <1>3 DEF Push, TypeOK, BufferOf, Tag
<1>5. UNCHANGED <<alu, aluMem, memRob>>
  BY DEF Issue, backVars
<1>6. ASSUME NEW t \in Tag, t # rob.tail
      PROVE  OnePlace(t)'
  <2>1. Pending(t)' <=> Pending(t)
    BY <1>4, <1>6 DEF Pending
  <2>2. InStation(t)' <=> InStation(t)
    BY <1>1, <1>2, <1>6 DEF InStation
  <2>3. OneEntry(t)
    BY DEF HomeInv, OnePlace
  <2>4. OneEntry(t)'
    BY <1>1, <1>2, <1>5, <1>6, <2>3 DEF OneEntry
  <2>5. QED BY <1>5, <2>1, <2>2, <2>4, Stays DEF HomeInv, InAlu, LoadIn
<1>7. ASSUME NEW t, t = rob.tail
      PROVE  OnePlace(t)'
  <2>1. t \in Tag /\ ~Pending(t) /\ OnePlace(t)
    BY <1>3, <1>7 DEF Pending, HomeInv
  <2>2. /\ ~InStation(t) /\ ~InAlu(t)
        /\ ~LoadIn(aluMem.staged, t) /\ ~LoadIn(aluMem.active, t)
        /\ ~LoadIn(memRob.staged, t) /\ ~LoadIn(memRob.active, t)
    BY <2>1, OnlyThere
  <2>3. Pending(t)'
    <3>1. NewRobEntry(d).result = {}
      BY DEF NewRobEntry
    <3>2. QED BY <1>4, <1>7, <3>1, Zenon DEF Pending
  <2>4. InStation(t)'
    BY <1>1, <1>2, <1>7 DEF InStation
  <2>5. Where(t)' = {"rs"}
    BY <1>5, <2>2, <2>4 DEF Where, Place, InAlu, LoadIn
  <2>6. OneEntry(t)'
    <3>1. \A j \in 1 .. Len(rs) : rs'[j].tag # t
      BY <1>1, <1>2, <2>2 DEF InStation
    <3>2. \A i, j \in DOMAIN rs' : rs'[i].tag = t /\ rs'[j].tag = t => i = j
      <4>1. ASSUME NEW i \in DOMAIN rs', rs'[i].tag = t PROVE i = Len(rs) + 1
        BY <1>1, <1>2, <3>1, <4>1
      <4>2. QED BY <4>1
    <3>3. QED BY <1>5, <2>2, <3>2 DEF OneEntry, InAlu
  <2>7. QED BY <2>3, <2>5, <2>6 DEF OnePlace, Place
<1>8. QED BY <1>6, <1>7

\* The blocked entry changes its position in the station, not its place.
LEMMA PlacesAfterBlocked ==
  ASSUME HomeInv, DispatchBlocked
  PROVE  \A t \in Tag : OnePlace(t)'
<1>1. TypeOK /\ Len(rs) \in Nat /\ DOMAIN rs = 1 .. Len(rs)
  BY StationShape DEF HomeInv, IInv
<1>2. /\ scan \in 1 .. Len(rs) /\ DOMAIN rs' = 1 .. Len(rs)
      /\ \A j \in 1 .. Len(rs) :
           rs'[j] = IF j = 1 THEN rs[scan] ELSE IF j <= scan THEN rs[j - 1] ELSE rs[j]
  BY <1>1, StationAfterBlocked
<1>. DEFINE from(j) == IF j = 1 THEN scan ELSE IF j <= scan THEN j - 1 ELSE j
<1>3. \A j \in 1 .. Len(rs) : from(j) \in 1 .. Len(rs) /\ rs'[j] = rs[from(j)]
  BY <1>1, <1>2
<1>4. \A j, k \in 1 .. Len(rs) : from(j) = from(k) => j = k
  BY <1>1, <1>2
<1>5. \A i \in 1 .. Len(rs) : \E j \in 1 .. Len(rs) : i = from(j)
  BY <1>1, <1>2, PlaceInFront
<1>. HIDE DEF from
<1>6. UNCHANGED <<rob, alu, aluMem, memRob>>
  BY DEF DispatchBlocked, backVars
<1>7. ASSUME NEW t \in Tag
      PROVE  OnePlace(t)'
  <2>1. OnePlace(t) /\ OneEntry(t)
    BY DEF HomeInv, OnePlace
  <2>2. InStation(t)' <=> InStation(t)
    <3>1. InStation(t)' => InStation(t)
      BY <1>1, <1>2, <1>3 DEF InStation
    <3>2. ASSUME NEW i \in 1 .. Len(rs), rs[i].tag = t PROVE InStation(t)'
      <4>1. PICK j \in 1 .. Len(rs) : i = from(j)
        BY <1>5
      <4>2. QED BY <1>2, <1>3, <3>2, <4>1 DEF InStation
    <3>3. QED BY <1>1, <3>1, <3>2 DEF InStation
  <2>3. \A i, j \in DOMAIN rs' : rs'[i].tag = t /\ rs'[j].tag = t => i = j
    BY <1>1, <1>2, <1>3, <1>4, <2>1 DEF OneEntry
  <2>4. OneEntry(t)'
    BY <1>6, <2>1, <2>3 DEF OneEntry
  <2>5. QED BY <1>6, <2>1, <2>2, <2>4, Stays DEF InAlu, LoadIn, Pending
<1>8. QED BY <1>7

\* A dispatch moves an instruction from the station to the ALU.
LEMMA PlacesAfterDispatch ==
  ASSUME HomeInv, Dispatch
  PROVE  \A t \in Tag : OnePlace(t)'
<1>. DEFINE n == Len(alu.inProgress)
            A == alu.inProgress
            B == alu'.inProgress
            from(j) == IF j < scan THEN j ELSE j + 1
<1>1. /\ TypeOK /\ Len(rs) \in Nat /\ DOMAIN rs = 1 .. Len(rs)
      /\ n \in Nat /\ DOMAIN A = 1 .. n
  BY StationShape, CoreAluShape DEF HomeInv, IInv
<1>2. /\ scan \in 1 .. Len(rs) /\ DOMAIN rs' = 1 .. Len(rs) - 1
      /\ \A j \in 1 .. Len(rs) - 1 : rs'[j] = rs[IF j < scan THEN j ELSE j + 1]
  BY <1>1, StationAfterDispatch
<1>3. /\ DOMAIN B = 1 .. n + 1 /\ \A j \in 1 .. n : B[j].instr = A[j].instr
      /\ B[n + 1].instr = rs[scan]
  BY <1>1, AluAfterDispatch
<1>4. /\ \A j \in 1 .. Len(rs) - 1 :
           from(j) \in 1 .. Len(rs) /\ from(j) # scan /\ rs'[j] = rs[from(j)]
      /\ \A j, k \in 1 .. Len(rs) - 1 : from(j) = from(k) => j = k
  BY <1>1, <1>2
<1>5. \A i \in 1 .. Len(rs) : i # scan => \E j \in 1 .. Len(rs) - 1 : i = from(j)
  BY <1>1, <1>2, PlaceWithout
<1>6. UNCHANGED <<rob, aluMem, memRob>>
  BY DEF Dispatch, backVars
<1>. HIDE DEF n, A, B, from
<1>7. ASSUME NEW t \in Tag
      PROVE  /\ OnePlace(t) /\ OneEntry(t) /\ (Pending(t)' <=> Pending(t))
             /\ \A i, j \in DOMAIN rs' : rs'[i].tag = t /\ rs'[j].tag = t => i = j
  <2>1. OnePlace(t) /\ OneEntry(t)
    BY DEF HomeInv, OnePlace
  <2>2. \A i, j \in 1 .. Len(rs) : rs[i].tag = t /\ rs[j].tag = t => i = j
    BY <1>1, <2>1 DEF OneEntry
  <2>3. QED BY <1>2, <1>4, <1>6, <2>1, <2>2 DEF Pending
<1>8. ASSUME NEW t \in Tag, t # rs[scan].tag
      PROVE  OnePlace(t)'
  <2>1. InStation(t)' <=> InStation(t)
    <3>1. InStation(t)' => InStation(t)
      BY <1>1, <1>2, <1>4 DEF InStation
    <3>2. ASSUME NEW i \in 1 .. Len(rs), rs[i].tag = t PROVE InStation(t)'
      <4>1. PICK j \in 1 .. Len(rs) - 1 : i = from(j)
        BY <1>5, <1>8, <3>2
      <4>2. QED BY <1>2, <1>4, <3>2, <4>1 DEF InStation
    <3>3. QED BY <1>1, <3>1, <3>2 DEF InStation
  <2>2. \A j \in 1 .. n + 1 : B[j].instr.tag = t => j \in 1 .. n /\ A[j].instr.tag = t
    <3>1. ASSUME NEW j \in 1 .. n + 1, B[j].instr.tag = t PROVE j \in 1 .. n
      BY <1>1, <1>3, <1>8, <3>1
    <3>2. QED BY <1>3, <3>1
  <2>3. \A j \in 1 .. n : j \in 1 .. n + 1 /\ B[j].instr.tag = A[j].instr.tag
    BY <1>1, <1>3
  <2>4. InAlu(t)' <=> InAlu(t)
    BY <1>1, <1>3, <2>2, <2>3 DEF InAlu, A, B
  <2>5. OneEntry(t)'
    BY <1>1, <1>3, <1>7, <2>2 DEF OneEntry, A, B
  <2>6. QED BY <1>6, <1>7, <2>1, <2>4, <2>5, Stays DEF LoadIn
<1>9. ASSUME NEW t \in Tag, t = rs[scan].tag
      PROVE  OnePlace(t)'
  <2>1. InStation(t) /\ OnePlace(t)
    BY <1>1, <1>2, <1>7, <1>9 DEF InStation
  <2>2. /\ Pending(t) /\ ~InAlu(t)
        /\ ~LoadIn(aluMem.staged, t) /\ ~LoadIn(aluMem.active, t)
        /\ ~LoadIn(memRob.staged, t) /\ ~LoadIn(memRob.active, t)
    BY <2>1, OnlyThere
  <2>3. ~InStation(t)'
    <3>1. ASSUME NEW j \in 1 .. Len(rs) - 1, rs'[j].tag = t PROVE FALSE
      <4>1. from(j) \in 1 .. Len(rs) /\ from(j) # scan /\ rs[from(j)].tag = t
        BY <1>4, <3>1
      <4>2. QED BY <1>1, <1>2, <1>7, <1>9, <4>1 DEF OneEntry
    <3>2. QED BY <1>2, <3>1 DEF InStation
  <2>4. \A j \in 1 .. n : B[j].instr.tag # t
    BY <1>1, <1>3, <2>2 DEF InAlu, A
  <2>5. InAlu(t)'
    <3>1. n + 1 \in 1 .. n + 1
      BY <1>1
    <3>2. QED BY <1>3, <1>9, <3>1 DEF InAlu, B
  <2>6. Where(t)' = {"alu"}
    BY <1>6, <2>2, <2>3, <2>5 DEF Where, Place, LoadIn
  <2>7. ASSUME NEW j \in 1 .. n + 1, B[j].instr.tag = t PROVE j = n + 1
    BY <1>1, <2>4, <2>7
  <2>8. OneEntry(t)'
    BY <1>3, <1>7, <2>7 DEF OneEntry, B
  <2>9. QED BY <1>7, <2>2, <2>6, <2>8 DEF OnePlace, Place
<1>10. QED BY <1>8, <1>9

\* A step that keeps the order of the station and of the ALU, tag by tag.
LEMMA SameTags ==
  ASSUME NEW t, OneEntry(t),
         DOMAIN rs' = DOMAIN rs, \A j \in DOMAIN rs : rs'[j].tag = rs[j].tag,
         DOMAIN alu'.inProgress = DOMAIN alu.inProgress,
         \A j \in DOMAIN alu.inProgress : alu'.inProgress[j].instr = alu.inProgress[j].instr
  PROVE  OneEntry(t)' /\ (InStation(t)' <=> InStation(t)) /\ (InAlu(t)' <=> InAlu(t))
BY DEF OneEntry, InStation, InAlu

\* A broadcast gives the instruction with tag t its result, and no other.
LEMMA PendingAfterBroadcast ==
  ASSUME TypeOK, NEW t \in Tag, NEW v \in Word, Broadcast(t, v)
  PROVE  ~Pending(t)' /\ \A u \in Tag : u # t => (Pending(u)' <=> Pending(u))
<1>1. /\ \A u \in Tag : u # t => rob'.data[u] = rob.data[u]
      /\ (rob'.data[t] = {}) <=> (rob.data[t] = {})
      /\ \A e \in rob.data[t] : \E f \in rob'.data[t] : rob'.data[t] = {f} /\ f.result = {v}
  BY RobUpdatedFacts DEF Broadcast
<1>2. CASE rob.data[t] = {}
  BY <1>1, <1>2 DEF Pending
<1>3. ASSUME NEW e \in rob.data[t] PROVE ~Pending(t)'
  <2>1. PICK f : rob'.data[t] = {f} /\ f.result = {v}
    BY <1>1
  <2>2. QED BY <2>1 DEF Pending
<1>4. ~Pending(t)'
  BY <1>2, <1>3
<1>5. QED BY <1>1, <1>4 DEF Pending

\* An instruction with its result is in no place.
LEMMA Leaves ==
  ASSUME NEW t \in Tag, OneEntry(t)', ~Pending(t)', ~InStation(t)', ~InAlu(t)',
         ~LoadIn(aluMem.staged, t)', ~LoadIn(aluMem.active, t)',
         ~LoadIn(memRob.staged, t)', ~LoadIn(memRob.active, t)'
  PROVE  OnePlace(t)'
<1>1. Where(t)' = {}
  BY DEF Where
<1>2. QED BY <1>1 DEF OnePlace

\* What leaves the ALU is a load on its way to memory, or has its result.
LEMMA PlacesAfterExecute ==
  ASSUME HomeInv, Execute
  PROVE  \A t \in Tag : OnePlace(t)'
<1>1. PICK i \in DOMAIN alu.inProgress :
        LET res == AluResult(alu.inProgress[i].instr)
        IN /\ alu' = TickFinish(alu, i)
           /\ IF IsLoad(res.instr.op) THEN UNCHANGED <<rs, rob>>
                ELSE Broadcast(res.tag, res.result)
           /\ aluMem' = Staged(aluMem, res)
  BY DEF Execute
<1>. DEFINE n == Len(alu.inProgress)
            A == alu.inProgress
            B == alu'.inProgress
            from(j) == IF j < i THEN j ELSE j + 1
<1>2. /\ TypeOK /\ n \in Nat /\ DOMAIN A = 1 .. n /\ i \in 1 .. n
      /\ A[i].instr \in RsEntry
  BY CoreAluShape DEF HomeInv, IInv
<1>3. PICK x \in RsEntry : x = A[i].instr
  BY <1>2
<1>4. PICK res \in Result : res = AluResult(x) /\ res.instr = x /\ res.tag = x.tag
  BY AluResultType DEF AluResult
<1>5. /\ aluMem'.staged = {res} /\ aluMem'.active = aluMem.active
      /\ aluMem.staged = {} /\ memRob' = memRob
  BY <1>1, <1>3, <1>4 DEF Staged, Execute, HomeInv, BackendOrder
<1>6. /\ DOMAIN B = 1 .. n - 1 /\ \A j \in 1 .. n - 1 : B[j].instr = A[from(j)].instr
      /\ \A j \in 1 .. n - 1 : from(j) \in 1 .. n /\ from(j) # i
      /\ \A j, k \in 1 .. n - 1 : from(j) = from(k) => j = k
  <2>1. /\ DOMAIN B = 1 .. n - 1 /\ \A j \in 1 .. n - 1 : B[j].instr = A[from(j)].instr
    BY <1>1, <1>2, AluAfterFinish
  <2>2. QED BY <1>2, <2>1, SMTT(30)
<1>7. \A k \in 1 .. n : k # i => \E j \in 1 .. n - 1 : k = from(j)
  BY <1>2, PlaceWithout
<1>. HIDE DEF n, A, B, from
<1>8. \/ IsLoad(x.op) /\ UNCHANGED <<rs, rob>>
      \/ ~IsLoad(x.op) /\ Broadcast(x.tag, res.result)
  BY <1>1, <1>3, <1>4 DEF A
<1>9. x.tag \in Tag /\ res.result \in Word
  BY <1>4 DEF Result
<1>10. DOMAIN rs' = DOMAIN rs /\ \A j \in DOMAIN rs : rs'[j].tag = rs[j].tag
  BY <1>2, <1>8, <1>9, StationAfterBroadcast
<1>11. ASSUME NEW t \in Tag
       PROVE  OneEntry(t) /\ OnePlace(t) /\ OneEntry(t)' /\ (InStation(t)' <=> InStation(t))
  <2>1. OneEntry(t) /\ OnePlace(t)
    BY DEF HomeInv, OnePlace
  <2>2. \A j, k \in 1 .. n : A[j].instr.tag = t /\ A[k].instr.tag = t => j = k
    BY <1>2, <2>1 DEF OneEntry, A
  <2>3. \A j, k \in 1 .. n - 1 : B[j].instr.tag = t /\ B[k].instr.tag = t => j = k
    BY <1>6, <2>2
  <2>4. \A j, k \in DOMAIN rs' : rs'[j].tag = t /\ rs'[k].tag = t => j = k
    BY <1>10, <2>1 DEF OneEntry
  <2>5. OneEntry(t)'
    BY <1>6, <2>3, <2>4 DEF OneEntry, B
  <2>6. QED BY <1>10, <2>1, <2>5 DEF InStation
<1>12. ASSUME NEW t \in Tag, t # x.tag
       PROVE  OnePlace(t)'
  <2>1. InAlu(t)' => InAlu(t)
    BY <1>2, <1>6 DEF InAlu, A, B
  <2>2. ASSUME NEW k \in 1 .. n, A[k].instr.tag = t PROVE InAlu(t)'
    <3>1. PICK j \in 1 .. n - 1 : k = from(j)
      BY <1>3, <1>7, <1>12, <2>2
    <3>2. j \in DOMAIN B /\ B[j].instr.tag = t
      BY <1>6, <2>2, <3>1
    <3>3. QED BY <3>2 DEF InAlu, B
  <2>3. InAlu(t)' <=> InAlu(t)
    BY <1>2, <2>1, <2>2 DEF InAlu, A
  <2>4. Pending(t)' <=> Pending(t)
    <3>1. CASE UNCHANGED rob
      BY <3>1 DEF Pending
    <3>2. CASE Broadcast(x.tag, res.result)
      BY <1>2, <1>9, <1>12, <3>2, PendingAfterBroadcast
    <3>3. QED BY <1>8, <3>1, <3>2
  <2>5. ~LoadIn(aluMem.staged, t) /\ ~LoadIn(aluMem.staged, t)'
    BY <1>4, <1>5, <1>12 DEF LoadIn
  <2>6. QED BY <1>5, <1>11, <2>3, <2>4, <2>5, Stays DEF LoadIn
<1>13. ASSUME NEW t \in Tag, t = x.tag
       PROVE  OnePlace(t)'
  <2>1. InAlu(t)
    BY <1>2, <1>3, <1>13 DEF InAlu, A
  <2>2. /\ Pending(t) /\ ~InStation(t)
        /\ ~LoadIn(aluMem.staged, t) /\ ~LoadIn(aluMem.active, t)
        /\ ~LoadIn(memRob.staged, t) /\ ~LoadIn(memRob.active, t)
    BY <1>11, <2>1, OnlyThere
  <2>3. ~InAlu(t)'
    <3>1. ASSUME NEW j \in 1 .. n - 1, B[j].instr.tag = t PROVE FALSE
      <4>1. from(j) \in 1 .. n /\ from(j) # i /\ A[from(j)].instr.tag = t
        BY <1>6, <3>1
      <4>2. A[i].instr.tag = t
        BY <1>3, <1>13
      <4>3. QED BY <1>2, <1>11, <4>1, <4>2 DEF OneEntry, A
    <3>2. QED BY <1>6, <3>1 DEF InAlu, B
  <2>4. ~InStation(t)'
    BY <1>11, <2>2
  <2>5. /\ ~LoadIn(aluMem.active, t)' /\ ~LoadIn(memRob.staged, t)' /\ ~LoadIn(memRob.active, t)'
    BY <1>5, <2>2 DEF LoadIn
  <2>6. CASE IsLoad(x.op)
    <3>1. UNCHANGED rob
      BY <1>8, <2>6
    <3>2. Pending(t)'
      BY <2>2, <3>1 DEF Pending
    <3>3. LoadIn(aluMem.staged, t)'
      BY <1>4, <1>5, <1>13, <2>6 DEF LoadIn
    <3>4. Where(t)' = {"aluStaged"}
      BY <2>3, <2>4, <2>5, <3>3 DEF Where, Place
    <3>5. QED BY <1>11, <3>2, <3>4 DEF OnePlace, Place
  <2>7. CASE ~IsLoad(x.op)
    <3>1. Broadcast(t, res.result)
      BY <1>8, <1>13, <2>7
    <3>2. ~Pending(t)'
      BY <1>2, <1>9, <3>1, PendingAfterBroadcast
    <3>3. ~LoadIn(aluMem.staged, t)'
      BY <1>4, <1>5, <2>7 DEF LoadIn
    <3>4. QED BY <1>11, <2>3, <2>4, <2>5, <3>2, <3>3, Leaves
  <2>8. QED BY <2>6, <2>7
<1>14. QED BY <1>12, <1>13

\* A load moves from one side of a latch to another.
LEMMA MovesOver ==
  ASSUME NEW t \in Tag, OnePlace(t), OneEntry(t)', Pending(t)' <=> Pending(t),
         InStation(t)' <=> InStation(t), InAlu(t)' <=> InAlu(t),
         NEW p \in Place, NEW q \in Place, p \in Where(t), Where(t)' = (Where(t) \ {p}) \cup {q}
  PROVE  OnePlace(t)'
<1>1. Pending(t) /\ Where(t) = {p}
  BY DEF OnePlace
<1>2. Pending(t)' /\ Where(t)' = {q}
  BY <1>1
<1>3. QED BY <1>2 DEF OnePlace

\* MEM hands a load on from one latch to the next.
LEMMA PlacesAfterMem ==
  ASSUME HomeInv, MemStage
  PROVE  \A t \in Tag : OnePlace(t)'
<1>1. PICK r \in aluMem.active : \E v : memRob' = Staged(memRob, [r EXCEPT !.result = v])
  BY DEF MemStage
<1>2. PICK v : memRob' = Staged(memRob, [r EXCEPT !.result = v])
  BY <1>1
<1>3. TypeOK
  BY DEF HomeInv, IInv
<1>4. r \in Result /\ aluMem.active = {r}
  BY <1>3, OptionMember DEF TypeOK, LatchOf
<1>5. PICK x : /\ memRob'.staged = {x} /\ memRob'.active = memRob.active
               /\ x.tag = r.tag /\ x.instr = r.instr
  <2>1. [r EXCEPT !.result = v].tag = r.tag /\ [r EXCEPT !.result = v].instr = r.instr
    BY <1>4 DEF Result
  <2>2. QED BY <1>2, <2>1 DEF Staged
<1>6. /\ aluMem'.staged = aluMem.staged /\ aluMem'.active = {} /\ memRob.staged = {}
      /\ UNCHANGED <<rs, rob, alu>>
  BY DEF MemStage, Taken, HomeInv, BackendOrder, execVars
<1>7. ASSUME NEW t \in Tag
      PROVE  OnePlace(t)'
  <2>1. OnePlace(t) /\ OneEntry(t)
    BY DEF HomeInv, OnePlace
  <2>2. /\ OneEntry(t)' /\ (Pending(t)' <=> Pending(t))
        /\ (InStation(t)' <=> InStation(t)) /\ (InAlu(t)' <=> InAlu(t))
    BY <1>6, <2>1 DEF OneEntry, Pending, InStation, InAlu
  <2>3. /\ LoadIn(aluMem.staged, t)' <=> LoadIn(aluMem.staged, t)
        /\ LoadIn(memRob.active, t)' <=> LoadIn(memRob.active, t)
        /\ ~LoadIn(aluMem.active, t)' /\ ~LoadIn(memRob.staged, t)
        /\ LoadIn(memRob.staged, t)' <=> LoadIn(aluMem.active, t)
    BY <1>4, <1>5, <1>6 DEF LoadIn
  <2>4. CASE LoadIn(aluMem.active, t)
    <3>1. "aluActive" \in Where(t)
      BY <2>1, <2>4, OnlyThere
    <3>2. Where(t)' = (Where(t) \ {"aluActive"}) \cup {"memStaged"}
      BY <2>2, <2>3, <2>4 DEF Where, Place
    <3>3. "aluActive" \in Place /\ "memStaged" \in Place
      BY DEF Place
    <3>4. QED BY <2>1, <2>2, <3>1, <3>2, <3>3, MovesOver
  <2>5. CASE ~LoadIn(aluMem.active, t)
    BY <2>1, <2>2, <2>3, <2>5, Stays
  <2>6. QED BY <2>4, <2>5
<1>8. QED BY <1>7

\* WB gives a load its result.
LEMMA PlacesAfterLoad ==
  ASSUME HomeInv, WriteBackLoad
  PROVE  \A t \in Tag : OnePlace(t)'
<1>1. PICK r \in memRob.active : IsLoad(r.instr.op) /\ Broadcast(r.tag, r.result)
  BY DEF WriteBackLoad
<1>2. TypeOK
  BY DEF HomeInv, IInv
<1>3. r \in Result /\ memRob.active = {r} /\ r.tag \in Tag /\ r.result \in Word
  <2>1. r \in Result /\ memRob.active = {r}
    BY <1>2, OptionMember DEF TypeOK, LatchOf
  <2>2. QED BY <2>1 DEF Result
<1>4. memRob'.staged = memRob.staged /\ memRob'.active = {} /\ UNCHANGED <<alu, aluMem>>
  BY DEF WriteBackLoad, Taken
<1>5. DOMAIN rs' = DOMAIN rs /\ \A j \in DOMAIN rs : rs'[j].tag = rs[j].tag
  BY <1>1, <1>2, <1>3, StationAfterBroadcast
<1>6. ASSUME NEW t \in Tag
      PROVE  OnePlace(t)'
  <2>1. OnePlace(t) /\ OneEntry(t)
    BY DEF HomeInv, OnePlace
  <2>2. OneEntry(t)' /\ (InStation(t)' <=> InStation(t)) /\ (InAlu(t)' <=> InAlu(t))
    BY <1>4, <1>5, <2>1, SameTags
  <2>3. /\ LoadIn(aluMem.staged, t)' <=> LoadIn(aluMem.staged, t)
        /\ LoadIn(aluMem.active, t)' <=> LoadIn(aluMem.active, t)
        /\ LoadIn(memRob.staged, t)' <=> LoadIn(memRob.staged, t)
        /\ ~LoadIn(memRob.active, t)'
        /\ LoadIn(memRob.active, t) <=> t = r.tag
    BY <1>1, <1>3, <1>4 DEF LoadIn
  <2>4. CASE t = r.tag
    <3>1. ~Pending(t)'
      BY <1>1, <1>2, <1>3, <2>4, PendingAfterBroadcast
    <3>2. /\ ~InStation(t) /\ ~InAlu(t) /\ ~LoadIn(aluMem.staged, t)
          /\ ~LoadIn(aluMem.active, t) /\ ~LoadIn(memRob.staged, t)
      BY <2>1, <2>3, <2>4, OnlyThere
    <3>3. QED BY <2>2, <2>3, <3>1, <3>2, Leaves
  <2>5. CASE t # r.tag
    <3>1. Pending(t)' <=> Pending(t)
      BY <1>1, <1>2, <1>3, <2>5, PendingAfterBroadcast
    <3>2. QED BY <2>1, <2>2, <2>3, <2>5, <3>1, Stays
  <2>6. QED BY <2>4, <2>5
<1>7. QED BY <1>6

\* The latches advance.
LEMMA PlacesAfterAdvance ==
  ASSUME HomeInv, AdvanceLatches
  PROVE  \A t \in Tag : OnePlace(t)'
<1>1. /\ aluMem'.staged = {} /\ aluMem'.active = aluMem.staged /\ aluMem.active = {}
      /\ memRob'.staged = {} /\ memRob'.active = memRob.staged /\ memRob.active = {}
      /\ UNCHANGED <<rs, rob, alu>>
  BY DEF AdvanceLatches, Advanced, HomeInv, BackendOrder, execVars
<1>2. ASSUME NEW t \in Tag
      PROVE  OnePlace(t)'
  <2>1. OnePlace(t) /\ OneEntry(t)
    BY DEF HomeInv, OnePlace
  <2>2. /\ OneEntry(t)' /\ (Pending(t)' <=> Pending(t))
        /\ (InStation(t)' <=> InStation(t)) /\ (InAlu(t)' <=> InAlu(t))
    BY <1>1, <2>1 DEF OneEntry, Pending, InStation, InAlu
  <2>3. /\ ~LoadIn(aluMem.staged, t)' /\ (LoadIn(aluMem.active, t)' <=> LoadIn(aluMem.staged, t))
        /\ ~LoadIn(memRob.staged, t)' /\ (LoadIn(memRob.active, t)' <=> LoadIn(memRob.staged, t))
        /\ ~LoadIn(aluMem.active, t) /\ ~LoadIn(memRob.active, t)
    BY <1>1 DEF LoadIn
  <2>4. CASE LoadIn(aluMem.staged, t)
    <3>1. "aluStaged" \in Where(t) /\ ~LoadIn(memRob.staged, t)
      BY <2>1, <2>4, OnlyThere
    <3>2. Where(t)' = (Where(t) \ {"aluStaged"}) \cup {"aluActive"}
      BY <2>2, <2>3, <2>4, <3>1 DEF Where, Place
    <3>3. "aluStaged" \in Place /\ "aluActive" \in Place
      BY DEF Place
    <3>4. QED BY <2>1, <2>2, <3>1, <3>2, <3>3, MovesOver
  <2>5. CASE LoadIn(memRob.staged, t)
    <3>1. "memStaged" \in Where(t) /\ ~LoadIn(aluMem.staged, t)
      BY <2>1, <2>5, OnlyThere
    <3>2. Where(t)' = (Where(t) \ {"memStaged"}) \cup {"memActive"}
      BY <2>2, <2>3, <2>5, <3>1 DEF Where, Place
    <3>3. "memStaged" \in Place /\ "memActive" \in Place
      BY DEF Place
    <3>4. QED BY <2>1, <2>2, <3>1, <3>2, <3>3, MovesOver
  <2>6. CASE ~LoadIn(aluMem.staged, t) /\ ~LoadIn(memRob.staged, t)
    BY <2>1, <2>2, <2>3, <2>6, Stays
  <2>7. QED BY <2>4, <2>5, <2>6
<1>3. QED BY <1>2

LEMMA HomeStep == ASSUME HomeInv, [Next]_vars PROVE HomeInv'
<1>1. IInv' /\ BackendOrder'
  BY SafeStep, BackendStep DEF HomeInv
<1>2. ASSUME UNCHANGED <<rs, rob, alu, aluMem, memRob>>
      PROVE  \A t \in Tag : OnePlace(t)'
  <2>1. ASSUME NEW t \in Tag PROVE OnePlace(t)'
    <3>1. OnePlace(t) /\ OneEntry(t)
      BY DEF HomeInv, OnePlace
    <3>2. OneEntry(t)' /\ (InStation(t)' <=> InStation(t)) /\ (InAlu(t)' <=> InAlu(t))
      BY <1>2, <3>1, SameTags
    <3>3. QED BY <1>2, <3>1, <3>2, Stays DEF Pending, LoadIn
  <2>2. QED BY <2>1
<1>3. ASSUME MovesOn \/ UNCHANGED vars
      PROVE  \A t \in Tag : OnePlace(t)'
  <2>1. CASE MovesOn
    BY <1>2, <2>1, MovesOnFacts DEF HomeInv, IInv, execVars, backVars
  <2>2. CASE UNCHANGED vars
    BY <1>2, <2>2 DEF vars, archVars, execVars, backVars
  <2>3. QED BY <1>3, <2>1, <2>2
<1>4. ASSUME Fetch \/ DecodeInstr \/ DecodeZero \/ DispatchSkip \/ DispatchNone
      PROVE  \A t \in Tag : OnePlace(t)'
  BY <1>2, <1>4 DEF Fetch, DecodeInstr, DecodeZero, DispatchSkip, DispatchNone, execVars, backVars
<1>5. ASSUME ExecuteNone
      PROVE  \A t \in Tag : OnePlace(t)'
  <2>1. UNCHANGED <<rs, rob, aluMem, memRob>>
    BY <1>5 DEF ExecuteNone, backVars
  <2>2. ASSUME NEW t \in Tag PROVE OnePlace(t)'
    <3>1. OnePlace(t) /\ OneEntry(t)
      BY DEF HomeInv, OnePlace
    <3>2. OneEntry(t)' /\ (InStation(t)' <=> InStation(t)) /\ (InAlu(t)' <=> InAlu(t))
      BY <1>5, <2>1, <3>1, AluAfterIdle, SameTags DEF HomeInv, IInv
    <3>3. QED BY <2>1, <3>1, <3>2, Stays DEF Pending, LoadIn
  <2>3. QED BY <2>2
<1>6. ASSUME WriteBackOther
      PROVE  \A t \in Tag : OnePlace(t)'
  <2>1. /\ memRob'.staged = memRob.staged /\ memRob'.active = {}
        /\ \A r \in memRob.active : ~IsLoad(r.instr.op)
        /\ UNCHANGED <<rs, rob, alu, aluMem>>
    BY <1>6 DEF WriteBackOther, Taken, execVars
  <2>2. ASSUME NEW t \in Tag PROVE OnePlace(t)'
    <3>1. OnePlace(t) /\ OneEntry(t)
      BY DEF HomeInv, OnePlace
    <3>2. OneEntry(t)' /\ (InStation(t)' <=> InStation(t)) /\ (InAlu(t)' <=> InAlu(t))
      BY <2>1, <3>1 DEF OneEntry, InStation, InAlu
    <3>3. QED BY <2>1, <3>1, <3>2, Stays DEF Pending, LoadIn
  <2>3. QED BY <2>2
<1>7. ASSUME Commit
      PROVE  \A t \in Tag : OnePlace(t)'
  <2>1. UNCHANGED <<rs, alu, aluMem, memRob>>
    BY <1>7 DEF Commit, backVars
  <2>2. PICK e \in RobEntry : /\ rob.head \in Tag /\ rob.data[rob.head] = {e} /\ e.result # {}
                              /\ rob' = Pop(RobSize, rob)
    BY <1>7, CommitFacts DEF HomeInv, IInv
  <2>3. /\ rob'.data[rob.head] = {}
        /\ \A u \in Tag : u # rob.head => rob'.data[u] = rob.data[u]
    BY <2>2 DEF Pop, HomeInv, IInv, TypeOK, BufferOf, Tag
  <2>4. ASSUME NEW t \in Tag PROVE Pending(t)' <=> Pending(t)
    BY <2>2, <2>3 DEF Pending
  <2>5. ASSUME NEW t \in Tag PROVE OnePlace(t)'
    <3>1. OnePlace(t) /\ OneEntry(t)
      BY DEF HomeInv, OnePlace
    <3>2. OneEntry(t)' /\ (InStation(t)' <=> InStation(t)) /\ (InAlu(t)' <=> InAlu(t))
      BY <2>1, <3>1 DEF OneEntry, InStation, InAlu
    <3>3. QED BY <2>1, <2>4, <3>1, <3>2, Stays DEF LoadIn
  <2>6. QED BY <2>5
<1>8. \A t \in Tag : OnePlace(t)'
  BY <1>3, <1>4, <1>5, <1>6, <1>7, PlacesAfterIssue, PlacesAfterBlocked, PlacesAfterDispatch,
     PlacesAfterExecute, PlacesAfterMem, PlacesAfterLoad, PlacesAfterAdvance DEF Next, MovesOn
<1>9. QED BY <1>1, <1>8 DEF HomeInv, Tag

LEMMA InitHome == ASSUME Init PROVE HomeInv
<1>1. IInv
  BY InitSafe
<1>2. /\ aluMem.staged = {} /\ aluMem.active = {} /\ memRob.staged = {} /\ memRob.active = {}
      /\ DOMAIN rs = {} /\ DOMAIN alu.inProgress = {} /\ \A t \in Tag : rob.data[t] = {}
  BY DEF Init, EmptyLatch, IdleAlu, EmptyBuffer, Tag
<1>3. BackendOrder
  BY <1>2 DEF BackendOrder
<1>4. \A t \in Tag : OnePlace(t)
  BY <1>2 DEF OnePlace, OneEntry, Where, Pending, InStation, InAlu, LoadIn
<1>5. QED BY <1>1, <1>3, <1>4 DEF HomeInv

\* The loads with tag t on the two sides of a latch.
LoadsOf(o, o2, t) == {x \in o \cup o2 : x.tag = t /\ IsLoad(x.instr.op)}

Single(S) == \E y : S = {y}

\* A load on one side of a latch only is the only one in the latch.
LEMMA OneLoad ==
  ASSUME NEW o \in Option(Result), NEW o2 \in Option(Result), NEW t \in Tag,
         (LoadIn(o, t) /\ ~LoadIn(o2, t)) \/ (LoadIn(o2, t) /\ ~LoadIn(o, t))
  PROVE  Single(LoadsOf(o, o2, t))
<1>1. ASSUME NEW a \in Option(Result), NEW b \in Option(Result), LoadIn(a, t), ~LoadIn(b, t)
      PROVE  Single(LoadsOf(a, b, t))
  <2>1. PICK y \in a : y.tag = t /\ IsLoad(y.instr.op)
    BY <1>1 DEF LoadIn
  <2>2. a = {y} /\ \A x \in b : ~(x.tag = t /\ IsLoad(x.instr.op))
    BY <1>1, OptionMember DEF LoadIn
  <2>3. LoadsOf(a, b, t) = {y}
    BY <2>1, <2>2 DEF LoadsOf
  <2>4. QED BY <2>3 DEF Single
<1>2. CASE LoadIn(o, t) /\ ~LoadIn(o2, t)
  BY <1>1, <1>2
<1>3. CASE LoadIn(o2, t) /\ ~LoadIn(o, t)
  <2>1. Single(LoadsOf(o2, o, t))
    BY <1>1, <1>3
  <2>2. LoadsOf(o2, o, t) = LoadsOf(o, o2, t)
    BY DEF LoadsOf
  <2>3. QED BY <2>1, <2>2
<1>4. QED BY <1>2, <1>3

\* The places of OneHome, which does not tell the sides of a latch apart.
LEMMA HomeFromPlace ==
  ASSUME HomeInv, NEW t \in Tag
  PROVE  IF Pending(t) THEN \E h \in Homes(t) : Homes(t) = {h} ELSE Homes(t) = {}
<1>. DEFINE S == {<<"rs", i>> : i \in {j \in DOMAIN rs : rs[j].tag = t}}
            U == {<<"alu", i>> : i \in {j \in DOMAIN alu.inProgress :
                                          alu.inProgress[j].instr.tag = t}}
            M == {<<"aluMem", r.result>> : r \in {x \in aluMem.staged \cup aluMem.active :
                                                    x.tag = t /\ IsLoad(x.instr.op)}}
            W == {<<"memRob", r.result>> : r \in {x \in memRob.staged \cup memRob.active :
                                                    x.tag = t /\ IsLoad(x.instr.op)}}
<1>1. Homes(t) = S \cup U \cup M \cup W
  BY DEF Homes
<1>2. /\ ~InStation(t) => S = {}
      /\ ~InAlu(t) => U = {}
      /\ ~LoadIn(aluMem.staged, t) /\ ~LoadIn(aluMem.active, t) => M = {}
      /\ ~LoadIn(memRob.staged, t) /\ ~LoadIn(memRob.active, t) => W = {}
  BY DEF InStation, InAlu, LoadIn
<1>3. OnePlace(t) /\ OneEntry(t) /\ TypeOK
  BY DEF HomeInv, IInv, OnePlace
<1>4. InStation(t) => \E h : S = {h}
  <2>1. ASSUME NEW i \in DOMAIN rs, rs[i].tag = t PROVE S = {<<"rs", i>>}
    <3>1. {j \in DOMAIN rs : rs[j].tag = t} = {i}
      BY <1>3, <2>1 DEF OneEntry
    <3>2. QED BY <3>1
  <2>2. QED BY <2>1 DEF InStation
<1>5. InAlu(t) => \E h : U = {h}
  <2>1. ASSUME NEW i \in DOMAIN alu.inProgress, alu.inProgress[i].instr.tag = t
        PROVE  U = {<<"alu", i>>}
    <3>1. {j \in DOMAIN alu.inProgress : alu.inProgress[j].instr.tag = t} = {i}
      BY <1>3, <2>1 DEF OneEntry
    <3>2. QED BY <3>1
  <2>2. QED BY <2>1 DEF InAlu
<1>6. /\ aluMem.staged \in Option(Result) /\ aluMem.active \in Option(Result)
      /\ memRob.staged \in Option(Result) /\ memRob.active \in Option(Result)
  BY <1>3 DEF TypeOK, LatchOf
<1>7. LoadIn(aluMem.staged, t) \/ LoadIn(aluMem.active, t) => \E h : M = {h}
  <2>1. ~(LoadIn(aluMem.staged, t) /\ LoadIn(aluMem.active, t))
    BY <1>3, OnlyThere
  <2>2. LoadIn(aluMem.staged, t) \/ LoadIn(aluMem.active, t)
        => Single(LoadsOf(aluMem.staged, aluMem.active, t))
    <3>1. PICK o \in Option(Result), o2 \in Option(Result) : o = aluMem.staged /\ o2 = aluMem.active
      BY <1>6
    <3>2. /\ LoadIn(aluMem.staged, t) <=> LoadIn(o, t)
          /\ LoadIn(aluMem.active, t) <=> LoadIn(o2, t)
          /\ LoadsOf(aluMem.staged, aluMem.active, t) = LoadsOf(o, o2, t)
      BY <3>1 DEF LoadIn, LoadsOf
    <3>3. (LoadIn(o, t) /\ ~LoadIn(o2, t)) \/ (LoadIn(o2, t) /\ ~LoadIn(o, t))
          => Single(LoadsOf(o, o2, t))
      BY <3>1, OneLoad
    <3>4. LoadIn(aluMem.staged, t) \/ LoadIn(aluMem.active, t)
          => (LoadIn(o, t) /\ ~LoadIn(o2, t)) \/ (LoadIn(o2, t) /\ ~LoadIn(o, t))
      BY <2>1, <3>2, Zenon
    <3>5. QED BY <3>2, <3>3, <3>4, Zenon
  <2>3. ASSUME NEW y, LoadsOf(aluMem.staged, aluMem.active, t) = {y}
        PROVE  M = {<<"aluMem", y.result>>}
    BY <2>3 DEF LoadsOf
  <2>4. QED BY <2>2, <2>3 DEF Single
<1>8. LoadIn(memRob.staged, t) \/ LoadIn(memRob.active, t) => \E h : W = {h}
  <2>1. ~(LoadIn(memRob.staged, t) /\ LoadIn(memRob.active, t))
    BY <1>3, OnlyThere
  <2>2. LoadIn(memRob.staged, t) \/ LoadIn(memRob.active, t)
        => Single(LoadsOf(memRob.staged, memRob.active, t))
    <3>1. PICK o \in Option(Result), o2 \in Option(Result) : o = memRob.staged /\ o2 = memRob.active
      BY <1>6
    <3>2. /\ LoadIn(memRob.staged, t) <=> LoadIn(o, t)
          /\ LoadIn(memRob.active, t) <=> LoadIn(o2, t)
          /\ LoadsOf(memRob.staged, memRob.active, t) = LoadsOf(o, o2, t)
      BY <3>1 DEF LoadIn, LoadsOf
    <3>3. (LoadIn(o, t) /\ ~LoadIn(o2, t)) \/ (LoadIn(o2, t) /\ ~LoadIn(o, t))
          => Single(LoadsOf(o, o2, t))
      BY <3>1, OneLoad
    <3>4. LoadIn(memRob.staged, t) \/ LoadIn(memRob.active, t)
          => (LoadIn(o, t) /\ ~LoadIn(o2, t)) \/ (LoadIn(o2, t) /\ ~LoadIn(o, t))
      BY <2>1, <3>2, Zenon
    <3>5. QED BY <3>2, <3>3, <3>4, Zenon
  <2>3. ASSUME NEW y, LoadsOf(memRob.staged, memRob.active, t) = {y}
        PROVE  W = {<<"memRob", y.result>>}
    BY <2>3 DEF LoadsOf
  <2>4. QED BY <2>2, <2>3 DEF Single
<1>. HIDE DEF S, U, M, W
<1>9. CASE ~Pending(t)
  BY <1>1, <1>2, <1>3, <1>9, OnlyThere
<1>10. CASE Pending(t)
  <2>1. PICK p \in Place : Where(t) = {p}
    BY <1>3, <1>10 DEF OnePlace
  <2>2. /\ p = "rs" <=> InStation(t)
        /\ p = "alu" <=> InAlu(t)
        /\ p = "aluStaged" <=> LoadIn(aluMem.staged, t)
        /\ p = "aluActive" <=> LoadIn(aluMem.active, t)
        /\ p = "memStaged" <=> LoadIn(memRob.staged, t)
        /\ p = "memActive" <=> LoadIn(memRob.active, t)
    BY <1>3, <2>1, OnlyThere
  <2>3. \E h : Homes(t) = {h}
    <3>1. CASE p = "rs"
      BY <1>1, <1>2, <1>4, <2>2, <3>1
    <3>2. CASE p = "alu"
      BY <1>1, <1>2, <1>5, <2>2, <3>2
    <3>3. CASE p = "aluStaged" \/ p = "aluActive"
      BY <1>1, <1>2, <1>7, <2>2, <3>3
    <3>4. CASE p = "memStaged" \/ p = "memActive"
      BY <1>1, <1>2, <1>8, <2>2, <3>4
    <3>5. QED BY <3>1, <3>2, <3>3, <3>4 DEF Place
  <2>4. QED BY <1>10, <2>3
<1>11. QED BY <1>9, <1>10

\* Every pending instruction is in exactly one place and a finished one or a free slot
\* in none: no result is lost, produced twice, or delivered to a tag that was reused.
THEOREM EveryResultHasOneHome == Spec => []OneHome
<1>1. Init => HomeInv
  BY InitHome
<1>2. HomeInv /\ [Next]_vars => HomeInv'
  BY HomeStep
<1>3. HomeInv => OneHome
  BY HomeFromPlace DEF OneHome
<1>4. QED BY <1>1, <1>2, <1>3, PTL DEF Spec
=============================================================================
