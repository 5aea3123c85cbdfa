# A verification project for cpu-models

`cpu-models` simulates two processors cycle by cycle: an in-order five-stage
core and an out-of-order core in the style of Tomasulo, both on one pipelined
ALU, and, beside them, a write-through cache. This directory holds TLA+ models
of that code, TLC configurations that check them on small instances, and
theorems about them that TLAPS checks for every value of the constants.

    tlc -config MCSimpleOOO_core.cfg MCSimpleOOO.tla      # a run
    tlapm SimpleOOOProofs.tla                             # a proof module

## 1. The system

| part | source | state | operations |
|---|---|---|---|
| out-of-order core | `simple_ooo/mod.rs` | memory, registers, register alias table, pc, branch stall, four latches | `tick` (IF, ID, IS, dispatch, EX, MEM, WB, commit), `load` |
| reservation station | `simple_ooo/reservation_stations.rs` | list of entries with operands ready or waiting for a tag | `enqueue`, `update`, `dispatch`, `stall` |
| reorder buffer | `simple_ooo/reorder_buffer.rs` | ring of entries; an entry's slot is its tag | `enqueue`, `update`, `release`, `is_tag_ready`, `stall` |
| circular buffer | `utils/circular_buffer.rs` | head, tail, size, slots | `push`, `pop`, access by tag |
| latch | `utils/latch.rs` | a staged and an active value | `stage`, `read`, `peek`, `update` |
| ALU | `alu.rs` | operations in progress with their ages, pipes in use | `try_enqueue`, `tick`, `compute` |
| instruction set | `utils/isa.rs` | none | `decode` |
| in-order core | `five_stage/*.rs` | memory, registers, pc, four latches, ALU, a hazard and a forwarding policy | `tick`, `load` |
| drivers | `main.rs` | the loop counter | `run_ooo`, `run_five_stage` |
| cache | `memory/simple_cache.rs` | table of lines, pending reads, outbox, request ids | `send`, `recv`, `tick` |
| stepped ports | `utils/step.rs` | inbox, the context of the task in progress, outbox | `send`, `pop`, `tick` |
| eviction policy | `memory/tree_lru.rs` | a tree of prediction bits per line | `log_hit`, `get_eviction_id` |
| memory protocol | `memory/mem_fabric.rs` | none | the `Memory` trait: `send`, `recv`, `tick` |
| assembler | `utils/assembler.rs` | none between calls | `assemble`: `clean`, `collect_labels`, `emit` |
| diagnostics | `utils/diag.rs` | none | text out |

How they interact. Everything is one thread. A driver loads words into a core
and calls `tick` in a loop. The out-of-order core issues into the reorder
buffer (on the circular buffer) and the station, dispatches from the station
into the ALU, and broadcasts the ALU's and the loads' results to the station
and the reorder buffer; the reorder buffer's head commits to the registers. The
two cores use the ALU through traits that carry their own data with an
operation. The cache is connected to neither core: it stands between an owner
that sends it requests and a memory below that answers its own, and its two
ports scan the table one way per tick, each keeping its place from tick to
tick.

What is hard. No threads, but a pipeline is concurrency: in every cycle up to
eight instructions are at different places, each place acts on state another
one is about to change, in the order of the statements of `tick`. The
behaviours to get right are the ones a unit test on one component does not
see: when an alias or a tag stops being valid, whether a result reaches
everybody who waits for it, what a stall holds back and what it lets through,
which order memory operations take effect in, what happens when a cycle ends
early, and whether everything that was started ends. In the cache a request is
in one of five places (a port's inbox, its context, its outbox, the pending
buffer, the memory below) while others to the same address are in other ones.
The repository has no tests of the cores and tests the cache one request at a
time; the `hazards` of `PROJECT.json` are this list at the
source line where each bites.

## 2. Modules

| module | what it models |
|---|---|
| `Latch` | `Option<T>` as sets of at most one element, and the two-phase latch |
| `Isa` | decoded instructions, opcode classes, the functional units that support them, `compute` |
| `CircularBuffer` | the ring as operators on a record, with the invariant that makes tags meaningful |
| `RingQueue` | the ring as a component under any sequence of calls; refines `BoundedQueue` |
| `BoundedQueue` | abstract: a bounded FIFO queue with in-place update |
| `Alu` | `try_enqueue` and `tick` as operators on a record |
| `SimpleOOO` | the out-of-order core with station and reorder buffer, and its properties |
| `IsaMachine` | abstract: a machine that executes one instruction at a time |
| `OooRefinement` | `SimpleOOO` with the history that maps it to `IsaMachine` |
| `FiveStage` | the in-order core with its policies |
| `FiveStageDriver` | `run_five_stage`, and the sequential result of a program as a reference |
| `Port` | a stepped port as operators on a record |
| `AtomicMemory` | abstract: what a `Memory` promises its owner |
| `SimpleCache` | the cache with its ports, its owner and the memory below; refines `AtomicMemory` |
| `TreeLRU` | the eviction policy of one line as operators on its bits |
| `Encoding` | instruction words as sets of bit positions: the assembler's encoders and `decode` |
| `Assembler` | `assemble` line by line, every mnemonic and every operand error |
| `LruLine` | the policy of a line under any sequence of hits and fills |
| `OooPrograms`, `MC*` | programs and constants for TLC; `MCSimpleCache` joins cache and policy |
| `CommonLemmas` | options, induction over numbers, functions defined by recursion, the ring's operators |
| `StructureProofs` | the ring is sound and is a queue; the eviction tree spares the ways used last and uses every way |
| `AluProofs` | what the ALU's operators preserve; that it never falls behind |
| `SimpleOOOProofs` | type correctness of the out-of-order core; its ring is sound; what its stalls hold back and what holds them; renaming, wake-up and operand readiness; every pending instruction is in one place |
| `OooRefinementProofs` | the out-of-order core computes what a sequential machine computes, and on loops commits what it executes; that its stores reach memory as committed |
| `FiveStageProofs` | type correctness of the in-order core; one operation at a time; loads and their uses kept apart; well-spaced programs compute the sequential result |
| `SimpleCacheProofs` | type correctness of the cache; its pending buffer matches the memory below; its lines agree with it; the cache implements `AtomicMemory` |
| `AssemblerProofs` | what of a word's fields survives encoding and decoding, format by format; which sources `assemble` accepts, where it puts words and labels, and when a word means what its line asks for |

### How the models correspond to the code

* `Option<T>` is a set with at most one element, so `if let Some(x) = o` is
  `\E x \in o`, and `None` is `{}`.
* Memory is an array of words and an address counts words; `pc + 4` in the code
  is `pc + 1`. Byte and half-word accesses have no representative: they differ
  from `Lw` and `Sw` in width only. Word arithmetic wraps at `WordMod`
  (2^32 in the code).
* `Opcode` keeps one opcode for each way an instruction can differ in format,
  in the unit that executes it, in signedness or in its effect on control.
  `And`, `Or`, `Xor` and the shifts behave as `Add` does everywhere but in the
  value `compute` returns.
* `Decode`, from words to optional instructions, is a constant. A word 0
  decodes to nothing, which the out-of-order core tells apart from other words
  that decode to nothing. Every instruction has all fields: an I-type one has an
  `rs2`, an S- or B-type one an `rd`, as in the code, where these are bits of the
  immediate. The code has paths that look at them.
* `SimpleOOO.tick` is one sequential pass; the variable `stage` says where in it
  the simulator is, and each stage of `tick` has one action per outcome. The
  loop of `dispatch` has one action per iteration (`scan` is its index). The
  result is deterministic after `Init`: the models' nondeterminism is the
  program, the data and the capacities, and TLC explores every one of a family.
* A panic is a terminal value of `stage`: `FetchFault`, `BadWord`, `RobFull`,
  `RsFull`, `MemFault`. The other `unwrap`s and `expect`s of the code are shown
  unreachable: `RobUpdated` on an empty slot and `is_tag_ready` on one
  (`NoLostProducer`, `OneHome`, `RatTracksYoungestWriter`), a pop of an empty
  slot (`RobWindow`), an operand still waiting (`OperandsReadyInExecution`).
* In `FiveStage` the stages read snapshots of the latches, so a tick is one
  action, a conjunction with one operator per stage; a latch between ticks is
  just its active value. The two policies are a variable chosen initially.
* `SimpleCache.tick` is one sequential pass with a `stage`, as in `SimpleOOO`. A
  line of the table is the `PTE` without its valid bit: an option of a tag and a
  value. The read port and the write port are `Port` records; what the two
  processes do with a context is in `ReadPortStep` and `WritePortStep`, one way
  of the set per tick, as `step` returns `Continue` once per way. The eviction
  policy is the trait: a set of states, `LogHit` and `EvictionId` as constants,
  of which the proofs assume only that a victim is a way.
* The cache's surroundings are external. The memory below performs requests in
  the order they are sent and answers in that order. There are three kinds of it
  (`downstream`). A `backed` one has the answer to a read when `recv` asks and
  does not acknowledge writes, as `BackedMemory` of the code's tests answers; a
  `prompt` one acknowledges writes at once, too, and an acknowledgement takes its
  turn and is ignored, as in the code; a `late` one makes `recv` wait as often as
  it likes (`NoAnswer`). Nobody ticks it: `SimpleCache` owns its memory, and
  its `tick` calls `send` and `recv` on it, never `tick`. The owner calls `send` and `recv` between ticks and
  follows one of three disciplines, chosen initially: `disjoint` sends nothing
  to an address it waits for, `readers` may read an address it is reading, `any`
  has no restriction. It leaves at most `InFlightBound` requests unanswered
  and does not run into the id of an unanswered one: ids wrap in the code
  (`wrapping_add`) and nothing checks them, so an owner with 256 requests in
  flight would break any property.
* An instruction word in `Encoding` is the set of the positions of its ones: `|`
  is union, `&` with a mask intersection, a shift moves positions and loses what
  leaves the word, and the arithmetic shift right copies position 31. That keeps
  all 32 bits of a word for TLC and the provers alike.
* The input of `Assembler` is a source whose lines are split and classified: a
  line is blank, a label, or a mnemonic with operands; an operand is a register
  `x<n>` (an ABI name is one), a decimal or a hexadecimal number, a name, or an
  offset with a base. From there on every check is in the code's order, because
  the order decides which error is returned.
* `Alu.Eligible` is the closed form of the loop of `ALU::tick`: with a latency
  of 2 it returns the first operation whose age is 1 or 2, because recording it
  raises `max_age` above what a later candidate could have. An operation of age
  above 2 would never be returned; `AluKeepsUp` says none gets there.

## 3. Runs

Every run is exhaustive within its bounds. The programs are families: every
program of a given length over a list of instructions chosen so that all
formats, all units, dependences at every distance, address faults, zero words
and loops occur.

| run | shows |
|---|---|
| `ring` | the ring of capacity 5 over two elements is a bounded FIFO queue (`IsQueue`), occupies exactly its window (`Window`) |
| `core` | the invariants of the out-of-order core: an alias names the youngest writer in flight; a waiting entry has a pending older producer; nothing executes with a missing operand; an unfinished instruction is in exactly one place; the ALU neither loses nor delays an operation; a stalled frontend has a branch that will resolve; the ring is sound; occupancy and frontend together never exceed a capacity by more than two. And, with `tick` called for ever: every issued instruction commits, every frontend stall ends |
| `isa` | whatever the frontend fetched, adjacent branches and jumps included, committing it is a sequential execution of that stream, registers, memory and loads; on straight-line programs and loops within the limits below (`follows`) it is the stream control flow leads through; memory catches up with committed stores |
| `five` | the in-order core, four combinations of policies: the ALU holds at most one operation, an instruction never executes right behind a load it reads from when loads stall, and programs that keep a distance between dependent instructions compute the sequential result |
| `cache` | the cache is an `AtomicMemory`: requests are answered once, under their ids, writes take effect in order, a read returns what memory holds while it is in flight (for `disjoint` owners) or a value of its address (for `any`); a line holds what memory holds or what the write under way to it brings; the pending buffer is exactly what the memory below has yet to answer. And, with `tick` called for ever: every request is answered, but for the misses a `late` memory holds, and nothing else waits with them |
| `lru` | the victim is none of the last three ways used of eight; eight fills in a row use every way, from any reachable state |
| `asm` | what is emitted decodes to what was asked for, exactly when the operands fit; a source is refused at its first bad line |
| `overflow`, `order`, `jump` | three statements of the out-of-order core's comments that its code does not keep |
| `five_stall` | one of the in-order core's |
| `cache_stale` | one of the cache's tests |

### Bounds and why they are enough

* Capacities of 3 and 4 (station and reorder buffer) in `core`, 4 and 5 in
  `isa`: small enough that both fill up and overflow, each before
  the other in some program, and that tags wrap within a program and are reused
  by a writer of the same register.
  The runs that contradict a comment use the real 8 and 16.
* Words have 4 bits: enough for signed and unsigned comparisons to differ, for
  addition to wrap and for addresses to leave memory. Four registers: x0, and
  three that rename each other.
* Programs of three to seven words with every choice at each place, and loops:
  dependences at every distance up to six instructions, more than a reorder
  buffer of these capacities holds.
* 16 cycles in `five`, enough for the longest program to drain and for the
  program counter to leave memory.
* The cache has two sets of two ways, three addresses that compete for one set
  (so one is always evicted), two values at one of them and a different value
  at each other, so that an answer tells which address it came from. Ids are
  taken modulo 2 with two requests in flight: the ids wrap with every second
  request, at the cache and below it. The `disjoint` owner's cache is over a
  `backed` or a `late` memory, the other one's over a `prompt` or a `late` one: a
  `late` memory may be as fast as a `prompt` one, so safety is checked over that
  for both. The two pairs left out were checked once, liveness included, and
  the theorems hold for all. Without liveness, larger instances with a memory
  below that may delay any answer were explored with no other result: three ids
  and two requests in flight (1.6 million states), three in flight with a
  `disjoint` owner (2.1 million) and with any owner (12.8 million).
* `lru` takes eight ways, the smallest number with two levels below the root.
* `asm` takes every mnemonic with immediates at both sides of every limit (5,
  11, 12, 13, 20, 21 bits and an `i32`), registers below and above 31 and 255,
  and all programs of two and of four lines out of twelve kinds, and the empty one.

### Fairness

`FairSpec` asks for weak fairness of `Next`: the owner of a core calls `tick` in
a loop and a tick always returns or panics. Nothing is assumed of any single
stage. The cache's `FairSpec` asks the same of its `Tick`. Nothing is assumed of
the owner, which need not send anything nor pick up its answers, nor of the
memory below. There the code gives no ground for an assumption: the cache asks
for an answer once in every tick, but the `tick` of the `Memory` trait is how a
memory that takes time gets on, and `SimpleCache` never calls it. So
`EveryRequestAnswered` claims that every request is answered of memories that
have the answer when asked, as the one in the code's tests. Over a `late` one a
miss may wait in the pending buffer for ever; what is claimed then is that it
waits alone: every hit and every write, also one behind the miss or to its
address, is answered, and every read that misses leaves its port.

### What the violations say

* `overflow`: the stall is computed once per cycle before IF, with two words
  already in the frontend: enqueuing the second panics. `SkidBound` is what the
  code does guarantee.
* `order`: a ready load overtakes an older store to the same cell. The programs
  of `isa` access no cell twice, once by a store.
* `jump`: `Jal` and `Jalr` continue at the return address.
* `five_stall`: a stalled word is lost.
* `cache_stale`: two reads of one address in flight together fill two ways with
  the same tag, since a miss does not look at the pending buffer. A write then
  updates the first of them; once that one is evicted, reads return the value
  from before the write, for ever. This needs nothing but reads that overlap:
  the owner in this run waits for its writes, and keeps reads away from them; the
  memory below it is `late`.
  With the `disjoint` owner of `cache` it cannot happen. Nor can the like of it
  with one read only: a fill on its way while a write to its address passes the
  write port puts the old value into the table. That takes an owner that writes
  an address it is reading, of which no property claims that lines and memory
  agree.

Further disagreements need no run of their own. Nothing squashes the two words
behind a branch: `branch_stall` is set when the branch is issued, and they are
issued and committed as delay slots, where a comment says "the frontend is
stalled so no speculative instructions enter the pipeline" (`simple_ooo/mod.rs:157`).
`isa` therefore claims control flow only of programs with zero words, or a jump
to itself, behind each branch, and of the others that the stream they fetch is
executed sequentially. In the in-order core, an instruction directly behind
another one is refused by the ALU, whose one pipe is taken for two cycles, and
is lost, as `tick` ignores what `try_enqueue` returns (`five_stage/mod.rs:141`). `forward` returns at
the first operand it overrides, where its comment speaks of full forwarding
(`forwarding.rs:16`): `WellSpaced` needs `rs1 # rs2`. And `run_five_stage` ticks
`words.len() + 4` times to "drain the pipeline" (`main.rs:64`), while the word
fetched in tick n is written back in tick n + 5, since an operation takes two
ticks in the ALU: the last instruction of a program is not written back. Of
memories, `memory/readme.md:9` says that "in some cases the owner itself might be a
memory of another node"; but a `SimpleCache` under a `SimpleCache` is owned by it
and never ticked, so it answers nothing, and every read that misses above waits for
ever: the `late` memory of `cache` is this one, too.

`WellSpaced` in `FiveStageDriver` is what is left for the in-order core: two
instructions may not be adjacent; at two or three words' distance a result
reaches one operand by forwarding (a load's only at three, and the producer
must really write its rd field); at four words it reaches none; from five on
the register file has it. Two more clauses are about words that are no
instruction of the program's text. `NeverStalls`: the stalling policy
looks at the raw register fields of the word being decoded, so a word that
decodes to nothing, directly behind a load, can name the load's `rd` and make
the core stall, and a stalled word is lost. `RunsItsImage`: every word is
fetched as it was loaded. A program may still store into cells it
has already fetched; `five` has programs that do, and programs with a word that
decodes to nothing. Every clause is necessary: without any one of them `five`
fails.

`Fits` in `Assembler` is what is left of the encoders: a store's offset must be
0 to 4095 (a negative one comes back 4096 too large, because `decode` does not
extend its sign, while a load's may be -2048 to 2047); `lui` and `auipc` take
the upper 20 bits of the number itself, so that a number below 4096 gives 0; a
register is any `x0` to `x255`, and above 31 runs into the next field; a memory
offset that is no decimal number is silently 0: one in hexadecimal fits only if
it is 0, and a name, a register or nothing in its place (`SaidOffset`) asks for
no offset; whatever else is out of range loses its upper bits. `AsmError::ImmediateOutOfRange` exists and is never returned.
`WordsAreWhatWasAsked` is an equivalence: it fails if an operand that does not
fit were encoded correctly, too.

## 4. Proofs

Everything is proved from the assumptions the modules declare
(`IsaAssumption`, `AluAssumption`, `OooAssumption`, `RingAssumption`,
`CacheAssumption`, `PolicyAssumption`, `LruAssumption`, `SourceAssumption`): a word
size above 1, at least one register, one memory word and one slot of each kind,
any pipes, any decoding in which word 0 decodes to nothing, any cache geometry,
any eviction policy whose victims are ways, lines of any power of two of ways,
and any set of sources that are
sequences of blank lines, labels and instructions with a sequence of operands,
their numbers i32 (a text that does not parse as one is a name) and the source
short enough for `4 * Len(source)` to be an i32, as `resolve` casts addresses to.

* `CommonLemmas`: pushing to a ring that is not full, popping one that is not
  empty and replacing an element preserve the types and `WindowInv`. The
  induction rules are derived from the well-foundedness of `<` (a set of
  numbers with 0 that contains the successor of each of its elements contains
  all of them), and `IterationExists` from them: a function defined by recursion
  along the numbers exists, and satisfies its defining equation.
* `StructureProofs`: `RingSound` and `RingIsQueue`, the refinement of
  `BoundedQueue` under `Contents`, one lemma per call. What needs proof is that
  the slot index modulo the capacity is injective on the window.

  Its second part is about `LruLine`, a line of `2^LogAssoc` ways.
  `TreeIsAPolicy` discharges the assumption the cache makes of its policy: the
  victim is a way and a hit leaves a state of the tree.
  `VictimsAreNotRecent`: the victim is none of the last `LogAssoc` ways used. A
  way's path from the root has `LogAssoc` levels, and it is the victim only if
  the bit of each level points its way. A use turns every bit on its own
  path away from itself, and leaves that path towards any other way at one level
  at most, the one where the two part. So the way used `i`-th last has at most
  `i - 1` bits pointing to it (`LruInv`), which for `i` up to `LogAssoc` is not
  all of them.
  `FillsUseEveryWay`: as many fills in a row as there are ways use each of them
  once, whatever the bits were before. The node of level `l` on a way's path is
  passed by every `Power[l]`-th fill, since each node sends the fills that
  pass it left and right in turn (`EveryNodeInTurn`, by induction over the
  levels, counting how often a node's bit has been flipped).
* `AluProofs`: typing of enqueue and tick, which element is where after
  `RemoveAt`, that a first free pipe exists, and that the ALU never falls behind
  (`AluSound`): as ages are distinct, at most one operation is due in a tick; the
  tick returns it and releases the pipe it alone occupies, and every other
  operation is younger, so it is not overdue afterwards.
* `SimpleOOOProofs`: `TypeCorrect` by one lemma per action. `TypeOK` is
  inductive alone, apart from the ring: an entry is ready exactly when it has a
  result (in the type of an entry), which is what makes the result a commit
  takes from the head a word. `RobWindowHolds` adds the ring. `OvershootIsTwo`,
  `StallsAreHeldByBranches` and `AluNeverBehind` come from one invariant,

      FlowInv == TypeOK /\ RobWindow /\ SkidBound /\ FrontendOrder
                 /\ StallHasBranch /\ AluKeepsUp /\ TickedOutsideEX

  `FrontendOrder` says what the frontend's latches can hold at IF and at ID: a
  fetch adds an instruction to at most one other and only below both limits, so
  the sum passes neither by more than two. `TickedOutsideEX` says that an
  operation has age 0 only between a dispatch and the ALU's tick of the same cycle,
  so ages stay distinct. Neither of them is visible at the end of a cycle.
  Its second part has the inductive invariant

      IInv == TypeOK /\ RobWindow /\ RatTracksYoungestWriter
              /\ NoLostProducer /\ OperandsReadyInExecution

  whose conjuncts are all checked by `core`. None of the last three is
  inductive alone. An alias read at issue must name an occupied slot
  (`RatTracksYoungestWriter` and `RobWindow`), for the operand to wait for
  something pending and older (`NoLostProducer`). A commit removes the oldest
  instruction, so it can only clear an alias with no younger writer, and it is
  done, so nobody waits for it. A broadcast removes its tag from every waiting
  operand at the same time as the tag stops being pending. An entry is
  dispatched when it is ready, and `NoLostProducer` says ready means that it
  waits for nothing, which `OperandsReadyInExecution` then carries to the MEM
  stage. Age is the distance from the ring's head, so a push ages nothing and a
  pop makes everyone one younger.

  `EveryResultHasOneHome` strengthens `OneHome` in three ways: it tells the
  staged from the active side of the two memory latches, says that no tag occurs
  twice in the station or in the ALU, and adds which side is empty at which stage
  (`BackendOrder`), without which a stage could overwrite a load:

      HomeInv == IInv /\ BackendOrder /\ \A t \in Tag : OnePlace(t)

  Each action then moves at most one tag, or takes it out with its result. An
  issue needs the tag to be in no place before, which is where the ring's free
  slot comes in.
* `OooRefinementProofs`: `CommitsAreSequential`, that a core whose program keeps
  the cells it stores into to itself implements `IsaMachine` on data, from
  `HomeInv` and

      DataInv(C) == \E m \in {Rom(C, amem)} : InFlight(C, m)
      InFlight(C, m) == Rom(C, mem) = m /\ FrontRight(C, m) /\ RobRight(C, m)
                        /\ StationRight(m) /\ AluRight(m) /\ LoadsRight(C, m)

  `C` is the set of the cells stored into and `m` the rest of memory, which never
  changes. Each copy of an instruction, from the word in IF/ID to the load
  in MEM/ROB, is the one at its address in `m`. An operand it still waits for
  has the tag of the last older writer of the register (`Source`), an operand it
  has is the value that writer gives, or the register file if there is none
  (`Before`), and a finished slot of the reorder buffer holds what its
  instruction yields on such operands (`Computed`). This is a statement about
  each instruction and the ones older than it, so a push disturbs nothing, a
  broadcast turns a wait for a tag into the value, and a commit moves the value
  of the oldest writer from its slot to the register file, where the ones that
  read it now find it. That the operands of the head are then the registers of
  the sequential machine is the case of no older writer left.

  The core does not compare addresses, and a store is performed in MEM, before
  its commit. So the theorem has a hypothesis, `[]Separated(C)`: stores go to
  `C`, loads read elsewhere, and no word fetched from `C` is an instruction.
  Without it the statement is false; the run `order` is a counterexample.
  TLC finds the hypothesis true of `isa`'s straight-line programs for `C` the two
  cells they store to, of its programs of branches and jumps for the empty set, and false of
  the loops that run off their end into a cell they stored an instruction to.
  `LoopsAreSequential` adds control flow: on straight-line code and loops the core
  implements `IsaMachine` and an instruction commits at the program counter of the
  sequential machine (`CommitsFollowControlFlow`). To `HomeInv` and `DataInv(C)` it adds

      ControlInv(n, m) == ChainRight(n, rob, m, apc) /\ FrontPlaces /\ FrontFlow(n, m)
                          /\ \A d \in idRs.staged \cup idRs.active : d.pc < n

  `ChainRight` says that each instruction in the reorder buffer is where the one
  before it leads to, the oldest where the sequential machine is; a branch leads to
  its result, so one that has none leads nowhere and can only be the youngest.
  `FrontFlow` says of the frontend that it holds, in order, the instructions from
  there on, when no branch holds it. When one does, it holds no word that decodes,
  and no word at all in the cycle the branch leaves the ALU (`StalledPlaces`): the
  redirect `pc := target` empties no latch, so it is right only because the words
  fetched behind the branch have been used up when it comes.

  That is also where its hypotheses come from. `OneLoop(n, m)`: in the first `n`
  words of the program, no instruction stands behind a branch and there are no
  jumps; `FetchesBelow(n)`: nothing else that is fetched decodes. Without them the
  words behind a taken branch are issued before it resolves, and commit: the run
  `jump` is the counterexample. They allow any number of backward branches taken
  any number of times in one loop, and TLC checked the invariant on the straight-line
  programs of `isa` and on programs with one loop whose body computes, loads and
  stores (351,465 states, the longest behaviour of 7,939).

  `CommittedStoresLand` is about memory itself, `StoresDrained`: a store is performed
  when `aluMem` reaches MEM and committed when it is the head of the reorder buffer,
  in either order, and neither stage looks at the other. To `HomeInv` and
  `DataInv(C)` it adds

      StoresLand(C, m) ==
        \A k \in C : \A v \in Word :
          Lands(aluMem, mem, k, v) => LastStored(rob, regs, m, amem, k, v)

  What cell `k` will hold once the latch has been emptied into memory (`Lands`) is the
  data of the youngest executed store to `k` still in the reorder buffer or,
  if there is none, what the committed stores left there (`LastStored`). An
  execution adds to both sides, a MEM stage and a commit change neither. The data of a
  store is what it reads of `rs2`, and the result it broadcasts is its address; both come
  from `DataInv`. The hypothesis, beside `[]Separated(C)`, is `[]StoresInOrder`:
  of two stores to one cell, the older is executed first. Nothing in the core sees to
  that: the station compares tags of operands, not addresses. With two stores to one cell
  of which the first waits for its data, TLC finds memory left with the older value.
  TLC found the hypothesis and `StoresLand` true of all programs of `isa` up to where
  they run into a stored instruction (982,518 states).
* `FiveStageProofs`: `FiveTypeCorrect` needs nothing but itself;
  `OneOperationAtATime` and `StallSeparatesLoadUse` assume `Len(Pipes) = 1`, as
  `default_alu()` builds it (`five_stage/mod.rs:52`). The pipe an operation takes
  is released by the second tick, so an offer in between is refused; and what
  is in the ALU after a tick was in ID/EX before it, next to what ID stages.

  `SpacedProgramsAreSequential` is about `run_five_stage`: after any number of
  ticks, a well-spaced program of any length has the registers and the memory that
  executing its words one after the other gives up to the word that has been
  written back. The reference, `Sequential`, is a function defined by recursion
  over the words; it exists by `IterationExists`. The invariant is

      DriverInv == OneInv /\ ImageTyped /\ (Spaced => Aligned)

  where `Aligned` says for every latch and for the ALU which word is in it by the
  number of ticks alone, as in a well-spaced program nothing is ever stalled or
  refused, and that the operands it has read and the result it carries are those of
  the sequential execution. The operands are where spacing is needed: what the
  register file lacks because its writer is still on the way must come by
  forwarding. `OnePipe` is the hypothesis: the ALU has one pipe, which supports
  every opcode, again as `default_alu()` builds it.

* `SimpleCacheProofs`: `TypeCorrect` and `PendingMatchesAnswers`, from

      IInv == TypeOK /\ PendingIsAwaited /\ IdsOf(answers, belowSeq)
              /\ Load(readPort) + Load(writePort) + Len(answers) <= IdMod
              /\ BackedHasAnswered

  with one lemma per action. `PendingIsAwaited` needs the id of the next request
  sent below to be none of those the memory below has yet to answer. As that
  memory answers in order, the unanswered ids are the last `Len(answers)` ones
  before `belowSeq`, modulo `IdMod` (`IdsOf`), even if it does not answer writes:
  a `backed` one has answered everything else by then (`BackedHasAnswered`). The
  next id is free as long as fewer than `IdMod` are unanswered. That is not a matter of the buffer's size,
  which nothing enforces, but of the owner: whatever is in the ports may yet be
  sent below, so the sum over ports and answers must stay within `IdMod`. It
  grows only when the owner sends, within `InFlightBound`; a miss or a write
  through moves one unit from a port to `answers`.

  The second part of the module proves `LinesAgreeWithMemory` and
  `CacheIsAtomicMemory`, the refinement of `AtomicMemory`, from `IInv` and

      MemoryInv == UniqueIds(ReadQueue, pending) /\ ValuesBelong
                   /\ (owner = "disjoint" => Exact)
      Exact     == OneRequestPerAddress /\ LinesHoldTheLatest
                   /\ SearchesMissNothing /\ ReadsAreCurrent

  `ReadQueue` and `WritesInFlight` are what is in the two ports in the order it
  was sent, results first; the lemmas on `InPort` show that a send appends to
  them, a step of a port leaves them alone, and a pop takes their head. So a
  read leaves the set of reads in flight exactly when it is answered
  (`UniqueIds`: the set loses one element, not a duplicate), and a miss, which
  moves a read from the port to the pending buffer, is a stutter. For any owner
  the value it is answered with is one of its address (`ValuesBelong`).

  `LinesAgreeWithStore` is not inductive. A fill must not find a line of its
  address in the table; that is known only if the port looked at every way and
  nothing was filled since, so `SearchesMissNothing` says that the ways a
  context is past do not hold its address, and that no way does for a miss on
  its way down or in the pending buffer. Nothing fills an address but the answer
  to the one request to it (`OneRequestPerAddress`); a fill of another address
  can evict the line, which only helps. `LinesHoldTheLatest` is sharper than
  `LinesAgreeWithStore`: while a write has left the port's context and is not
  yet in the memory below, the line has its value and the memory the old one,
  and before that both have the old one. `ReadsAreCurrent` carries
  what a port or the memory below has read to the answer: no write to that
  address is in flight, so it is still what the memory holds.
* `AssemblerProofs`: for each format, that `decode` finds in a word what the
  encoder put there: every register and funct of its field's width, and of every
  32-bit immediate exactly the low bits the format holds, extended by the sign
  bit in the I, B and J formats and not in the S format. The proofs compare
  words bit position by bit position.

  Its second part is about `assemble`. `AssemblerTyped`, `FirstBadLineStops` and
  `WordsAndLabelsInPlace` come from `AsmInv`, whose core is

      Progress(f) == /\ KeptAt(source, Seen, lines, f)
                     /\ stage # "clean" =>
                          EmittedTo(Reached(Len(source), Len(lines), f, next))

  and `LabelsRight`. `assemble` drops the blank lines in `clean`, takes each
  address it keeps from a running counter, and resolves labels from the kept
  lines only; the properties are about the source. What connects the two is `f`,
  the increasing positions of the kept lines (`KeptAt`): line `k` is line `f[k]`
  of the source, none that is not blank is missing, and its address is
  four times the number of instructions in front of it. So every instruction
  up to the line `emit` has reached is well formed and encoded in the place its
  address names (`EmittedTo`), as the lines between two kept ones add no word.
  Of several labels of one name `collect_labels` keeps the last kept line; as `f`
  increases, that is the last in the source (`LabelsRight`), where `AddrOf`, the
  reference, looks. `AcceptedIsWellFormed` takes `assemble_line` apart parser
  by parser: it finds no error exactly in the lines `WellFormed` describes.

  The third part, `WordsMeanWhatLinesAsk`, is `WordsAreWhatWasAsked` for every
  source. `AsmInv` says which encoding a word is, and the round trips what
  `decode` finds in it; what is left is that this is the instruction asked for
  *exactly* if `Fits` holds of the numbers as numbers, of every i32 and not of
  its bits. `Unsigned` takes bit `i` of `n` from the quotient of `n` and `2^i`,
  so the quotients are followed one halving at a time (`HalfNext`, `BitsOf`):
  bits `k` to 31 are all the sign exactly if `-2^k <= n < 2^k` (`Widths`), bits
  0 to `k - 1` are all zero exactly if `2^k` divides `n` (`Multiples`), and two
  i32 with the same bits are equal (`BitsInjective`). `decode` on its side is
  tables searched by opcode and functs: no two of the rows agree in these
  (`RowsSelect`), so a word with given fields decodes to one known instruction
  or to none (`DecodesTo`, `GetsByFields`), and a register above 31 is never
  found, as five bits cannot say it. From these come one lemma per format, with
  both directions, then one per group of mnemonics (`PseudoMeans`, `RegMeans`,
  `ImmMeans`, `MemMeans`, `BranchMeans`, `LongMeans`), and `LineMeans` for any
  line. Of the immediates out of range only a shift's can change the
  operation decoded: `srli` by 1024 to 1055 is `srai`.

With these, every invariant `core` checks and every property of `cache` but its
liveness hold for every value of the constants, and all of `five`'s, `ring`'s,
`lru`'s and `asm`'s.

Only model-checked: the refinement of `IsaMachine` by the programs of `isa` that
run into a cell they have stored an instruction to; and liveness, which is
outside the prover's reach.

## 5. Not modelled

* How the assembler splits text: comments, commas, the position of brackets,
  the table of ABI names.
* `seed`, a helper of the cache's tests; the panic of the constructor on an
  associativity above the capacity. More than one level of cache, which the
  `Memory` trait allows: the memory below the modelled one answers in order, as
  a cache would not, and a cache there would never be ticked (see section 3).
* `run_ooo`, beyond that it calls `tick`: its 52 cycles are a constant of the
  sample program.
* `diagnose` and `diag.rs`, argument parsing and printing: no state.
* Byte and half-word accesses, unaligned addresses, and the opcodes that differ
  from a kept one in arithmetic only.

## 6. Plan

1. Done: the ring, the ALU, both cores with their invariants, refinement and
   liveness; the cache with its ports, eviction policy and memory protocol; the
   encoders, `decode` and the assembler; theorems on the ring, the ALU, both
   cores, the cache, the encodings and the assembler.
2. The ALU alone, with the loop of `tick` as written against its closed form,
   under more than one operation per cycle and ages at the limit of `u8`.
