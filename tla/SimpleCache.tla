---------------------------- MODULE SimpleCache ----------------------------
(***************************************************************************)
(* The write-through cache of src/src/memory/simple_cache.rs, with its two *)
(* ports, between an owner and the memory below it.                        *)
(*                                                                         *)
(* tick() is one sequential pass; `stage` says where in it the simulator   *)
(* is, in the order of its statements:                                     *)
(*                                                                         *)
(*   Idle: the owner's calls; a tick begins with the read port             *)
(*   WP:   the write port        RR: the result of the read port           *)
(*   DR:   downstream.recv()     WR: the result of the write port          *)
(*                                                                         *)
(* The memory below (external) performs requests in the order they are     *)
(* sent and answers in that order.  `downstream` is one of three kinds:    *)
(*                                                                         *)
(*   backed: it has the answer to a read when recv() asks, and does not    *)
(*           acknowledge writes, as BackedMemory of the code's tests       *)
(*   prompt: it has both answers when recv() asks                          *)
(*   late:   it makes recv() wait, for ever if nobody ticks it, as a       *)
(*           second cache would; and tick() here does not tick it          *)
(***************************************************************************)
EXTENDS Integers, Port

CONSTANTS
  Addr,          \* addresses the owner uses
  ValuesOf,      \* Addr -> the values that may be written there
  Sets, Assoc,   \* 2^k sets of 2^d ways
  IdMod,         \* request ids (256 in the code)
  InFlightBound, \* what the owner lets be unanswered at a time (no bound in the code)
  Owners,        \* disciplines of the owner, see MaySend
  Downstreams,   \* the kinds of memory below that an owner's cache may have
  Policy, NewPolicy, LogHit(_, _, _), EvictionId(_, _)   \* the EvictionPolicy trait

VARIABLES
  table, readPort, writePort,
  idSeq, outbox, pending, policy,
  downstream, store, answers, belowSeq,   \* the memory below
  owner,
  stage

cacheVars == <<table, readPort, writePort, idSeq, outbox, pending, policy>>
belowVars == <<downstream, store, answers, belowSeq>>
vars == <<cacheVars, belowVars, owner, stage>>

Id    == 0 .. IdMod - 1
Index == 0 .. Sets - 1
Below == {"backed", "prompt", "late"}
Way   == 0 .. Assoc - 1
Val   == UNION {ValuesOf[a] : a \in Addr}

\* The line and the tag of an address.
IndexOf(a) == a % Sets
TagOf(a)   == a \div Sets

ReadReq(id, a)     == [id |-> id, addr |-> a]
WriteReq(id, a, v) == [id |-> id, addr |-> a, val |-> v]
ReadResp(id, v)    == [kind |-> "read", id |-> id, val |-> v]
WriteResp(id)      == [kind |-> "write", id |-> id]

ASSUME CacheAssumption ==
  /\ Addr \subseteq Nat
  /\ \A a \in Addr : ValuesOf[a] # {}
  /\ Sets \in Nat \ {0} /\ Assoc \in Nat \ {0}
  /\ IdMod \in Nat \ {0} /\ InFlightBound \in 1 .. IdMod
  /\ Owners \subseteq {"disjoint", "readers", "any"}
  /\ \A o \in Owners : Downstreams[o] \subseteq Below

ASSUME PolicyAssumption ==
  /\ NewPolicy \in Policy
  /\ \A p \in Policy, i \in Index :
       /\ EvictionId(p, i) \in Way
       /\ \A w \in Way : LogHit(p, i, w) \in Policy

Init ==
  /\ table = [l \in Index \X Way |-> {}]
  /\ readPort = EmptyPort /\ writePort = EmptyPort
  /\ idSeq = 0 /\ belowSeq = 0
  /\ outbox = <<>> /\ answers = <<>>
  /\ pending = {}
  /\ policy = NewPolicy
  /\ store \in {m \in [Addr -> Val] : \A a \in Addr : m[a] \in ValuesOf[a]}
  /\ owner \in Owners
  /\ downstream \in Downstreams[owner]
  /\ stage = "Idle"

-----------------------------------------------------------------------------
(* What is in flight. *)

\* The tasks of a port from the one sent first.
InPort(p) == p.outbox \o (IF p.ctx = {} THEN <<>> ELSE <<The(p.ctx)>>) \o p.inbox

ReadsInFlight ==
  {ReadReq(InPort(readPort)[i].id, InPort(readPort)[i].addr) : i \in DOMAIN InPort(readPort)}
    \cup {ReadReq(p.id, p.addr) : p \in pending}

WritesInFlight ==
  [i \in DOMAIN InPort(writePort) |->
     WriteReq(InPort(writePort)[i].id, InPort(writePort)[i].addr, InPort(writePort)[i].val)]

Reading(a) == \E r \in ReadsInFlight : r.addr = a
Writing(a) == \E i \in DOMAIN WritesInFlight : WritesInFlight[i].addr = a

\* What the owner may send: nothing to an address it waits for; or reads together
\* with other reads of the address; or whatever it likes.
MayRead(a) ==
  /\ owner = "disjoint" => ~Reading(a)
  /\ owner # "any" => ~Writing(a)
MayWrite(a) == owner # "any" => ~Reading(a) /\ ~Writing(a)

\* Ids the owner has no answer for yet.  Ids wrap and the cache does not look whether
\* one is free: it is the owner that must not run into its oldest request.
IdsInUse ==
  {r.id : r \in ReadsInFlight} \cup {WritesInFlight[i].id : i \in DOMAIN WritesInFlight}
    \cup {outbox[i].id : i \in DOMAIN outbox}

\* Every request that is somewhere, acknowledgements of the memory below included.
InFlight ==
  Len(InPort(readPort)) + Len(InPort(writePort)) + Len(outbox) + Len(answers)

MaySend == InFlight < InFlightBound /\ idSeq \notin IdsInUse

-----------------------------------------------------------------------------
(* The owner: send() and recv(). *)

\* Mutant: the id does not wrap.
IdUnwrapped(id) == id + 1

NextId(id) == (id + 1) % IdMod

SendRead ==
  /\ stage = "Idle"
  /\ MaySend
  /\ \E a \in Addr :
       /\ MayRead(a)
       /\ readPort' = Sent(readPort, ReadReq(idSeq, a))
  /\ idSeq' = NextId(idSeq)
  /\ UNCHANGED <<table, writePort, outbox, pending, policy, belowVars, owner, stage>>

SendWrite ==
  /\ stage = "Idle"
  /\ MaySend
  /\ \E a \in Addr : \E v \in ValuesOf[a] :
       /\ MayWrite(a)
       /\ writePort' = Sent(writePort, WriteReq(idSeq, a, v))
  /\ idSeq' = NextId(idSeq)
  /\ UNCHANGED <<table, readPort, outbox, pending, policy, belowVars, owner, stage>>

Recv ==
  /\ stage = "Idle"
  /\ outbox # <<>>
  /\ outbox' = Tail(outbox)
  /\ UNCHANGED <<table, readPort, writePort, idSeq, pending, policy, belowVars, owner, stage>>

-----------------------------------------------------------------------------
(* The two ports: ReadPort::step() and WritePort::step(), one way per tick. *)

ReadCtx(r)  == [id |-> r.id, addr |-> r.addr, way |-> 0]
WriteCtx(w) == [id |-> w.id, addr |-> w.addr, val |-> w.val, way |-> 0]

Line(c) == table[<<IndexOf(c.addr), c.way>>]

\* The way the context looks at holds its address.
Matches(c) == \E e \in Line(c) : e.tag = TagOf(c.addr)

\* hit: the value and the way it was found in, none on a miss.
ReadResult(c, hit) == [id |-> c.id, addr |-> c.addr, hit |-> hit]

ReadPortIdle ==
  /\ stage = "Idle"
  /\ Started(readPort, ReadCtx).ctx = {}
  /\ stage' = "WP"
  /\ UNCHANGED <<cacheVars, belowVars, owner>>

ReadPortStep ==
  /\ stage = "Idle"
  /\ LET p == Started(readPort, ReadCtx)
     IN \E c \in p.ctx :
          readPort' =
            IF c.way >= Assoc
              THEN Done(p, ReadResult(c, {}))
            ELSE IF Matches(c)
              THEN Done(p, ReadResult(c, {[val |-> The(Line(c)).val, way |-> c.way]}))
            ELSE Continued(p, [c EXCEPT !.way = @ + 1])
  /\ stage' = "WP"
  /\ UNCHANGED <<table, writePort, idSeq, outbox, pending, policy, belowVars, owner>>

WritePortIdle ==
  /\ stage = "WP"
  /\ Started(writePort, WriteCtx).ctx = {}
  /\ stage' = "RR"
  /\ UNCHANGED <<cacheVars, belowVars, owner>>

\* Mutant: a write that hits leaves the line alone.
RewrittenNot(c) == table

\* A write that hits replaces the value of the line.
Rewritten(c) ==
  [table EXCEPT ![<<IndexOf(c.addr), c.way>>] = {[tag |-> TagOf(c.addr), val |-> c.val]}]

WritePortStep ==
  /\ stage = "WP"
  /\ LET p == Started(writePort, WriteCtx)
     IN \E c \in p.ctx :
          \/ /\ c.way >= Assoc
             /\ writePort' = Done(p, WriteReq(c.id, c.addr, c.val))
             /\ UNCHANGED table
          \/ /\ c.way < Assoc /\ Matches(c)
             /\ writePort' = Done(p, WriteReq(c.id, c.addr, c.val))
             /\ table' = Rewritten(c)
          \/ /\ c.way < Assoc /\ ~Matches(c)
             /\ writePort' = Continued(p, [c EXCEPT !.way = @ + 1])
             /\ UNCHANGED table
  /\ stage' = "RR"
  /\ UNCHANGED <<readPort, idSeq, outbox, pending, policy, belowVars, owner>>

-----------------------------------------------------------------------------
(* The rest of tick(). *)

\* downstream.send(): the id the memory below gives the request.
BelowSends(answer) ==
  /\ answers' = Append(answers, answer)
  /\ belowSeq' = NextId(belowSeq)

ReadResultNone ==
  /\ stage = "RR"
  /\ readPort.outbox = <<>>
  /\ stage' = "DR"
  /\ UNCHANGED <<cacheVars, belowVars, owner>>

ReadHit ==
  /\ stage = "RR"
  /\ readPort.outbox # <<>>
  /\ LET r == Head(readPort.outbox)
     IN \E h \in r.hit :
          /\ outbox' = Append(outbox, ReadResp(r.id, h.val))
          /\ policy' = LogHit(policy, IndexOf(r.addr), h.way)
  /\ readPort' = Popped(readPort)
  /\ stage' = "DR"
  /\ UNCHANGED <<table, writePort, idSeq, pending, belowVars, owner>>

\* pending_buffer.insert(): an entry under the same id is replaced.
Inserted(below, id, a) ==
  {p \in pending : p.below # below} \cup {[below |-> below, id |-> id, addr |-> a]}

ReadMiss ==
  /\ stage = "RR"
  /\ readPort.outbox # <<>>
  /\ LET r == Head(readPort.outbox)
     IN /\ r.hit = {}
        /\ pending' = Inserted(belowSeq, r.id, r.addr)
        /\ BelowSends(ReadResp(belowSeq, store[r.addr]))
  /\ readPort' = Popped(readPort)
  /\ stage' = "DR"
  /\ UNCHANGED <<table, writePort, idSeq, outbox, policy, downstream, store, owner>>

\* recv() below returns None: nothing is there, or it is not ready yet.
NoAnswer ==
  /\ stage = "DR"
  /\ answers = <<>> \/ downstream = "late"
  /\ stage' = "WR"
  /\ UNCHANGED <<cacheVars, belowVars, owner>>

AnswerIgnored ==
  /\ stage = "DR"
  /\ answers # <<>>
  /\ Head(answers).kind = "write"
  /\ answers' = Tail(answers)
  /\ stage' = "WR"
  /\ UNCHANGED <<cacheVars, downstream, store, belowSeq, owner>>

\* Mutant: the entry stays in the pending buffer.
AnsweredButKept(p) == pending

\* Mutant: the line is filled under the tag of its set.
FilledUntagged(a, way, v) ==
  [table EXCEPT ![<<IndexOf(a), way>>] = {[tag |-> IndexOf(a), val |-> v]}]

\* insert_value()
Filled(a, way, v) ==
  [table EXCEPT ![<<IndexOf(a), way>>] = {[tag |-> TagOf(a), val |-> v]}]

Unpended(p) == pending \ {p}

Fill ==
  /\ stage = "DR"
  /\ answers # <<>>
  /\ Head(answers).kind = "read"
  /\ \E p \in pending :
       /\ p.below = Head(answers).id
       /\ LET i   == IndexOf(p.addr)
              way == EvictionId(policy, i)
          IN /\ table' = Filled(p.addr, way, Head(answers).val)
             /\ policy' = LogHit(policy, i, way)
       /\ outbox' = Append(outbox, ReadResp(p.id, Head(answers).val))
       /\ pending' = Unpended(p)
  /\ answers' = Tail(answers)
  /\ stage' = "WR"
  /\ UNCHANGED <<readPort, writePort, idSeq, downstream, store, belowSeq, owner>>

WriteResultNone ==
  /\ stage = "WR"
  /\ writePort.outbox = <<>>
  /\ stage' = "Idle"
  /\ UNCHANGED <<cacheVars, belowVars, owner>>

\* A write below is not answered by every memory.
BelowWrites ==
  IF downstream = "backed"
    THEN belowSeq' = NextId(belowSeq) /\ UNCHANGED answers
    ELSE BelowSends(WriteResp(belowSeq))

\* Every write goes below, whether it hit or not.
WriteThrough ==
  /\ stage = "WR"
  /\ writePort.outbox # <<>>
  /\ LET w == Head(writePort.outbox)
     IN /\ store' = [store EXCEPT ![w.addr] = w.val]
        /\ outbox' = Append(outbox, WriteResp(w.id))
  /\ BelowWrites
  /\ writePort' = Popped(writePort)
  /\ stage' = "Idle"
  /\ UNCHANGED <<table, readPort, idSeq, pending, policy, downstream, owner>>

Answered == AnswerIgnored \/ Fill

Tick ==
  \/ ReadPortIdle \/ ReadPortStep
  \/ WritePortIdle \/ WritePortStep
  \/ ReadResultNone \/ ReadHit \/ ReadMiss
  \/ NoAnswer \/ Answered
  \/ WriteResultNone \/ WriteThrough

Next == SendRead \/ SendWrite \/ Recv \/ Tick

Spec == Init /\ [][Next]_vars

\* The owner calls tick() for ever.
FairSpec == Spec /\ WF_vars(Tick)

-----------------------------------------------------------------------------
(* Properties *)

ReadTask     == [id : Id, addr : Addr]
ReadContext  == [id : Id, addr : Addr, way : 0 .. Assoc]
ReadOutcome  == [id : Id, addr : Addr, hit : Option([val : Val, way : Way])]
WriteTask    == [id : Id, addr : Addr, val : Val]
WriteContext == [id : Id, addr : Addr, val : Val, way : 0 .. Assoc]
Reply        == [kind : {"read"}, id : Id, val : Val]
                  \cup [kind : {"write"}, id : Id]

TypeOK ==
  /\ table \in [Index \X Way -> Option([tag : Nat, val : Val])]
  /\ readPort \in PortOf(ReadTask, ReadContext, ReadOutcome)
  /\ writePort \in PortOf(WriteTask, WriteContext, WriteTask)
  /\ idSeq \in Id /\ belowSeq \in Id
  /\ outbox \in Seq(Reply) /\ answers \in Seq(Reply)
  /\ pending \in SUBSET [below : Id, id : Id, addr : Addr]
  /\ policy \in Policy
  /\ downstream \in Below
  /\ store \in [Addr -> Val]
  /\ owner \in Owners
  /\ stage \in {"Idle", "WP", "RR", "DR", "WR"}

\* The lines that hold address a.
LinesOf(a) == {l \in Index \X Way : l[1] = IndexOf(a) /\ \E e \in table[l] : e.tag = TagOf(a)}

\* For an owner that does not touch an address it waits for: an address is in at
\* most one way, and a line holds what the memory below holds or what the write in
\* flight to its address brings.  A fill that lands after the write port has looked
\* at the line, or a second fill of the same address, would break this.
LinesAgreeWithStore ==
  owner = "disjoint" =>
    \A a \in Addr : \A l, m \in LinesOf(a) :
      /\ l = m
      /\ \A e \in table[l] :
           e.val = store[a] \/ \E i \in DOMAIN WritesInFlight :
                                  /\ WritesInFlight[i].addr = a
                                  /\ WritesInFlight[i].val = e.val

\* The pending buffer holds exactly the reads the memory below has not answered,
\* each under an id of its own: the panic on a response to a non-pending read
\* cannot occur, and no entry is overwritten by a later one, although ids wrap.
PendingIsAwaited ==
  LET awaited == {i \in DOMAIN answers : answers[i].kind = "read"}
  IN /\ {p.below : p \in pending} = {answers[i].id : i \in awaited}
     /\ \A p, q \in pending : p.below = q.below => p = q
     /\ \A i, j \in awaited : answers[i].id = answers[j].id => i = j

Promise == INSTANCE AtomicMemory WITH
  reads <- ReadsInFlight, writes <- WritesInFlight, replies <- outbox,
  exact <- owner = "disjoint"

\* The cache is a memory: every request is answered once, under its id; writes take
\* effect in order; and a read returns what the memory holds while it is in flight,
\* if nothing else is in flight for its address (otherwise some value of that
\* address).
IsAtomicMemory == Promise!Spec

\* Every request is answered, if recv() below answers.  A memory that makes it wait
\* may never answer, as tick() does not tick it; but then nothing waits with it but
\* the misses it has been sent: writes and hits still get through the ports, and a
\* read on its way gets to the pending buffer.
EveryRequestAnswered ==
  \A id \in Id :
    id \in Promise!InUse ~>
      \/ id \notin Promise!InUse
      \/ downstream = "late" /\ \E p \in pending : p.id = id

\* "fill -> write -> read: value written after a fill is what a subsequent read
\* sees" (src/src/memory/simple_cache.rs:759): no read is answered with a value that
\* the memory does not hold, when reads are only sent together with other reads.
WrittenValueIsRead ==
  [][\A r \in ReadsInFlight :
       (r \notin ReadsInFlight' /\ ~Writing(r.addr)) =>
         outbox'[Len(outbox')] = ReadResp(r.id, store[r.addr])]_vars
=============================================================================
