-------------------------- MODULE SimpleCacheProofs --------------------------
(***************************************************************************)
(* Safety of the cache, for every set of addresses and values, every       *)
(* number of sets, ways and ids, and every eviction policy that names ways *)
(* that exist.                                                             *)
(*                                                                         *)
(* The first part, up to PendingMatchesAnswers, is about types, ids and    *)
(* the pending buffer.  The second adds what is in the lines and in flight *)
(* to the invariant: lines and the memory below agree, and the cache       *)
(* implements the memory its owner is promised.                            *)
(***************************************************************************)
EXTENDS SimpleCache, CommonLemmas

-----------------------------------------------------------------------------
(* Sequences *)

LEMMA ConcatLength ==
  ASSUME NEW A, NEW B, NEW s \in Seq(A), NEW t \in Seq(B)
  PROVE  Len(s \o t) = Len(s) + Len(t) /\ s \o t \in Seq(A \cup B)
<1>1. s \in Seq(A \cup B) /\ t \in Seq(A \cup B)
  OBVIOUS
<1> QED BY <1>1

LEMMA AppendFacts ==
  ASSUME NEW S, NEW s \in Seq(S), NEW x \in S
  PROVE  /\ Append(s, x) \in Seq(S)
         /\ Len(Append(s, x)) = Len(s) + 1
OBVIOUS

LEMMA TailFacts ==
  ASSUME NEW S, NEW s \in Seq(S), s # <<>>
  PROVE  /\ Head(s) \in S /\ Tail(s) \in Seq(S)
         /\ Len(s) > 0 /\ Len(Tail(s)) = Len(s) - 1
OBVIOUS

-----------------------------------------------------------------------------
(* Ports *)

\* How many tasks and results are in a port.
Busy(ctx) == IF ctx = {} THEN 0 ELSE 1
Load(p)   == Len(p.outbox) + Busy(p.ctx) + Len(p.inbox)

LEMMA BusyFacts == ASSUME NEW ctx PROVE Busy(ctx) \in Nat /\ Busy({ctx}) = 1 /\ Busy({}) = 0
BY DEF Busy

\* A port is its three parts, and its load what is in them.
LEMMA PartsType ==
  ASSUME NEW T, NEW C, NEW R, NEW in \in Seq(T), NEW ctx \in Option(C), NEW out \in Seq(R)
  PROVE  Parts(in, ctx, out) \in PortOf(T, C, R)
BY DEF Parts, PortOf

LEMMA PartsFields ==
  ASSUME NEW in, NEW ctx, NEW out
  PROVE  /\ Parts(in, ctx, out).inbox = in
         /\ Parts(in, ctx, out).ctx = ctx
         /\ Parts(in, ctx, out).outbox = out
BY DEF Parts

LEMMA PartsLoad ==
  ASSUME NEW in, NEW ctx, NEW out
  PROVE  Load(Parts(in, ctx, out)) = Len(out) + Busy(ctx) + Len(in)
BY PartsFields DEF Load

LEMMA PortFields ==
  ASSUME NEW T, NEW C, NEW R, NEW p \in PortOf(T, C, R)
  PROVE  /\ p.inbox \in Seq(T) /\ p.ctx \in Option(C) /\ p.outbox \in Seq(R)
         /\ Len(p.inbox) \in Nat /\ Busy(p.ctx) \in Nat /\ Len(p.outbox) \in Nat
<1>1. p.inbox \in Seq(T) /\ p.ctx \in Option(C) /\ p.outbox \in Seq(R)
  BY DEF PortOf
<1>2. Len(p.inbox) \in Nat /\ Len(p.outbox) \in Nat
  BY <1>1
<1> QED BY <1>1, <1>2, BusyFacts

LEMMA LoadOfPort ==
  ASSUME NEW T, NEW C, NEW R, NEW p \in PortOf(T, C, R)
  PROVE  Load(p) \in Nat /\ Len(InPort(p)) = Load(p)
<1>0. Load(p) \in Nat
  BY PortFields DEF Load
<1>1. /\ p.inbox \in Seq(T) /\ p.outbox \in Seq(R)
      /\ Len(p.inbox) \in Nat /\ Busy(p.ctx) \in Nat /\ Len(p.outbox) \in Nat
  BY PortFields
<1>2. ASSUME NEW M, NEW m \in Seq(M), Len(m) = Busy(p.ctx)
      PROVE  Len(p.outbox \o m \o p.inbox) = Load(p)
  <2>1. Len(p.outbox \o m) = Len(p.outbox) + Len(m) /\ p.outbox \o m \in Seq(R \cup M)
    BY <1>1, ConcatLength
  <2>2. Len((p.outbox \o m) \o p.inbox) = Len(p.outbox \o m) + Len(p.inbox)
    BY <1>1, <2>1, ConcatLength
  <2> QED BY <1>2, <2>1, <2>2 DEF Load
<1>3. CASE p.ctx = {}
  <2>1. <<>> \in Seq({}) /\ Len(<<>>) = 0
    OBVIOUS
  <2>2. Len(<<>>) = Busy(p.ctx)
    BY <1>3, <2>1, BusyFacts
  <2>3. Len(p.outbox \o <<>> \o p.inbox) = Load(p)
    BY <1>2, <2>1, <2>2
  <2>4. InPort(p) = p.outbox \o <<>> \o p.inbox
    BY <1>3, Zenon DEF InPort
  <2> QED BY <1>0, <2>3, <2>4
<1>4. CASE p.ctx # {}
  <2>1. <<The(p.ctx)>> \in Seq({The(p.ctx)}) /\ Len(<<The(p.ctx)>>) = Busy(p.ctx)
    BY <1>4 DEF Busy
  <2>2. Len(p.outbox \o <<The(p.ctx)>> \o p.inbox) = Load(p)
    BY <1>2, <2>1
  <2>3. InPort(p) = p.outbox \o <<The(p.ctx)>> \o p.inbox
    BY <1>4, Zenon DEF InPort
  <2> QED BY <1>0, <2>2, <2>3
<1> QED BY <1>3, <1>4

\* Sending puts a task in.
LEMMA PortSent ==
  ASSUME NEW T, NEW C, NEW R, NEW p \in PortOf(T, C, R), NEW t \in T
  PROVE  Sent(p, t) \in PortOf(T, C, R) /\ Load(Sent(p, t)) = Load(p) + 1
<1>1. /\ p.inbox \in Seq(T) /\ p.ctx \in Option(C) /\ p.outbox \in Seq(R)
      /\ Len(p.inbox) \in Nat /\ Busy(p.ctx) \in Nat /\ Len(p.outbox) \in Nat
  BY PortFields
<1>2. Append(p.inbox, t) \in Seq(T) /\ Len(Append(p.inbox, t)) = Len(p.inbox) + 1
  BY <1>1, AppendFacts
<1>3. Sent(p, t) \in PortOf(T, C, R)
  BY <1>1, <1>2, PartsType DEF Sent
<1>4. Load(Sent(p, t)) = Len(p.outbox) + Busy(p.ctx) + (Len(p.inbox) + 1)
  BY <1>2, PartsLoad DEF Sent
<1>5. Load(p) + 1 = Len(p.outbox) + Busy(p.ctx) + (Len(p.inbox) + 1)
  BY <1>1 DEF Load
<1> QED BY <1>3, <1>4, <1>5

\* Working on a task leaves as much in the port, whether it goes on ...
LEMMA PortContinued ==
  ASSUME NEW T, NEW C, NEW R, NEW p \in PortOf(T, C, R), p.ctx # {}, NEW c \in C
  PROVE  Continued(p, c) \in PortOf(T, C, R) /\ Load(Continued(p, c)) = Load(p)
<1>1. p.inbox \in Seq(T) /\ p.outbox \in Seq(R)
  BY PortFields
<1>2. {c} \in Option(C)
  BY OptionOfOne
<1>3. Continued(p, c) \in PortOf(T, C, R)
  BY <1>1, <1>2, PartsType DEF Continued
<1>4. Load(Continued(p, c)) = Len(p.outbox) + Busy({c}) + Len(p.inbox)
  BY PartsLoad DEF Continued
<1>5. Busy(p.ctx) = Busy({c})
  BY DEF Busy
<1> QED BY <1>3, <1>4, <1>5 DEF Load

\* ... or is done.
LEMMA PortDone ==
  ASSUME NEW T, NEW C, NEW R, NEW p \in PortOf(T, C, R), p.ctx # {}, NEW r \in R
  PROVE  Done(p, r) \in PortOf(T, C, R) /\ Load(Done(p, r)) = Load(p)
<1>1. /\ p.inbox \in Seq(T) /\ p.outbox \in Seq(R)
      /\ Len(p.inbox) \in Nat /\ Len(p.outbox) \in Nat
  BY PortFields
<1>2. Append(p.outbox, r) \in Seq(R) /\ Len(Append(p.outbox, r)) = Len(p.outbox) + 1
  BY <1>1, AppendFacts
<1>3. {} \in Option(C)
  BY DEF Option
<1>4. Done(p, r) \in PortOf(T, C, R)
  BY <1>1, <1>2, <1>3, PartsType DEF Done
<1>5. Load(Done(p, r)) = (Len(p.outbox) + 1) + 0 + Len(p.inbox)
  BY <1>2, PartsLoad, BusyFacts DEF Done
<1>6. Load(p) = Len(p.outbox) + 1 + Len(p.inbox)
  BY DEF Load, Busy
<1> QED BY <1>1, <1>4, <1>5, <1>6

\* Popping takes a result out.
LEMMA PortPopped ==
  ASSUME NEW T, NEW C, NEW R, NEW p \in PortOf(T, C, R), p.outbox # <<>>
  PROVE  /\ Head(p.outbox) \in R
         /\ Popped(p) \in PortOf(T, C, R) /\ Load(Popped(p)) = Load(p) - 1
<1>1. /\ p.inbox \in Seq(T) /\ p.ctx \in Option(C) /\ p.outbox \in Seq(R)
      /\ Len(p.inbox) \in Nat /\ Busy(p.ctx) \in Nat /\ Len(p.outbox) \in Nat
  BY PortFields
<1>2. /\ Head(p.outbox) \in R /\ Tail(p.outbox) \in Seq(R)
      /\ Len(Tail(p.outbox)) = Len(p.outbox) - 1
  BY <1>1, TailFacts
<1>3. Popped(p) \in PortOf(T, C, R)
  BY <1>1, <1>2, PartsType DEF Popped
<1>4. Load(Popped(p)) = (Len(p.outbox) - 1) + Busy(p.ctx) + Len(p.inbox)
  BY <1>2, PartsLoad DEF Popped
<1>5. Load(p) - 1 = (Len(p.outbox) - 1) + Busy(p.ctx) + Len(p.inbox)
  BY <1>1 DEF Load
<1> QED BY <1>2, <1>3, <1>4, <1>5

\* Starting the next task moves it from the inbox to the context.
LEMMA PortStarted ==
  ASSUME NEW T, NEW C, NEW R, NEW p \in PortOf(T, C, R), p.inbox # <<>>, NEW c \in C
  PROVE  Parts(Tail(p.inbox), {c}, p.outbox) \in PortOf(T, C, R)
<1>1. p.inbox \in Seq(T) /\ p.outbox \in Seq(R)
  BY PortFields
<1>2. Tail(p.inbox) \in Seq(T) /\ {c} \in Option(C)
  BY <1>1, TailFacts, OptionOfOne
<1> QED BY <1>1, <1>2, PartsType

LEMMA LoadStarted ==
  ASSUME NEW T, NEW R, NEW p, p.inbox \in Seq(T), p.outbox \in Seq(R), p.ctx = {}, p.inbox # <<>>,
         NEW c
  PROVE  Load(Parts(Tail(p.inbox), {c}, p.outbox)) = Load(p)
<1>1. Len(p.inbox) \in Nat /\ Len(p.outbox) \in Nat /\ Len(Tail(p.inbox)) = Len(p.inbox) - 1
  BY TailFacts
<1>2. Load(Parts(Tail(p.inbox), {c}, p.outbox)) = Len(p.outbox) + 1 + (Len(p.inbox) - 1)
  BY <1>1, PartsLoad, BusyFacts
<1>3. Load(p) = Len(p.outbox) + 0 + Len(p.inbox)
  BY BusyFacts DEF Load
<1>4. ASSUME NEW m \in Nat, NEW n \in Nat PROVE m + 1 + (n - 1) = m + 0 + n
  OBVIOUS
<1> QED BY <1>1, <1>2, <1>3, <1>4, Zenon

-----------------------------------------------------------------------------
(* What the cache puts into its ports. *)

LEMMA AddressFacts ==
  ASSUME NEW a \in Addr
  PROVE  IndexOf(a) \in Index /\ TagOf(a) \in Nat
<1>1. a \in Nat /\ Sets \in Nat \ {0}
  BY CacheAssumption
<1> QED BY <1>1 DEF IndexOf, TagOf, Index

LEMMA NextIdFacts ==
  ASSUME NEW s \in Id
  PROVE  NextId(s) \in Id /\ NextId(s) = IF s + 1 = IdMod THEN 0 ELSE s + 1
<1>1. IdMod \in Nat \ {0} /\ s \in 0 .. IdMod - 1
  BY CacheAssumption DEF Id
<1> QED BY <1>1 DEF NextId, Id

\* Starting a read keeps the port a port, with as much in it.
LEMMA ReadStarted ==
  ASSUME NEW p \in PortOf(ReadTask, ReadContext, ReadOutcome)
  PROVE  /\ Started(p, ReadCtx) \in PortOf(ReadTask, ReadContext, ReadOutcome)
         /\ Load(Started(p, ReadCtx)) = Load(p)
<1>1. CASE p.ctx = {} /\ p.inbox # <<>>
  <2>1. p.inbox \in Seq(ReadTask) /\ p.outbox \in Seq(ReadOutcome)
    BY PortFields
  <2>2. Head(p.inbox) \in ReadTask
    BY <1>1, <2>1, TailFacts
  <2>3. ReadCtx(Head(p.inbox)) \in ReadContext
    BY <2>2, CacheAssumption DEF ReadCtx, ReadTask, ReadContext
  <2>4. Started(p, ReadCtx) = Parts(Tail(p.inbox), {ReadCtx(Head(p.inbox))}, p.outbox)
    BY <1>1 DEF Started
  <2> DEFINE c == ReadCtx(Head(p.inbox))
  <2>5. Parts(Tail(p.inbox), {c}, p.outbox) \in PortOf(ReadTask, ReadContext, ReadOutcome)
    BY <1>1, <2>3, PortStarted
  <2>6. Load(Parts(Tail(p.inbox), {c}, p.outbox)) = Load(p)
    BY <1>1, <2>1, LoadStarted
  <2> QED BY <2>4, <2>5, <2>6, Zenon
<1>2. CASE ~(p.ctx = {} /\ p.inbox # <<>>)
  BY <1>2 DEF Started
<1> QED BY <1>1, <1>2

\* So does starting a write.
LEMMA WriteStarted ==
  ASSUME NEW p \in PortOf(WriteTask, WriteContext, WriteTask)
  PROVE  /\ Started(p, WriteCtx) \in PortOf(WriteTask, WriteContext, WriteTask)
         /\ Load(Started(p, WriteCtx)) = Load(p)
<1>1. CASE p.ctx = {} /\ p.inbox # <<>>
  <2>1. p.inbox \in Seq(WriteTask) /\ p.outbox \in Seq(WriteTask)
    BY PortFields
  <2>2. Head(p.inbox) \in WriteTask
    BY <1>1, <2>1, TailFacts
  <2>3. WriteCtx(Head(p.inbox)) \in WriteContext
    BY <2>2, CacheAssumption DEF WriteCtx, WriteTask, WriteContext
  <2>4. Started(p, WriteCtx) = Parts(Tail(p.inbox), {WriteCtx(Head(p.inbox))}, p.outbox)
    BY <1>1 DEF Started
  <2> DEFINE c == WriteCtx(Head(p.inbox))
  <2>5. Parts(Tail(p.inbox), {c}, p.outbox) \in PortOf(WriteTask, WriteContext, WriteTask)
    BY <1>1, <2>3, PortStarted
  <2>6. Load(Parts(Tail(p.inbox), {c}, p.outbox)) = Load(p)
    BY <1>1, <2>1, LoadStarted
  <2> QED BY <2>4, <2>5, <2>6, Zenon
<1>2. CASE ~(p.ctx = {} /\ p.inbox # <<>>)
  BY <1>2 DEF Started
<1> QED BY <1>1, <1>2

-----------------------------------------------------------------------------
(* Types *)

LEMMA RecordTypes ==
  ASSUME NEW id \in Id, NEW a \in Addr, NEW v \in Val
  PROVE  /\ ReadReq(id, a) \in ReadTask /\ WriteReq(id, a, v) \in WriteTask
         /\ ReadResp(id, v) \in Reply /\ WriteResp(id) \in Reply
BY DEF ReadReq, WriteReq, ReadResp, WriteResp, ReadTask, WriteTask, Reply

LEMMA ReadContextFacts ==
  ASSUME NEW c \in ReadContext
  PROVE  /\ c.id \in Id /\ c.addr \in Addr /\ c.way \in 0 .. Assoc
         /\ ReadResult(c, {}) \in ReadOutcome
         /\ \A v \in Val, w \in Way : ReadResult(c, {[val |-> v, way |-> w]}) \in ReadOutcome
         /\ c.way < Assoc => [c EXCEPT !.way = @ + 1] \in ReadContext
<1>1. c.id \in Id /\ c.addr \in Addr /\ c.way \in 0 .. Assoc
  BY DEF ReadContext
<1>2. ReadResult(c, {}) \in ReadOutcome
  BY <1>1 DEF ReadResult, ReadOutcome, Option
<1>3. ASSUME NEW v \in Val, NEW w \in Way
      PROVE  ReadResult(c, {[val |-> v, way |-> w]}) \in ReadOutcome
  <2>1. [val |-> v, way |-> w] \in [val : Val, way : Way]
    OBVIOUS
  <2>2. {[val |-> v, way |-> w]} \in Option([val : Val, way : Way])
    BY <2>1, OptionOfOne
  <2> QED BY <1>1, <2>2 DEF ReadResult, ReadOutcome
<1>4. c.way < Assoc => [c EXCEPT !.way = @ + 1] \in ReadContext
  BY CacheAssumption DEF ReadContext
<1> QED BY <1>1, <1>2, <1>3, <1>4

LEMMA WriteContextFacts ==
  ASSUME NEW c \in WriteContext
  PROVE  /\ c.id \in Id /\ c.addr \in Addr /\ c.val \in Val /\ c.way \in 0 .. Assoc
         /\ c.way < Assoc => [c EXCEPT !.way = @ + 1] \in WriteContext
<1>1. c.id \in Id /\ c.addr \in Addr /\ c.val \in Val /\ c.way \in 0 .. Assoc
  BY DEF WriteContext
<1>2. c.way < Assoc => [c EXCEPT !.way = @ + 1] \in WriteContext
  BY CacheAssumption DEF WriteContext
<1> QED BY <1>1, <1>2

TableOf == [Index \X Way -> Option([tag : Nat, val : Val])]

\* Storing a value of an address in a way of its set.
LEMMA LineStored ==
  ASSUME table \in TableOf, NEW a \in Addr, NEW w \in Way, NEW v \in Val
  PROVE  [table EXCEPT ![<<IndexOf(a), w>>] = {[tag |-> TagOf(a), val |-> v]}] \in TableOf
<1>1. [tag |-> TagOf(a), val |-> v] \in [tag : Nat, val : Val]
  BY AddressFacts
<1>2. {[tag |-> TagOf(a), val |-> v]} \in Option([tag : Nat, val : Val])
  BY <1>1, OptionOfOne
<1>3. <<IndexOf(a), w>> \in Index \X Way
  BY AddressFacts
<1> QED BY <1>2, <1>3 DEF TableOf

\* What a way holds.
LEMMA LineFacts ==
  ASSUME table \in TableOf, NEW a \in Addr, NEW w \in Way, table[<<IndexOf(a), w>>] # {}
  PROVE  The(table[<<IndexOf(a), w>>]).val \in Val
<1>1. table[<<IndexOf(a), w>>] \in Option([tag : Nat, val : Val])
  BY AddressFacts DEF TableOf
<1>2. The(table[<<IndexOf(a), w>>]) \in [tag : Nat, val : Val]
  BY <1>1, TheProperties
<1> QED BY <1>2

LEMMA ValueFacts ==
  ASSUME NEW a \in Addr, NEW v \in ValuesOf[a]
  PROVE  v \in Val
BY DEF Val

-----------------------------------------------------------------------------
(* Ids *)

\* The id d requests before id s is given.
Back(s, d) == IF d <= s THEN s - d ELSE s - d + IdMod

LEMMA BackFacts ==
  ASSUME NEW s \in Id, NEW d \in 1 .. IdMod
  PROVE  /\ Back(NextId(s), 1) = s
         /\ d < IdMod => Back(NextId(s), d + 1) = Back(s, d) /\ Back(s, d) # s
         /\ \A e \in 1 .. IdMod : Back(s, d) = Back(s, e) => d = e
<1>1. IdMod \in Nat \ {0} /\ s \in 0 .. IdMod - 1
  BY CacheAssumption DEF Id
<1>2. NextId(s) = IF s + 1 = IdMod THEN 0 ELSE s + 1
  BY NextIdFacts
<1>3. Back(NextId(s), 1) = s
  BY <1>1, <1>2 DEF Back
<1>4. d < IdMod => Back(NextId(s), d + 1) = Back(s, d) /\ Back(s, d) # s
  BY <1>1, <1>2 DEF Back
<1>5. \A e \in 1 .. IdMod : Back(s, d) = Back(s, e) => d = e
  BY <1>1 DEF Back
<1> QED BY <1>3, <1>4, <1>5

\* The answers carry the last ids given below, the newest last.
IdsOf(ans, s) == \A i \in DOMAIN ans : ans[i].id = Back(s, Len(ans) + 1 - i)

Distinct(ans) == \A i, j \in DOMAIN ans : ans[i].id = ans[j].id => i = j

\* The ids of the reads among the answers.
Awaited(ans) == {ans[i].id : i \in {j \in DOMAIN ans : ans[j].kind = "read"}}

LEMMA IdsDistinct ==
  ASSUME NEW ans \in Seq(Reply), NEW s \in Id, IdsOf(ans, s), Len(ans) <= IdMod
  PROVE  /\ Distinct(ans)
         /\ Len(ans) < IdMod => \A i \in DOMAIN ans : ans[i].id # s
<1>1. IdMod \in Nat \ {0} /\ Len(ans) \in Nat /\ DOMAIN ans = 1 .. Len(ans)
  BY CacheAssumption
<1>2. ASSUME NEW i \in DOMAIN ans
      PROVE  Len(ans) + 1 - i \in 1 .. IdMod /\ Len(ans) + 1 - i <= Len(ans)
  BY <1>1
<1>3. ASSUME NEW i \in DOMAIN ans, NEW j \in DOMAIN ans, ans[i].id = ans[j].id
      PROVE  i = j
  <2>1. Back(s, Len(ans) + 1 - i) = Back(s, Len(ans) + 1 - j)
    BY <1>3 DEF IdsOf
  <2>2. Len(ans) + 1 - i = Len(ans) + 1 - j
    BY <1>2, <2>1, BackFacts
  <2> QED BY <1>1, <2>2
<1>4. ASSUME Len(ans) < IdMod, NEW i \in DOMAIN ans
      PROVE  ans[i].id # s
  <2>1. Len(ans) + 1 - i \in 1 .. IdMod /\ Len(ans) + 1 - i < IdMod
    BY <1>1, <1>2, <1>4
  <2>2. Back(s, Len(ans) + 1 - i) # s
    BY <2>1, BackFacts
  <2> QED BY <2>2 DEF IdsOf
<1> QED BY <1>3, <1>4 DEF Distinct

LEMMA IdsAppended ==
  ASSUME NEW ans \in Seq(Reply), NEW s \in Id, IdsOf(ans, s), Len(ans) < IdMod,
         NEW r \in Reply, r.id = s
  PROVE  IdsOf(Append(ans, r), NextId(s))
<1>1. IdMod \in Nat \ {0} /\ Len(ans) \in Nat /\ DOMAIN ans = 1 .. Len(ans)
  BY CacheAssumption
<1>2. Len(Append(ans, r)) = Len(ans) + 1 /\ DOMAIN Append(ans, r) = 1 .. Len(ans) + 1
  BY <1>1
<1>3. ASSUME NEW i \in 1 .. Len(ans) + 1
      PROVE  Append(ans, r)[i].id = Back(NextId(s), Len(ans) + 2 - i)
  <2>1. CASE i = Len(ans) + 1
    <3>1. Append(ans, r)[i] = r /\ Len(ans) + 2 - i = 1
      BY <1>1, <2>1
    <3>2. 1 \in 1 .. IdMod
      BY <1>1
    <3> QED BY <3>1, <3>2, BackFacts
  <2>2. CASE i # Len(ans) + 1
    <3>1. i \in DOMAIN ans /\ Append(ans, r)[i] = ans[i]
      BY <1>1, <2>2
    <3>2. Len(ans) + 1 - i \in 1 .. IdMod /\ Len(ans) + 1 - i < IdMod
          /\ Len(ans) + 2 - i = (Len(ans) + 1 - i) + 1
      BY <1>1, <2>2
    <3>3. Back(NextId(s), (Len(ans) + 1 - i) + 1) = Back(s, Len(ans) + 1 - i)
      BY <3>2, BackFacts
    <3> QED BY <3>1, <3>2, <3>3 DEF IdsOf
  <2> QED BY <2>1, <2>2
<1>4. Len(ans) + 1 + 1 = Len(ans) + 2
  BY <1>1
<1> QED BY <1>2, <1>3, <1>4 DEF IdsOf

LEMMA IdsTailed ==
  ASSUME NEW ans \in Seq(Reply), ans # <<>>, NEW s \in Id, IdsOf(ans, s)
  PROVE  IdsOf(Tail(ans), s)
<1>1. Len(ans) \in Nat \ {0} /\ DOMAIN ans = 1 .. Len(ans)
  OBVIOUS
<1>2. Len(Tail(ans)) = Len(ans) - 1 /\ DOMAIN Tail(ans) = 1 .. Len(ans) - 1
  BY <1>1
<1>3. ASSUME NEW i \in 1 .. Len(ans) - 1
      PROVE  Tail(ans)[i].id = Back(s, (Len(ans) - 1) + 1 - i)
  <2>1. Tail(ans)[i] = ans[i + 1] /\ i + 1 \in DOMAIN ans
    BY <1>1
  <2>2. ASSUME NEW n \in Nat PROVE n + 1 - (i + 1) = (n - 1) + 1 - i
    OBVIOUS
  <2> QED BY <1>1, <2>1, <2>2 DEF IdsOf
<1> QED BY <1>2, <1>3 DEF IdsOf

LEMMA AwaitedMember ==
  ASSUME NEW ans, NEW x
  PROVE  x \in Awaited(ans) <=> \E i \in DOMAIN ans : ans[i].kind = "read" /\ x = ans[i].id
BY Zenon DEF Awaited

LEMMA AwaitedAppended ==
  ASSUME NEW ans \in Seq(Reply), NEW r \in Reply
  PROVE  Awaited(Append(ans, r)) = Awaited(ans) \cup (IF r.kind = "read" THEN {r.id} ELSE {})
<1> DEFINE new == Append(ans, r)
           n == Len(ans)
<1>1. n \in Nat /\ DOMAIN ans = 1 .. n /\ DOMAIN new = 1 .. n + 1
  OBVIOUS
<1>2. new[n + 1] = r /\ \A i \in DOMAIN ans : new[i] = ans[i]
  OBVIOUS
<1>3. DOMAIN new = DOMAIN ans \cup {n + 1}
  BY <1>1
<1> HIDE DEF new, n
<1>4. ASSUME NEW x
      PROVE  x \in Awaited(new) <=> (x \in Awaited(ans) \/ (r.kind = "read" /\ x = r.id))
  BY <1>2, <1>3, AwaitedMember
<1>5. Awaited(new) = Awaited(ans) \cup (IF r.kind = "read" THEN {r.id} ELSE {})
  BY <1>4
<1> QED BY <1>5 DEF new

LEMMA AwaitedTailed ==
  ASSUME NEW ans \in Seq(Reply), ans # <<>>, Distinct(ans)
  PROVE  /\ Awaited(Tail(ans)) = Awaited(ans) \ {Head(ans).id}
         /\ Head(ans).kind = "read" <=> Head(ans).id \in Awaited(ans)
<1> DEFINE new == Tail(ans)
           n == Len(ans)
<1>1. n \in Nat \ {0} /\ DOMAIN ans = 1 .. n /\ DOMAIN new = 1 .. n - 1
  OBVIOUS
<1>2. Head(ans) = ans[1] /\ \A i \in 1 .. n - 1 : new[i] = ans[i + 1]
  OBVIOUS
<1>3. \A i \in 2 .. n : i - 1 \in DOMAIN new /\ new[i - 1] = ans[i]
  BY <1>1, <1>2
<1>4. \A i \in DOMAIN new : i + 1 \in 2 .. n /\ new[i] = ans[i + 1]
  BY <1>1, <1>2
<1>5. DOMAIN ans = {1} \cup 2 .. n /\ 1 \notin 2 .. n
  BY <1>1
<1> HIDE DEF new, n
<1>6. \A i \in 2 .. n : ans[i].id # ans[1].id
  BY <1>5 DEF Distinct
<1>7. ASSUME NEW x
      PROVE  x \in Awaited(new) <=> \E i \in 2 .. n : ans[i].kind = "read" /\ x = ans[i].id
  BY <1>3, <1>4, AwaitedMember
<1>8. ASSUME NEW x
      PROVE  x \in Awaited(new) <=> (x \in Awaited(ans) /\ x # ans[1].id)
  BY <1>5, <1>6, <1>7, AwaitedMember
<1>9. Awaited(new) = Awaited(ans) \ {ans[1].id}
  BY <1>8
<1>10. ans[1].kind = "read" <=> ans[1].id \in Awaited(ans)
  BY <1>5, <1>6, AwaitedMember
<1> QED BY <1>2, <1>9, <1>10 DEF new

-----------------------------------------------------------------------------
(* The invariant *)

\* A memory that answers reads at once has an answer to give only in the tick of a miss.
BackedHasAnswered ==
  downstream = "backed" =>
    answers = <<>> \/ (stage = "DR" /\ Len(answers) = 1)

\* The answers of the memory below to come belong to the requests the cache sent last
\* (a backed memory has none to give when a write passes that it does not answer), and
\* there are never more of them than ids: with what the ports hold and may still send
\* below, they are at most as many.
IInv ==
  /\ TypeOK
  /\ PendingIsAwaited
  /\ IdsOf(answers, belowSeq)
  /\ Load(readPort) + Load(writePort) + Len(answers) <= IdMod
  /\ BackedHasAnswered

\* An entry in the pending buffer for every read that is awaited, and no other.
Matched(pend, ans) ==
  /\ {p.below : p \in pend} = Awaited(ans)
  /\ \A p, q \in pend : p.below = q.below => p = q

LEMMA Numbers ==
  ASSUME TypeOK
  PROVE  /\ Load(readPort) \in Nat /\ Load(writePort) \in Nat
         /\ Len(answers) \in Nat /\ Len(outbox) \in Nat
         /\ IdMod \in Nat \ {0}
<1>1. readPort \in PortOf(ReadTask, ReadContext, ReadOutcome)
      /\ writePort \in PortOf(WriteTask, WriteContext, WriteTask)
      /\ answers \in Seq(Reply) /\ outbox \in Seq(Reply)
  BY DEF TypeOK
<1>2. Load(readPort) \in Nat /\ Load(writePort) \in Nat
  BY <1>1, LoadOfPort
<1>3. Len(answers) \in Nat /\ Len(outbox) \in Nat
  BY <1>1
<1> QED BY <1>2, <1>3, CacheAssumption

\* A step that leaves the memory below and the pending buffer alone.
LEMMA NothingBelow ==
  ASSUME IInv, TypeOK', UNCHANGED <<downstream, answers, belowSeq, pending>>,
         Load(readPort)' + Load(writePort)' + Len(answers) <= IdMod,
         answers = <<>> \/ downstream # "backed" \/ stage' = stage
  PROVE  IInv'
<1>1. PendingIsAwaited'
  BY DEF IInv, PendingIsAwaited
<1>2. IdsOf(answers, belowSeq)'
  BY DEF IInv, IdsOf
<1>3. BackedHasAnswered'
  BY DEF IInv, BackedHasAnswered
<1> QED BY <1>1, <1>2, <1>3 DEF IInv

\* Outside of the middle of a tick a backed memory has nothing to give.
LEMMA BackedIsDone ==
  ASSUME IInv, stage # "DR"
  PROVE  answers = <<>> \/ downstream # "backed"
BY DEF IInv, BackedHasAnswered

LEMMA RoomToSend ==
  ASSUME TypeOK, MaySend
  PROVE  Load(readPort) + Load(writePort) + Len(answers) < IdMod
<1>1. Len(InPort(readPort)) = Load(readPort)
  BY LoadOfPort DEF TypeOK
<1>2. Len(InPort(writePort)) = Load(writePort)
  BY LoadOfPort DEF TypeOK
<1>3. Load(readPort) + Load(writePort) + Len(outbox) + Len(answers) < InFlightBound
  BY <1>1, <1>2 DEF MaySend, InFlight
<1>4. InFlightBound \in 1 .. IdMod
  BY CacheAssumption
<1> QED BY <1>3, <1>4, Numbers

LEMMA SendReadStep ==
  ASSUME IInv, SendRead
  PROVE  IInv'
<1>1. TypeOK /\ idSeq \in Id /\ readPort \in PortOf(ReadTask, ReadContext, ReadOutcome)
  BY DEF IInv, TypeOK
<1>2. PICK a \in Addr : readPort' = Sent(readPort, ReadReq(idSeq, a))
  BY DEF SendRead
<1>3. ReadReq(idSeq, a) \in ReadTask
  BY <1>1 DEF ReadReq, ReadTask
<1>4. readPort' \in PortOf(ReadTask, ReadContext, ReadOutcome)
  BY <1>1, <1>2, <1>3, PortSent
<1>5. Load(readPort') = Load(readPort) + 1
  BY <1>1, <1>2, <1>3, PortSent
<1>6. idSeq' \in Id
  BY <1>1, NextIdFacts DEF SendRead
<1>7. TypeOK'
  BY <1>1, <1>4, <1>6 DEF TypeOK, SendRead, belowVars
<1>8. Load(readPort') + Load(writePort) + Len(answers) <= IdMod
  BY <1>1, <1>5, RoomToSend, Numbers DEF SendRead
<1> QED BY <1>7, <1>8, NothingBelow DEF SendRead, belowVars

LEMMA SendWriteStep ==
  ASSUME IInv, SendWrite
  PROVE  IInv'
<1>1. TypeOK /\ idSeq \in Id /\ writePort \in PortOf(WriteTask, WriteContext, WriteTask)
  BY DEF IInv, TypeOK
<1>2. PICK a \in Addr : \E v \in ValuesOf[a] : writePort' = Sent(writePort, WriteReq(idSeq, a, v))
  BY DEF SendWrite
<1>3. PICK v \in ValuesOf[a] : writePort' = Sent(writePort, WriteReq(idSeq, a, v))
  BY <1>2
<1>3a. WriteReq(idSeq, a, v) \in WriteTask
  BY <1>1, ValueFacts DEF WriteReq, WriteTask
<1>4. writePort' \in PortOf(WriteTask, WriteContext, WriteTask)
  BY <1>1, <1>3, <1>3a, PortSent
<1>5. Load(writePort') = Load(writePort) + 1
  BY <1>1, <1>3, <1>3a, PortSent
<1>6. idSeq' \in Id
  BY <1>1, NextIdFacts DEF SendWrite
<1>7. TypeOK'
  BY <1>1, <1>4, <1>6 DEF TypeOK, SendWrite, belowVars
<1>8. Load(readPort) + Load(writePort') + Len(answers) <= IdMod
  BY <1>1, <1>5, RoomToSend, Numbers DEF SendWrite
<1> QED BY <1>7, <1>8, NothingBelow DEF SendWrite, belowVars

LEMMA RecvStep ==
  ASSUME IInv, Recv
  PROVE  IInv'
<1>1. TypeOK'
  BY TailFacts DEF IInv, TypeOK, Recv, belowVars
<1> QED BY <1>1, NothingBelow DEF IInv, Recv, belowVars

\* The steps of a tick that find nothing to do.
LEMMA IdleStep ==
  ASSUME IInv, ReadPortIdle \/ WritePortIdle \/ ReadResultNone \/ NoAnswer \/ WriteResultNone
  PROVE  IInv'
<1>1. UNCHANGED <<cacheVars, belowVars, owner>> /\ stage' \in {"Idle", "WP", "RR", "DR", "WR"}
  BY DEF ReadPortIdle, WritePortIdle, ReadResultNone, NoAnswer, WriteResultNone
<1>2. TypeOK'
  BY <1>1 DEF IInv, TypeOK, cacheVars, belowVars
<1>3. answers = <<>> \/ downstream # "backed"
  BY BackedIsDone DEF ReadPortIdle, WritePortIdle, ReadResultNone, NoAnswer, WriteResultNone
<1>4. UNCHANGED <<downstream, answers, belowSeq, pending>>
  BY <1>1 DEF cacheVars, belowVars
<1>5. Load(readPort)' + Load(writePort)' + Len(answers) <= IdMod
  BY <1>1 DEF IInv, cacheVars
<1> QED BY <1>2, <1>3, <1>4, <1>5, NothingBelow

LEMMA ReadPortStepStep ==
  ASSUME IInv, ReadPortStep
  PROVE  IInv'
<1> DEFINE p == Started(readPort, ReadCtx)
<1>1. TypeOK /\ readPort \in PortOf(ReadTask, ReadContext, ReadOutcome) /\ table \in TableOf
  BY DEF IInv, TypeOK, TableOf
<1>2. p \in PortOf(ReadTask, ReadContext, ReadOutcome) /\ Load(p) = Load(readPort)
  BY <1>1, ReadStarted
<1>3. PICK c \in p.ctx :
        readPort' = IF c.way >= Assoc THEN Done(p, ReadResult(c, {}))
                    ELSE IF Matches(c)
                      THEN Done(p, ReadResult(c, {[val |-> The(Line(c)).val, way |-> c.way]}))
                    ELSE Continued(p, [c EXCEPT !.way = @ + 1])
  BY DEF ReadPortStep
<1> HIDE DEF p
<1>4. p.ctx # {} /\ c \in ReadContext
  <2>1. p.ctx \in Option(ReadContext)
    BY <1>2, PortFields
  <2> QED BY <1>3, <2>1, TheProperties
<1>5. c.way \in 0 .. Assoc /\ c.addr \in Addr /\ Assoc \in Nat \ {0}
  BY <1>4, ReadContextFacts, CacheAssumption
<1>6. ASSUME c.way >= Assoc
      PROVE  readPort' \in PortOf(ReadTask, ReadContext, ReadOutcome) /\ Load(readPort') = Load(p)
  <2>1. readPort' = Done(p, ReadResult(c, {}))
    BY <1>3, <1>6
  <2>2. ReadResult(c, {}) \in ReadOutcome
    BY <1>4, ReadContextFacts
  <2>3. readPort' \in PortOf(ReadTask, ReadContext, ReadOutcome)
    BY <1>2, <1>4, <2>1, <2>2, PortDone
  <2>4. Load(readPort') = Load(p)
    BY <1>2, <1>4, <2>1, <2>2, <2>3, PortDone
  <2> QED BY <2>3, <2>4
<1>7. ASSUME c.way < Assoc, Matches(c)
      PROVE  readPort' \in PortOf(ReadTask, ReadContext, ReadOutcome) /\ Load(readPort') = Load(p)
  <2>1. readPort' = Done(p, ReadResult(c, {[val |-> The(Line(c)).val, way |-> c.way]}))
    BY <1>3, <1>5, <1>7
  <2>2. c.way \in Way /\ Line(c) # {}
    BY <1>5, <1>7 DEF Way, Matches
  <2>3. The(Line(c)).val \in Val
    BY <1>1, <1>5, <2>2, LineFacts DEF Line
  <2>4. ReadResult(c, {[val |-> The(Line(c)).val, way |-> c.way]}) \in ReadOutcome
    BY <1>4, <2>2, <2>3, ReadContextFacts
  <2>5. readPort' \in PortOf(ReadTask, ReadContext, ReadOutcome)
    BY <1>2, <1>4, <2>1, <2>4, PortDone
  <2>6. Load(readPort') = Load(p)
    BY <1>2, <1>4, <2>1, <2>4, <2>5, PortDone
  <2> QED BY <2>5, <2>6
<1>8. ASSUME c.way < Assoc, ~Matches(c)
      PROVE  readPort' \in PortOf(ReadTask, ReadContext, ReadOutcome) /\ Load(readPort') = Load(p)
  <2>1. readPort' = Continued(p, [c EXCEPT !.way = @ + 1])
    BY <1>3, <1>5, <1>8
  <2>2. [c EXCEPT !.way = @ + 1] \in ReadContext
    BY <1>4, <1>8, ReadContextFacts
  <2>3. readPort' \in PortOf(ReadTask, ReadContext, ReadOutcome)
    BY <1>2, <1>4, <2>1, <2>2, PortContinued
  <2>4. Load(readPort') = Load(p)
    BY <1>2, <1>4, <2>1, <2>2, <2>3, PortContinued
  <2> QED BY <2>3, <2>4
<1>9. readPort' \in PortOf(ReadTask, ReadContext, ReadOutcome) /\ Load(readPort') = Load(p)
  BY <1>5, <1>6, <1>7, <1>8
<1>10. TypeOK'
  BY <1>1, <1>9 DEF TypeOK, ReadPortStep, belowVars
<1>11. answers = <<>> \/ downstream # "backed"
  BY BackedIsDone DEF ReadPortStep
<1> QED BY <1>2, <1>9, <1>10, <1>11, NothingBelow DEF IInv, ReadPortStep, belowVars

LEMMA WritePortStepStep ==
  ASSUME IInv, WritePortStep
  PROVE  IInv'
<1> DEFINE p == Started(writePort, WriteCtx)
<1>1. TypeOK /\ writePort \in PortOf(WriteTask, WriteContext, WriteTask) /\ table \in TableOf
  BY DEF IInv, TypeOK, TableOf
<1>2. p \in PortOf(WriteTask, WriteContext, WriteTask) /\ Load(p) = Load(writePort)
  BY <1>1, WriteStarted
<1>3. PICK c \in p.ctx :
        \/ /\ writePort' = Done(p, WriteReq(c.id, c.addr, c.val))
           /\ table' = table
        \/ /\ c.way < Assoc
           /\ writePort' = Done(p, WriteReq(c.id, c.addr, c.val))
           /\ table' = Rewritten(c)
        \/ /\ c.way < Assoc
           /\ writePort' = Continued(p, [c EXCEPT !.way = @ + 1])
           /\ table' = table
  BY DEF WritePortStep
<1> HIDE DEF p
<1>4. p.ctx # {} /\ c \in WriteContext
  <2>1. p.ctx \in Option(WriteContext)
    BY <1>2, PortFields
  <2> QED BY <1>3, <2>1, TheProperties
<1>5. /\ c.id \in Id /\ c.addr \in Addr /\ c.val \in Val /\ c.way \in 0 .. Assoc
      /\ Assoc \in Nat \ {0}
  BY <1>4, WriteContextFacts, CacheAssumption
<1>6. ASSUME writePort' = Done(p, WriteReq(c.id, c.addr, c.val))
      PROVE  writePort' \in PortOf(WriteTask, WriteContext, WriteTask) /\ Load(writePort') = Load(p)
  <2>1. WriteReq(c.id, c.addr, c.val) \in WriteTask
    BY <1>5 DEF WriteReq, WriteTask
  <2>2. writePort' \in PortOf(WriteTask, WriteContext, WriteTask)
    BY <1>2, <1>4, <1>6, <2>1, PortDone
  <2>3. Load(writePort') = Load(p)
    BY <1>2, <1>4, <1>6, <2>1, <2>2, PortDone
  <2> QED BY <2>2, <2>3
<1>7. ASSUME c.way < Assoc, writePort' = Continued(p, [c EXCEPT !.way = @ + 1])
      PROVE  writePort' \in PortOf(WriteTask, WriteContext, WriteTask) /\ Load(writePort') = Load(p)
  <2>1. [c EXCEPT !.way = @ + 1] \in WriteContext
    BY <1>4, <1>7, WriteContextFacts
  <2>2. writePort' \in PortOf(WriteTask, WriteContext, WriteTask)
    BY <1>2, <1>4, <1>7, <2>1, PortContinued
  <2>3. Load(writePort') = Load(p)
    BY <1>2, <1>4, <1>7, <2>1, <2>2, PortContinued
  <2> QED BY <2>2, <2>3
<1>8. writePort' \in PortOf(WriteTask, WriteContext, WriteTask) /\ Load(writePort') = Load(p)
  BY <1>3, <1>6, <1>7
<1>9. table' \in TableOf
  <2>1. CASE c.way < Assoc /\ table' = Rewritten(c)
    <3>1. c.way \in Way
      BY <1>5, <2>1 DEF Way
    <3> QED BY <1>1, <1>5, <2>1, <3>1, LineStored DEF Rewritten
  <2> QED BY <1>1, <1>3, <2>1
<1>10. TypeOK'
  BY <1>1, <1>8, <1>9 DEF TypeOK, TableOf, WritePortStep, belowVars
<1>11. answers = <<>> \/ downstream # "backed"
  BY BackedIsDone DEF WritePortStep
<1> QED BY <1>2, <1>8, <1>10, <1>11, NothingBelow DEF IInv, WritePortStep, belowVars

LEMMA ReadHitStep ==
  ASSUME IInv, ReadHit
  PROVE  IInv'
<1> DEFINE r == Head(readPort.outbox)
<1>1. TypeOK /\ readPort \in PortOf(ReadTask, ReadContext, ReadOutcome)
      /\ outbox \in Seq(Reply) /\ policy \in Policy
  BY DEF IInv, TypeOK
<1>2. r \in ReadOutcome
  BY <1>1, PortPopped DEF ReadHit
<1>3. Popped(readPort) \in PortOf(ReadTask, ReadContext, ReadOutcome)
  BY <1>1, PortPopped DEF ReadHit
<1>4. Load(Popped(readPort)) = Load(readPort) - 1
  BY <1>1, <1>3, PortPopped DEF ReadHit
<1>5. PICK h \in r.hit :
        /\ outbox' = Append(outbox, ReadResp(r.id, h.val))
        /\ policy' = LogHit(policy, IndexOf(r.addr), h.way)
  BY DEF ReadHit
<1> HIDE DEF r
<1>6. r.id \in Id /\ r.addr \in Addr /\ r.hit \in Option([val : Val, way : Way])
  BY <1>2 DEF ReadOutcome
<1>7. h \in [val : Val, way : Way]
  BY <1>5, <1>6 DEF Option
<1>8. ReadResp(r.id, h.val) \in Reply
  BY <1>6, <1>7, RecordTypes
<1>9. outbox' \in Seq(Reply)
  BY <1>1, <1>5, <1>8, AppendFacts
<1>10. policy' \in Policy
  BY <1>1, <1>5, <1>6, <1>7, AddressFacts, PolicyAssumption
<1>11. TypeOK'
  BY <1>1, <1>3, <1>9, <1>10 DEF TypeOK, ReadHit, belowVars
<1>12. Load(readPort') + Load(writePort) + Len(answers) <= IdMod
  BY <1>1, <1>4, Numbers DEF IInv, ReadHit
<1>13. answers = <<>> \/ downstream # "backed"
  BY BackedIsDone DEF ReadHit
<1> QED BY <1>11, <1>12, <1>13, NothingBelow DEF ReadHit, belowVars

-----------------------------------------------------------------------------
(* The steps that touch the memory below *)

\* With distinct ids, entries that match the answers are what PendingIsAwaited asks for.
LEMMA MatchedIsAwaited ==
  ASSUME Matched(pending', answers'), Distinct(answers')
  PROVE  PendingIsAwaited'
BY DEF PendingIsAwaited, Matched, Distinct, Awaited

LEMMA BelowFacts ==
  ASSUME IInv
  PROVE  /\ answers \in Seq(Reply) /\ belowSeq \in Id
         /\ Matched(pending, answers) /\ Distinct(answers)
         /\ Len(answers) <= IdMod
<1>1. TypeOK /\ answers \in Seq(Reply) /\ belowSeq \in Id
  BY DEF IInv, TypeOK
<1>2. Matched(pending, answers)
  BY DEF IInv, PendingIsAwaited, Matched, Awaited
<1>3. Len(answers) <= IdMod
  BY <1>1, Numbers DEF IInv
<1>4. Distinct(answers)
  BY <1>1, <1>3, IdsDistinct DEF IInv
<1> QED BY <1>1, <1>2, <1>3, <1>4

\* A step that sends a request below out of a port.
LEMMA OneSent ==
  ASSUME IInv, TypeOK', NEW a \in Reply, a.id = belowSeq, BelowSends(a),
         Load(readPort)' + Load(writePort)' + 1 = Load(readPort) + Load(writePort),
         Matched(pending', Append(answers, a)), BackedHasAnswered'
  PROVE  IInv'
<1>1. answers \in Seq(Reply) /\ belowSeq \in Id /\ TypeOK
  BY BelowFacts DEF IInv
<1>2. answers' = Append(answers, a) /\ belowSeq' = NextId(belowSeq)
  BY DEF BelowSends
<1>3. Load(readPort)' \in Nat /\ Load(writePort)' \in Nat
  <2>1. readPort' \in PortOf(ReadTask, ReadContext, ReadOutcome)
        /\ writePort' \in PortOf(WriteTask, WriteContext, WriteTask)
    BY DEF TypeOK
  <2> QED BY <2>1, LoadOfPort
<1>4. Len(answers) < IdMod /\ Len(answers') = Len(answers) + 1
  BY <1>1, <1>2, <1>3, Numbers, AppendFacts DEF IInv
<1>5. Load(readPort)' + Load(writePort)' + Len(answers') <= IdMod
  BY <1>1, <1>3, <1>4, Numbers DEF IInv
<1>6. IdsOf(answers', belowSeq')
  BY <1>1, <1>2, <1>4, IdsAppended DEF IInv
<1>7. answers' \in Seq(Reply) /\ belowSeq' \in Id
  BY DEF TypeOK
<1>8. Len(answers') <= IdMod
  BY <1>1, <1>4, Numbers
<1>9. Distinct(answers')
  BY <1>6, <1>7, <1>8, IdsDistinct
<1>10. PendingIsAwaited'
  BY <1>2, <1>9, MatchedIsAwaited
<1> QED BY <1>5, <1>6, <1>10 DEF IInv

\* A step that takes an answer.
LEMMA OneAnswered ==
  ASSUME IInv, TypeOK', answers # <<>>, answers' = Tail(answers),
         UNCHANGED <<downstream, belowSeq, readPort, writePort>>,
         Matched(pending', Tail(answers))
  PROVE  IInv'
<1>1. answers \in Seq(Reply) /\ belowSeq \in Id /\ TypeOK
  BY BelowFacts DEF IInv
<1>2. Len(answers') = Len(answers) - 1
  BY <1>1, TailFacts
<1>3. Load(readPort)' + Load(writePort)' + Len(answers') <= IdMod
  BY <1>1, <1>2, Numbers DEF IInv
<1>4. IdsOf(answers', belowSeq')
  BY <1>1, IdsTailed DEF IInv
<1>5. answers' \in Seq(Reply)
  BY DEF TypeOK
<1>6. Len(answers') <= IdMod
  BY <1>1, <1>2, Numbers, BelowFacts
<1>7. Distinct(answers')
  BY <1>1, <1>4, <1>5, <1>6, IdsDistinct
<1>8. PendingIsAwaited'
  BY <1>7, MatchedIsAwaited
<1>9. BackedHasAnswered'
  <2>1. ASSUME downstream' = "backed" PROVE answers' = <<>>
    <3>1. Len(answers) = 1
      BY <2>1 DEF IInv, BackedHasAnswered
    <3>2. Len(answers') = 0 /\ answers' \in Seq(Reply)
      BY <1>2, <1>5, <3>1
    <3> QED BY <3>2
  <2> QED BY <2>1 DEF BackedHasAnswered
<1> QED BY <1>3, <1>4, <1>8, <1>9 DEF IInv

\* The next id of the memory below is that of no answer to come.
LEMMA FreshBelow ==
  ASSUME IInv, readPort.outbox # <<>>
  PROVE  belowSeq \notin Awaited(answers)
<1>1. readPort \in PortOf(ReadTask, ReadContext, ReadOutcome) /\ answers \in Seq(Reply)
      /\ belowSeq \in Id /\ TypeOK
  BY DEF IInv, TypeOK
<1>2. Popped(readPort) \in PortOf(ReadTask, ReadContext, ReadOutcome)
  BY <1>1, PortPopped
<1>3. Load(Popped(readPort)) = Load(readPort) - 1 /\ Load(Popped(readPort)) \in Nat
  BY <1>1, <1>2, PortPopped, LoadOfPort
<1>4. Len(answers) < IdMod
  BY <1>1, <1>3, Numbers DEF IInv
<1>5. IdsOf(answers, belowSeq) /\ Len(answers) <= IdMod
  BY BelowFacts DEF IInv
<1>6. \A i \in DOMAIN answers : answers[i].id # belowSeq
  BY <1>1, <1>4, <1>5, IdsDistinct
<1> QED BY <1>6, AwaitedMember

LEMMA ReadMissStep ==
  ASSUME IInv, ReadMiss
  PROVE  IInv'
<1> DEFINE r == Head(readPort.outbox)
           a == ReadResp(belowSeq, store[r.addr])
<1>1. /\ TypeOK /\ readPort \in PortOf(ReadTask, ReadContext, ReadOutcome)
      /\ answers \in Seq(Reply) /\ belowSeq \in Id /\ store \in [Addr -> Val]
      /\ pending \in SUBSET [below : Id, id : Id, addr : Addr]
  BY DEF IInv, TypeOK
<1>2. r \in ReadOutcome
  BY <1>1, PortPopped DEF ReadMiss
<1>3. readPort' \in PortOf(ReadTask, ReadContext, ReadOutcome)
  BY <1>1, PortPopped DEF ReadMiss
<1>4. Load(readPort') = Load(readPort) - 1
  BY <1>1, <1>3, PortPopped DEF ReadMiss
<1>5. pending' = Inserted(belowSeq, r.id, r.addr) /\ BelowSends(a)
  BY DEF ReadMiss
<1>6. r.id \in Id /\ r.addr \in Addr
  BY <1>2 DEF ReadOutcome
<1>7. a \in Reply /\ a.id = belowSeq /\ a.kind = "read"
  <2>1. store[r.addr] \in Val
    BY <1>1, <1>6
  <2> HIDE DEF r
  <2> QED BY <1>1, <2>1 DEF ReadResp, Reply
<1> HIDE DEF r, a
<1>8. answers' = Append(answers, a) /\ belowSeq' = NextId(belowSeq)
  BY <1>5 DEF BelowSends
<1>9. answers' \in Seq(Reply) /\ belowSeq' \in Id
  BY <1>1, <1>7, <1>8, AppendFacts, NextIdFacts
<1>10. pending' = {p \in pending : p.below # belowSeq}
                    \cup {[below |-> belowSeq, id |-> r.id, addr |-> r.addr]}
  BY <1>5 DEF Inserted
<1>11. pending' \in SUBSET [below : Id, id : Id, addr : Addr]
  BY <1>1, <1>6, <1>10
<1>12. TypeOK'
  BY <1>1, <1>3, <1>9, <1>11 DEF TypeOK, ReadMiss
<1>13. belowSeq \notin Awaited(answers)
  BY FreshBelow DEF ReadMiss
<1>14. Matched(pending', Append(answers, a))
  <2>1. Awaited(Append(answers, a)) = Awaited(answers) \cup {belowSeq}
    BY <1>1, <1>7, AwaitedAppended
  <2>2. {p.below : p \in pending} = Awaited(answers)
        /\ \A p, q \in pending : p.below = q.below => p = q
    BY BelowFacts DEF Matched
  <2>3. \A p \in pending : p.below # belowSeq
    BY <1>13, <2>2
  <2>4. pending' = pending \cup {[below |-> belowSeq, id |-> r.id, addr |-> r.addr]}
    BY <1>10, <2>3
  <2> DEFINE new == [below |-> belowSeq, id |-> r.id, addr |-> r.addr]
  <2>4a. new.below = belowSeq /\ pending' = pending \cup {new}
    BY <2>4
  <2> HIDE DEF new
  <2>5. {p.below : p \in pending'} = {p.below : p \in pending} \cup {belowSeq}
    BY <2>4a
  <2>6. \A p, q \in pending' : p.below = q.below => p = q
    BY <2>2, <2>3, <2>4a
  <2> QED BY <2>1, <2>2, <2>5, <2>6 DEF Matched
<1>15. Load(readPort') + Load(writePort) + 1 = Load(readPort) + Load(writePort)
  BY <1>1, <1>4, Numbers
<1>16. BackedHasAnswered'
  <2>1. answers = <<>> \/ downstream # "backed"
    BY BackedIsDone DEF ReadMiss
  <2>2. answers = <<>> => Len(answers') = 1
    BY <1>8
  <2>3. downstream' = downstream /\ stage' = "DR"
    BY DEF ReadMiss
  <2> QED BY <2>1, <2>2, <2>3 DEF BackedHasAnswered
<1> QED BY <1>5, <1>7, <1>12, <1>14, <1>15, <1>16, OneSent DEF ReadMiss

LEMMA WriteThroughStep ==
  ASSUME IInv, WriteThrough
  PROVE  IInv'
<1> DEFINE w == Head(writePort.outbox)
           a == WriteResp(belowSeq)
<1>1. /\ TypeOK /\ writePort \in PortOf(WriteTask, WriteContext, WriteTask)
      /\ answers \in Seq(Reply) /\ outbox \in Seq(Reply)
      /\ belowSeq \in Id /\ store \in [Addr -> Val]
  BY DEF IInv, TypeOK
<1>2. w \in WriteTask
  BY <1>1, PortPopped DEF WriteThrough
<1>3. writePort' \in PortOf(WriteTask, WriteContext, WriteTask)
  BY <1>1, PortPopped DEF WriteThrough
<1>4. Load(writePort') = Load(writePort) - 1
  BY <1>1, <1>3, PortPopped DEF WriteThrough
<1>5. /\ store' = [store EXCEPT ![w.addr] = w.val]
      /\ outbox' = Append(outbox, WriteResp(w.id))
  BY DEF WriteThrough
<1>6. IF downstream = "backed"
        THEN belowSeq' = NextId(belowSeq) /\ answers' = answers
        ELSE BelowSends(a)
  BY DEF WriteThrough, BelowWrites
<1>7. UNCHANGED <<downstream, readPort, pending>>
  BY DEF WriteThrough
<1> HIDE DEF w
<1>8. w.id \in Id /\ w.addr \in Addr /\ w.val \in Val
  BY <1>2 DEF WriteTask
<1>9. a \in Reply /\ a.id = belowSeq /\ a.kind = "write" /\ WriteResp(w.id) \in Reply
  BY <1>1, <1>8 DEF WriteResp, Reply
<1> HIDE DEF a
<1>10. answers' \in Seq(Reply) /\ belowSeq' \in Id
  BY <1>1, <1>6, <1>9, AppendFacts, NextIdFacts DEF BelowSends
<1>11. outbox' \in Seq(Reply)
  BY <1>1, <1>5, <1>9, AppendFacts
<1>12. store' \in [Addr -> Val]
  BY <1>1, <1>5, <1>8
<1>13. TypeOK'
  BY <1>1, <1>3, <1>10, <1>11, <1>12 DEF TypeOK, WriteThrough
<1>14. answers = <<>> \/ downstream # "backed"
  BY BackedIsDone DEF WriteThrough
<1>15. Load(readPort)' + Load(writePort)' + 1 = Load(readPort) + Load(writePort)
  BY <1>1, <1>4, <1>7, Numbers
\* An id that is not answered passes while no answer is to come.
<1>16. CASE downstream = "backed"
  <2>1. answers = <<>> /\ answers' = <<>>
    BY <1>6, <1>14, <1>16
  <2>2. PendingIsAwaited'
    BY <1>7, <2>1 DEF IInv, PendingIsAwaited
  <2>3. IdsOf(answers', belowSeq')
    BY <2>1 DEF IdsOf
  <2>4. Load(readPort)' \in Nat /\ Load(writePort)' \in Nat
    BY <1>13, LoadOfPort DEF TypeOK
  <2>5. Load(readPort)' + Load(writePort)' + Len(answers') <= IdMod
    BY <1>1, <1>15, <2>1, <2>4, Numbers DEF IInv
  <2>6. BackedHasAnswered'
    BY <2>1 DEF BackedHasAnswered
  <2> QED BY <1>13, <2>2, <2>3, <2>5, <2>6 DEF IInv
<1>17. CASE downstream # "backed"
  <2>1. Awaited(Append(answers, a)) = Awaited(answers)
    BY <1>1, <1>9, AwaitedAppended
  <2>2. Matched(pending', Append(answers, a))
    BY <1>7, <2>1, BelowFacts DEF Matched
  <2>3. BackedHasAnswered'
    BY <1>7, <1>17 DEF BackedHasAnswered
  <2> QED BY <1>6, <1>9, <1>13, <1>15, <1>17, <2>2, <2>3, OneSent
<1> QED BY <1>16, <1>17

LEMMA AnswerIgnoredStep ==
  ASSUME IInv, AnswerIgnored
  PROVE  IInv'
<1>1. answers \in Seq(Reply) /\ answers # <<>> /\ Head(answers).kind = "write"
  BY BelowFacts DEF AnswerIgnored
<1>2. Tail(answers) \in Seq(Reply)
  BY <1>1, TailFacts
<1>3. TypeOK'
  BY <1>2 DEF IInv, TypeOK, AnswerIgnored, cacheVars
<1>4. Matched(pending', Tail(answers))
  <2>1. Awaited(Tail(answers)) = Awaited(answers) \ {Head(answers).id}
        /\ Head(answers).id \notin Awaited(answers)
    BY <1>1, BelowFacts, AwaitedTailed
  <2>2. Awaited(Tail(answers)) = Awaited(answers)
    BY <2>1
  <2>3. Matched(pending, answers) /\ pending' = pending
    BY BelowFacts DEF AnswerIgnored, cacheVars
  <2> QED BY <2>2, <2>3 DEF Matched
<1> QED BY <1>1, <1>3, <1>4, OneAnswered DEF AnswerIgnored, cacheVars

LEMMA FillStep ==
  ASSUME IInv, Fill
  PROVE  IInv'
<1> DEFINE h == Head(answers)
<1>1. /\ TypeOK /\ answers \in Seq(Reply) /\ outbox \in Seq(Reply)
      /\ pending \in SUBSET [below : Id, id : Id, addr : Addr]
      /\ policy \in Policy /\ table \in TableOf
  BY DEF IInv, TypeOK, TableOf
<1>2. answers # <<>> /\ h.kind = "read"
  BY DEF Fill
<1>3. h \in Reply /\ Tail(answers) \in Seq(Reply)
  BY <1>1, <1>2, TailFacts
<1>4. PICK p \in pending :
        /\ p.below = h.id
        /\ table' = Filled(p.addr, EvictionId(policy, IndexOf(p.addr)), h.val)
        /\ policy' = LogHit(policy, IndexOf(p.addr), EvictionId(policy, IndexOf(p.addr)))
        /\ outbox' = Append(outbox, ReadResp(p.id, h.val))
        /\ pending' = Unpended(p)
  BY DEF Fill
<1> HIDE DEF h
<1>5. h.val \in Val /\ p.id \in Id /\ p.addr \in Addr
  BY <1>1, <1>2, <1>3, <1>4 DEF Reply
<1>6. IndexOf(p.addr) \in Index
  BY <1>5, AddressFacts
<1>7. EvictionId(policy, IndexOf(p.addr)) \in Way
  BY <1>1, <1>6, PolicyAssumption
<1>8. table' \in TableOf
  BY <1>1, <1>4, <1>5, <1>7, LineStored DEF Filled
<1>9. policy' \in Policy
  BY <1>1, <1>4, <1>6, <1>7, PolicyAssumption
<1>10. outbox' \in Seq(Reply)
  <2>1. ReadResp(p.id, h.val) \in Reply
    BY <1>5 DEF ReadResp, Reply
  <2> QED BY <1>1, <1>4, <2>1, AppendFacts
<1>11. pending' \in SUBSET [below : Id, id : Id, addr : Addr]
  BY <1>1, <1>4 DEF Unpended
<1>12. TypeOK'
  BY <1>1, <1>3, <1>8, <1>9, <1>10, <1>11 DEF TypeOK, TableOf, Fill
<1>13. Matched(pending', Tail(answers))
  <2>1. Awaited(Tail(answers)) = Awaited(answers) \ {h.id}
    BY <1>1, <1>2, BelowFacts, AwaitedTailed DEF h
  <2>2. {q.below : q \in pending} = Awaited(answers)
        /\ \A q, s \in pending : q.below = s.below => q = s
    BY BelowFacts DEF Matched
  <2>3. pending' = pending \ {p} /\ p \in pending /\ p.below = h.id
    BY <1>4 DEF Unpended
  <2>4. {q.below : q \in pending'} = {q.below : q \in pending} \ {h.id}
    BY <2>2, <2>3
  <2>5. \A q, s \in pending' : q.below = s.below => q = s
    BY <2>2, <2>3
  <2> QED BY <2>1, <2>2, <2>4, <2>5 DEF Matched
<1> QED BY <1>2, <1>12, <1>13, OneAnswered DEF Fill

-----------------------------------------------------------------------------
(* Types and the pending buffer *)

LEMMA InitHolds ==
  ASSUME Init
  PROVE  IInv
<1>1. <<>> \in Seq(Reply) /\ Len(<<>>) = 0 /\ DOMAIN <<>> = {}
  OBVIOUS
<1>2. EmptyPort \in PortOf(ReadTask, ReadContext, ReadOutcome)
      /\ EmptyPort \in PortOf(WriteTask, WriteContext, WriteTask)
  BY DEF EmptyPort, PortOf, Parts, Option
<1>3. EmptyPort.outbox = <<>> /\ EmptyPort.ctx = {} /\ EmptyPort.inbox = <<>>
  BY DEF EmptyPort, Parts
<1>4. Load(EmptyPort) = 0 + 0 + 0
  BY <1>1, <1>3, BusyFacts DEF Load
<1>5. 0 \in Id /\ IdMod \in Nat \ {0}
  BY CacheAssumption DEF Id
<1>6. table \in TableOf
  BY DEF Init, TableOf, Option
<1>6a. downstream \in Below
  BY CacheAssumption DEF Init
<1>7. TypeOK
  BY <1>1, <1>2, <1>5, <1>6, <1>6a, PolicyAssumption DEF Init, TypeOK, TableOf
<1>8. PendingIsAwaited
  BY <1>1 DEF Init, PendingIsAwaited
<1>9. IdsOf(answers, belowSeq)
  BY <1>1 DEF Init, IdsOf
<1>10. Load(readPort) + Load(writePort) + Len(answers) <= IdMod
  BY <1>1, <1>4, <1>5 DEF Init
<1>11. BackedHasAnswered
  BY DEF Init, BackedHasAnswered
<1> QED BY <1>7, <1>8, <1>9, <1>10, <1>11 DEF IInv

LEMMA StepHolds ==
  ASSUME IInv, [Next]_vars
  PROVE  IInv'
<1>1. CASE Next
  BY <1>1, SendReadStep, SendWriteStep, RecvStep, IdleStep, ReadPortStepStep, WritePortStepStep,
     ReadHitStep, ReadMissStep, WriteThroughStep, AnswerIgnoredStep, FillStep
     DEF Next, Tick, Answered
<1>2. CASE UNCHANGED vars
  <2>1. TypeOK'
    BY <1>2 DEF IInv, TypeOK, vars, cacheVars, belowVars
  <2> QED BY <1>2, <2>1, NothingBelow DEF IInv, vars, cacheVars, belowVars
<1> QED BY <1>1, <1>2

\* The inductive invariant holds throughout: every state is well typed, pending reads
\* and answers match, and the unanswered ids of the memory below are consecutive.
THEOREM Invariance == Spec => []IInv
<1>1. Init => IInv
  BY InitHolds
<1>2. IInv /\ [Next]_vars => IInv'
  BY StepHolds
<1> QED BY <1>1, <1>2, PTL DEF Spec

\* Every variable keeps its type: requests, contexts, results and lines are made of
\* ids, addresses, values and ways that exist, whatever the eviction policy.
THEOREM TypeCorrect == Spec => []TypeOK
<1>1. IInv => TypeOK
  BY DEF IInv
<1> QED BY <1>1, Invariance, PTL

\* The pending buffer holds exactly the reads the memory below has not answered, each
\* under an id of its own, for every number of ids and any owner that never leaves
\* more requests unanswered than there are ids: tick() cannot panic on a response to a
\* read that is not pending, and no entry is overwritten.
THEOREM PendingMatchesAnswers == Spec => []PendingIsAwaited
<1>1. IInv => PendingIsAwaited
  BY DEF IInv
<1> QED BY <1>1, Invariance, PTL

-----------------------------------------------------------------------------
(* The tasks of a port, one by one *)

LEMMA ConcatAt ==
  ASSUME NEW A, NEW B, NEW s \in Seq(A), NEW t \in Seq(B)
  PROVE  /\ \A i \in 1 .. Len(s) : (s \o t)[i] = s[i]
         /\ \A i \in 1 .. Len(t) : (s \o t)[Len(s) + i] = t[i]
<1>1. s \in Seq(A \cup B) /\ t \in Seq(A \cup B)
  OBVIOUS
<1> QED BY <1>1

\* The results come first, then the task being worked on, then the tasks that wait.
Layout(p) ==
  /\ DOMAIN InPort(p) = 1 .. Load(p)
  /\ \A i \in 1 .. Len(p.outbox) : InPort(p)[i] = p.outbox[i]
  /\ p.ctx # {} => InPort(p)[Len(p.outbox) + 1] = The(p.ctx)
  /\ \A i \in 1 .. Len(p.inbox) : InPort(p)[Len(p.outbox) + Busy(p.ctx) + i] = p.inbox[i]

LEMMA InPortAt ==
  ASSUME NEW T, NEW C, NEW R, NEW p \in PortOf(T, C, R)
  PROVE  InPort(p) \in Seq(R \cup C \cup T) /\ Layout(p)
<1> DEFINE m == IF p.ctx = {} THEN <<>> ELSE <<The(p.ctx)>>
           s == p.outbox \o m
<1>1. /\ p.inbox \in Seq(T) /\ p.ctx \in Option(C) /\ p.outbox \in Seq(R)
      /\ Len(p.inbox) \in Nat /\ Busy(p.ctx) \in Nat /\ Len(p.outbox) \in Nat
  BY PortFields
<1>2. m \in Seq(C) /\ Len(m) = Busy(p.ctx)
  <2>1. CASE p.ctx = {}
    BY <2>1 DEF Busy
  <2>2. CASE p.ctx # {}
    <3>1. The(p.ctx) \in C
      BY <1>1, <2>2, TheProperties
    <3> QED BY <2>2, <3>1 DEF Busy
  <2> QED BY <2>1, <2>2
<1>3. p.ctx # {} => m[1] = The(p.ctx) /\ Busy(p.ctx) = 1
  BY DEF Busy
<1>4. InPort(p) = s \o p.inbox
  BY Zenon DEF InPort
<1> HIDE DEF m
<1>5. s \in Seq(R \cup C) /\ Len(s) = Len(p.outbox) + Busy(p.ctx)
  BY <1>1, <1>2, ConcatLength, SMTT(30)
<1>6. /\ \A i \in 1 .. Len(p.outbox) : s[i] = p.outbox[i]
      /\ \A i \in 1 .. Len(m) : s[Len(p.outbox) + i] = m[i]
  BY <1>1, <1>2, ConcatAt
<1> HIDE DEF s
<1>7. s \o p.inbox \in Seq(R \cup C \cup T)
  BY <1>1, <1>5, ConcatLength
<1>8. /\ \A i \in 1 .. Len(s) : (s \o p.inbox)[i] = s[i]
      /\ \A i \in 1 .. Len(p.inbox) : (s \o p.inbox)[Len(s) + i] = p.inbox[i]
  BY <1>1, <1>5, ConcatAt
<1>9. Len(InPort(p)) = Load(p)
  BY LoadOfPort
<1>10. DOMAIN InPort(p) = 1 .. Load(p)
  BY <1>4, <1>7, <1>9
<1>11. \A i \in 1 .. Len(p.outbox) : InPort(p)[i] = p.outbox[i]
  BY <1>1, <1>4, <1>5, <1>6, <1>8
<1>12. ASSUME p.ctx # {} PROVE InPort(p)[Len(p.outbox) + 1] = The(p.ctx)
  <2>1. Len(p.outbox) + 1 \in 1 .. Len(s) /\ 1 \in 1 .. Len(m)
    BY <1>1, <1>2, <1>3, <1>5, <1>12
  <2> QED BY <1>3, <1>4, <1>6, <1>8, <1>12, <2>1
<1>13. \A i \in 1 .. Len(p.inbox) :
         InPort(p)[Len(p.outbox) + Busy(p.ctx) + i] = p.inbox[i]
  BY <1>4, <1>5, <1>8
<1> QED BY <1>4, <1>7, <1>10, <1>11, <1>12, <1>13 DEF Layout

\* Two sequences that differ at one place at most.
SameBut(k, s, t) ==
  /\ DOMAIN s = DOMAIN t
  /\ \A i \in DOMAIN s : i # k => s[i] = t[i]

\* A port where sending has put a task at the end ...
LEMMA InPortSent ==
  ASSUME NEW T, NEW C, NEW R, NEW p \in PortOf(T, C, R), NEW t \in T
  PROVE  /\ DOMAIN InPort(Sent(p, t)) = 1 .. Load(p) + 1
         /\ \A i \in DOMAIN InPort(p) : InPort(Sent(p, t))[i] = InPort(p)[i]
         /\ InPort(Sent(p, t))[Load(p) + 1] = t
<1> DEFINE q == Sent(p, t)
           n == Len(p.outbox) + Busy(p.ctx)
<1>1. /\ p.inbox \in Seq(T) /\ p.ctx \in Option(C) /\ p.outbox \in Seq(R)
      /\ Len(p.inbox) \in Nat /\ Busy(p.ctx) \in Nat /\ Len(p.outbox) \in Nat
  BY PortFields
<1>2. q \in PortOf(T, C, R) /\ Load(q) = Load(p) + 1
  BY PortSent
<1>3. q.inbox = Append(p.inbox, t) /\ q.ctx = p.ctx /\ q.outbox = p.outbox
  BY DEF Sent, Parts
<1> HIDE DEF q
<1>4. /\ Len(Append(p.inbox, t)) = Len(p.inbox) + 1
      /\ Append(p.inbox, t)[Len(p.inbox) + 1] = t
      /\ \A i \in 1 .. Len(p.inbox) : Append(p.inbox, t)[i] = p.inbox[i]
  BY <1>1
<1>5. Layout(p) /\ Layout(q)
  BY <1>2, InPortAt
<1>6. /\ \A i \in 1 .. Len(p.outbox) : InPort(q)[i] = InPort(p)[i]
      /\ p.ctx # {} => InPort(q)[Len(p.outbox) + 1] = InPort(p)[Len(p.outbox) + 1]
      /\ \A i \in 1 .. Len(p.inbox) : InPort(p)[n + i] = p.inbox[i]
      /\ \A i \in 1 .. Len(p.inbox) + 1 : InPort(q)[n + i] = Append(p.inbox, t)[i]
  BY <1>3, <1>4, <1>5, ZenonT(30) DEF Layout
<1>7. Load(p) = n + Len(p.inbox)
  BY DEF Load
<1>8. n \in Nat /\ (n = Len(p.outbox) \/ (p.ctx # {} /\ n = Len(p.outbox) + 1))
  <2>1. Busy(p.ctx) = 0 \/ (p.ctx # {} /\ Busy(p.ctx) = 1)
    BY DEF Busy
  <2> QED BY <1>1, <2>1
<1> HIDE DEF n
<1>9. ASSUME NEW i \in 1 .. Load(p)
      PROVE  InPort(q)[i] = InPort(p)[i]
  <2>1. CASE i <= Len(p.outbox)
    BY <1>1, <1>6, <2>1
  <2>2. CASE i > Len(p.outbox) /\ i <= n
    <3>1. p.ctx # {} /\ i = Len(p.outbox) + 1
      BY <1>1, <1>8, <2>2
    <3> QED BY <1>6, <3>1
  <2>3. CASE i > n
    <3>1. PICK j \in 1 .. Len(p.inbox) : i = n + j
      <4>1. i - n \in 1 .. Len(p.inbox) /\ i = n + (i - n)
        BY <1>1, <1>7, <1>8, <2>3
      <4> QED BY <4>1
    <3>2. j \in 1 .. Len(p.inbox) + 1
      BY <1>1
    <3> QED BY <1>4, <1>6, <3>1, <3>2
  <2> QED BY <1>1, <1>8, <2>1, <2>2, <2>3
<1>10. InPort(q)[Load(p) + 1] = t
  <2>1. Load(p) + 1 = n + (Len(p.inbox) + 1) /\ Len(p.inbox) + 1 \in 1 .. Len(p.inbox) + 1
    BY <1>1, <1>7, <1>8
  <2> QED BY <1>4, <1>6, <2>1
<1>11. DOMAIN InPort(p) = 1 .. Load(p) /\ DOMAIN InPort(q) = 1 .. Load(p) + 1
  BY <1>2, <1>5 DEF Layout
<1> QED BY <1>9, <1>10, <1>11 DEF q

\* What a step of a port does to its tasks: at most the one worked on looks different.
Reworked(p, q, old, new) ==
  LET k == Len(p.outbox) + 1
  IN /\ SameBut(k, InPort(p), InPort(q))
     /\ k \in DOMAIN InPort(p)
     /\ InPort(p)[k] = old /\ InPort(q)[k] = new

\* Starting a task ...
LEMMA InPortStarted ==
  ASSUME NEW T, NEW C, NEW R, NEW p \in PortOf(T, C, R), p.ctx = {}, p.inbox # <<>>, NEW c \in C
  PROVE  Reworked(p, Parts(Tail(p.inbox), {c}, p.outbox), Head(p.inbox), c)
<1> DEFINE q == Parts(Tail(p.inbox), {c}, p.outbox)
           o == Len(p.outbox)
           l == Len(p.inbox)
<1>1. /\ p.inbox \in Seq(T) /\ p.outbox \in Seq(R) /\ l \in Nat /\ o \in Nat
  BY PortFields
<1>2. q \in PortOf(T, C, R) /\ Load(q) = Load(p)
  BY <1>1, PortStarted, LoadStarted
<1>3. q.inbox = Tail(p.inbox) /\ q.ctx = {c} /\ q.outbox = p.outbox /\ The({c}) = c
  BY OptionOfOne DEF Parts
<1>4. /\ l > 0 /\ Head(p.inbox) = p.inbox[1] /\ Len(Tail(p.inbox)) = l - 1
      /\ \A i \in 1 .. l - 1 : Tail(p.inbox)[i] = p.inbox[i + 1]
  BY <1>1
<1>5. Layout(p) /\ Layout(q)
  BY <1>2, InPortAt
<1>6. Load(p) = o + 0 + l /\ Busy(p.ctx) = 0 /\ Busy(q.ctx) = 1
  BY <1>3, BusyFacts DEF Load
<1> HIDE DEF q
<1>7. /\ DOMAIN InPort(p) = 1 .. o + l /\ DOMAIN InPort(q) = 1 .. o + l
      /\ \A i \in 1 .. o : InPort(p)[i] = p.outbox[i] /\ InPort(q)[i] = p.outbox[i]
      /\ InPort(q)[o + 1] = c
      /\ \A i \in 1 .. l : InPort(p)[o + i] = p.inbox[i]
      /\ \A i \in 1 .. l - 1 : InPort(q)[o + 1 + i] = p.inbox[i + 1]
  <2>1. DOMAIN InPort(p) = 1 .. o + l /\ DOMAIN InPort(q) = 1 .. o + l
    BY <1>1, <1>2, <1>5, <1>6 DEF Layout
  <2>2. \A i \in 1 .. o : InPort(p)[i] = p.outbox[i] /\ InPort(q)[i] = p.outbox[i]
    BY <1>3, <1>5 DEF Layout
  <2>3. InPort(q)[o + 1] = c
    BY <1>3, <1>5 DEF Layout
  <2>4. \A i \in 1 .. l : InPort(p)[o + 0 + i] = p.inbox[i]
    BY <1>5, <1>6, Zenon DEF Layout
  <2>5. \A i \in 1 .. l : o + 0 + i = o + i
    BY <1>1
  <2>6. \A i \in 1 .. l - 1 : InPort(q)[o + 1 + i] = p.inbox[i + 1]
    <3>1. \A i \in 1 .. l - 1 : InPort(q)[o + 1 + i] = Tail(p.inbox)[i]
      BY <1>3, <1>4, <1>5, <1>6, ZenonT(30) DEF Layout
    <3> QED BY <1>4, <3>1, Zenon
  <2> QED BY <2>1, <2>2, <2>3, <2>4, <2>5, <2>6, Zenon
<1> HIDE DEF o, l
<1>8. o + 1 \in 1 .. o + l /\ InPort(p)[o + 1] = Head(p.inbox)
  BY <1>1, <1>4, <1>7
<1>9. ASSUME NEW i \in 1 .. o + l, i # o + 1
      PROVE  InPort(p)[i] = InPort(q)[i]
  <2>1. CASE i <= o
    BY <1>1, <1>7, <2>1
  <2>2. CASE i > o
    <3>1. PICK j \in 1 .. l - 1 : i = o + 1 + j
      <4>1. i - o - 1 \in 1 .. l - 1 /\ i = o + 1 + (i - o - 1)
        BY <1>1, <1>9, <2>2
      <4> QED BY <4>1
    <3>2. InPort(q)[i] = p.inbox[j + 1]
      BY <1>7, <3>1
    <3>3. j + 1 \in 1 .. l /\ i = o + (j + 1)
      BY <1>1, <3>1
    <3>4. InPort(p)[i] = p.inbox[j + 1]
      BY <1>7, <3>3, Zenon
    <3> QED BY <3>2, <3>4
  <2> QED BY <1>1, <2>1, <2>2
<1> QED BY <1>7, <1>8, <1>9 DEF Reworked, SameBut, o, q

\* ... going on with it ...
LEMMA InPortContinued ==
  ASSUME NEW T, NEW C, NEW R, NEW p \in PortOf(T, C, R), NEW c \in C, p.ctx = {c}, NEW d \in C
  PROVE  Reworked(p, Continued(p, d), c, d)
<1> DEFINE q == Continued(p, d)
           o == Len(p.outbox)
           l == Len(p.inbox)
<1>1. /\ p.inbox \in Seq(T) /\ p.outbox \in Seq(R) /\ l \in Nat /\ o \in Nat
  BY PortFields
<1>2. q \in PortOf(T, C, R) /\ Load(q) = Load(p)
  <2>1. p.ctx # {}
    OBVIOUS
  <2>2. q \in PortOf(T, C, R)
    BY <2>1, PortContinued
  <2>3. Load(q) = Load(p)
    BY <2>1, <2>2, PortContinued
  <2> QED BY <2>2, <2>3
<1>3. /\ q.inbox = p.inbox /\ q.ctx = {d} /\ q.outbox = p.outbox
      /\ The({c}) = c /\ The({d}) = d
  BY OptionOfOne DEF Parts, Continued
<1>4. Layout(p) /\ Layout(q)
  BY <1>2, InPortAt
<1>5. Load(p) = o + 1 + l /\ Busy(p.ctx) = 1 /\ Busy(q.ctx) = 1
  BY <1>3, BusyFacts DEF Load
<1> HIDE DEF q
<1>6. /\ DOMAIN InPort(p) = 1 .. o + 1 + l /\ DOMAIN InPort(q) = 1 .. o + 1 + l
      /\ \A i \in 1 .. o : InPort(p)[i] = InPort(q)[i]
      /\ InPort(p)[o + 1] = c /\ InPort(q)[o + 1] = d
      /\ \A i \in 1 .. l : InPort(p)[o + 1 + i] = InPort(q)[o + 1 + i]
  <2>1. DOMAIN InPort(p) = 1 .. o + 1 + l /\ DOMAIN InPort(q) = 1 .. o + 1 + l
    BY <1>1, <1>2, <1>4, <1>5 DEF Layout
  <2>2. \A i \in 1 .. o : InPort(p)[i] = InPort(q)[i]
    BY <1>3, <1>4 DEF Layout
  <2>3. InPort(p)[o + 1] = c /\ InPort(q)[o + 1] = d
    BY <1>3, <1>4 DEF Layout
  <2>4. \A i \in 1 .. l : InPort(p)[o + 1 + i] = InPort(q)[o + 1 + i]
    <3>1. \A i \in 1 .. l : InPort(q)[o + 1 + i] = p.inbox[i]
      BY <1>3, <1>4, <1>5, Zenon DEF Layout
    <3>2. \A i \in 1 .. l : InPort(p)[o + 1 + i] = p.inbox[i]
      BY <1>4, <1>5, Zenon DEF Layout
    <3> QED BY <3>1, <3>2, Zenon
  <2> QED BY <2>1, <2>2, <2>3, <2>4
<1> HIDE DEF o, l
<1>7. ASSUME NEW i \in 1 .. o + 1 + l, i # o + 1
      PROVE  InPort(p)[i] = InPort(q)[i]
  <2>1. CASE i <= o
    BY <1>1, <1>6, <2>1
  <2>2. CASE i > o
    <3>1. i - o - 1 \in 1 .. l /\ i = o + 1 + (i - o - 1)
      BY <1>1, <1>7, <2>2
    <3> QED BY <1>6, <3>1
  <2> QED BY <1>1, <2>1, <2>2
<1>8. o + 1 \in 1 .. o + 1 + l
  BY <1>1
<1> QED BY <1>6, <1>7, <1>8 DEF Reworked, SameBut, o, q

\* ... and being done with it leave every task in its place.
LEMMA InPortDone ==
  ASSUME NEW T, NEW C, NEW R, NEW p \in PortOf(T, C, R), NEW c \in C, p.ctx = {c}, NEW r \in R
  PROVE  Reworked(p, Done(p, r), c, r)
<1> DEFINE q == Done(p, r)
           o == Len(p.outbox)
           l == Len(p.inbox)
<1>1. /\ p.inbox \in Seq(T) /\ p.outbox \in Seq(R) /\ l \in Nat /\ o \in Nat
  BY PortFields
<1>2. q \in PortOf(T, C, R) /\ Load(q) = Load(p)
  BY PortDone
<1>3. /\ q.inbox = p.inbox /\ q.ctx = {} /\ q.outbox = Append(p.outbox, r)
      /\ The({c}) = c
  BY OptionOfOne DEF Parts, Done
<1>4. Layout(p) /\ Layout(q)
  BY <1>2, InPortAt
<1>5. Load(p) = o + 1 + l /\ Busy(p.ctx) = 1 /\ Busy(q.ctx) = 0
  BY <1>3, BusyFacts DEF Load
<1>6. /\ Len(q.outbox) = o + 1 /\ q.outbox[o + 1] = r
      /\ \A i \in 1 .. o : q.outbox[i] = p.outbox[i]
  <2>1. /\ Len(Append(p.outbox, r)) = o + 1 /\ Append(p.outbox, r)[o + 1] = r
        /\ \A i \in 1 .. o : Append(p.outbox, r)[i] = p.outbox[i]
    BY <1>1
  <2> QED BY <1>3, <2>1, Zenon
<1> HIDE DEF q
<1>7. /\ DOMAIN InPort(p) = 1 .. o + 1 + l /\ DOMAIN InPort(q) = 1 .. o + 1 + l
      /\ \A i \in 1 .. o : InPort(p)[i] = InPort(q)[i]
      /\ InPort(p)[o + 1] = c /\ InPort(q)[o + 1] = r
      /\ \A i \in 1 .. l : InPort(p)[o + 1 + i] = InPort(q)[o + 1 + i]
  <2>1. DOMAIN InPort(p) = 1 .. o + 1 + l /\ DOMAIN InPort(q) = 1 .. o + 1 + l
    BY <1>1, <1>2, <1>4, <1>5 DEF Layout
  <2>2. \A i \in 1 .. o + 1 : InPort(q)[i] = q.outbox[i]
    BY <1>4, <1>6 DEF Layout
  <2>3. \A i \in 1 .. o : InPort(p)[i] = p.outbox[i] /\ i \in 1 .. o + 1
    BY <1>1, <1>4 DEF Layout
  <2>4. o + 1 \in 1 .. o + 1
    BY <1>1
  <2>5. InPort(p)[o + 1] = c
    BY <1>3, <1>4 DEF Layout
  <2>6. \A i \in 1 .. l : InPort(p)[o + 1 + i] = p.inbox[i]
    BY <1>4, <1>5 DEF Layout
  <2>7. \A i \in 1 .. l : InPort(q)[o + 1 + 0 + i] = p.inbox[i]
    BY <1>3, <1>4, <1>5, <1>6 DEF Layout
  <2>8. \A i \in 1 .. l : o + 1 + 0 + i = o + 1 + i
    BY <1>1
  <2> QED BY <1>6, <2>1, <2>2, <2>3, <2>4, <2>5, <2>6, <2>7, <2>8
<1> HIDE DEF o, l
<1>8. ASSUME NEW i \in 1 .. o + 1 + l, i # o + 1
      PROVE  InPort(p)[i] = InPort(q)[i]
  <2>1. CASE i <= o
    BY <1>1, <1>7, <2>1
  <2>2. CASE i > o
    <3>1. i - o - 1 \in 1 .. l /\ i = o + 1 + (i - o - 1)
      BY <1>1, <1>8, <2>2
    <3> QED BY <1>7, <3>1
  <2> QED BY <1>1, <2>1, <2>2
<1>9. o + 1 \in 1 .. o + 1 + l
  BY <1>1
<1> QED BY <1>7, <1>8, <1>9 DEF Reworked, SameBut, o, q

\* Popping takes the first task out.
LEMMA InPortPopped ==
  ASSUME NEW T, NEW C, NEW R, NEW p \in PortOf(T, C, R), p.outbox # <<>>
  PROVE  /\ 1 .. Load(p) = DOMAIN InPort(p) /\ Load(p) \in Nat \ {0}
         /\ DOMAIN InPort(Popped(p)) = 1 .. Load(p) - 1
         /\ InPort(p)[1] = Head(p.outbox)
         /\ \A i \in 1 .. Load(p) - 1 : InPort(Popped(p))[i] = InPort(p)[i + 1]
<1> DEFINE q == Popped(p)
           o == Len(p.outbox)
           l == Len(p.inbox)
           b == Busy(p.ctx)
<1>1. p.inbox \in Seq(T) /\ p.outbox \in Seq(R) /\ l \in Nat /\ o \in Nat /\ b \in {0, 1}
  BY PortFields DEF Busy
<1>2. q \in PortOf(T, C, R) /\ Load(q) = Load(p) - 1
  BY PortPopped
<1>3. q.inbox = p.inbox /\ q.ctx = p.ctx /\ q.outbox = Tail(p.outbox)
  BY DEF Parts, Popped
<1>4. /\ o > 0 /\ Head(p.outbox) = p.outbox[1] /\ Len(Tail(p.outbox)) = o - 1
      /\ \A i \in 1 .. o - 1 : Tail(p.outbox)[i] = p.outbox[i + 1]
  BY <1>1
<1>5. Layout(p) /\ Layout(q)
  BY <1>2, InPortAt
<1>6. Load(p) = o + b + l /\ (p.ctx # {} \/ b = 0)
  BY DEF Load, Busy
<1> HIDE DEF q
<1>7. /\ \A i \in 1 .. o : InPort(p)[i] = p.outbox[i]
      /\ \A i \in 1 .. o - 1 : InPort(q)[i] = p.outbox[i + 1]
      /\ p.ctx # {} => InPort(p)[o + 1] = The(p.ctx) /\ InPort(q)[(o - 1) + 1] = The(p.ctx)
      /\ \A i \in 1 .. l : InPort(p)[o + b + i] = p.inbox[i]
                             /\ InPort(q)[(o - 1) + b + i] = p.inbox[i]
  <2>1. \A i \in 1 .. o - 1 : InPort(q)[i] = p.outbox[i + 1]
    <3>1. \A i \in 1 .. o - 1 : InPort(q)[i] = Tail(p.outbox)[i]
      BY <1>3, <1>4, <1>5, Zenon DEF Layout
    <3> QED BY <1>4, <3>1, Zenon
  <2>2. p.ctx # {} => InPort(p)[o + 1] = The(p.ctx) /\ InPort(q)[(o - 1) + 1] = The(p.ctx)
    BY <1>3, <1>4, <1>5, Zenon DEF Layout
  <2>3. \A i \in 1 .. l : InPort(p)[o + b + i] = p.inbox[i]
    BY <1>5, Zenon DEF Layout
  <2>4. \A i \in 1 .. l : InPort(q)[(o - 1) + b + i] = p.inbox[i]
    BY <1>3, <1>4, <1>5, ZenonT(30) DEF Layout
  <2> QED BY <1>5, <2>1, <2>2, <2>3, <2>4, Zenon DEF Layout
<1>8. DOMAIN InPort(p) = 1 .. Load(p) /\ DOMAIN InPort(q) = 1 .. Load(p) - 1
  BY <1>2, <1>5 DEF Layout
<1> HIDE DEF o, l, b
<1>9. ASSUME NEW i \in 1 .. Load(p) - 1
      PROVE  InPort(q)[i] = InPort(p)[i + 1]
  <2>1. CASE i < o
    <3>1. i \in 1 .. o - 1 /\ i + 1 \in 1 .. o
      BY <1>1, <2>1
    <3> QED BY <1>7, <3>1
  <2>2. CASE i = o /\ b = 1
    BY <1>1, <1>6, <1>7, <2>2
  <2>3. CASE i >= o + b
    <3>1. PICK j \in 1 .. l : i = (o - 1) + b + j
      <4>1. i - (o - 1) - b \in 1 .. l /\ i = (o - 1) + b + (i - (o - 1) - b)
        BY <1>1, <1>6, <2>3
      <4> QED BY <4>1
    <3>2. i + 1 = o + b + j
      BY <1>1, <3>1
    <3> QED BY <1>7, <3>1, <3>2
  <2> QED BY <1>1, <1>6, <2>1, <2>2, <2>3
<1>10. InPort(p)[1] = Head(p.outbox) /\ Load(p) \in Nat \ {0}
  BY <1>1, <1>4, <1>6, <1>7
<1> QED BY <1>8, <1>9, <1>10 DEF q

LEMMA SequencesEqual ==
  ASSUME NEW S, NEW s \in Seq(S), NEW t \in Seq(S), DOMAIN s = DOMAIN t,
         \A i \in DOMAIN s : s[i] = t[i]
  PROVE  s = t
<1>1. s = [i \in DOMAIN s |-> s[i]] /\ t = [i \in DOMAIN t |-> t[i]]
  OBVIOUS
<1> QED BY <1>1

LEMMA SequenceOfElements ==
  ASSUME NEW S, NEW n \in Nat, NEW s, s = [i \in 1 .. n |-> s[i]], \A i \in 1 .. n : s[i] \in S
  PROVE  s \in Seq(S) /\ Len(s) = n
OBVIOUS

LEMMA ElementOf == ASSUME NEW S, NEW s \in Seq(S), NEW i \in DOMAIN s PROVE s[i] \in S
OBVIOUS

\* A sequence that is another one with an element put at its end, or its first taken off.
LEMMA IsAppend ==
  ASSUME NEW S, NEW s \in Seq(S), NEW x \in S, NEW t \in Seq(S), Len(t) = Len(s) + 1,
         \A i \in 1 .. Len(s) : t[i] = s[i], t[Len(s) + 1] = x
  PROVE  t = Append(s, x)
<1>1. /\ Append(s, x) \in Seq(S) /\ DOMAIN Append(s, x) = 1 .. Len(s) + 1
      /\ \A i \in 1 .. Len(s) : Append(s, x)[i] = s[i]
      /\ Append(s, x)[Len(s) + 1] = x
      /\ DOMAIN t = 1 .. Len(s) + 1 /\ Len(s) \in Nat
  OBVIOUS
<1>2. \A i \in 1 .. Len(s) + 1 : i \in 1 .. Len(s) \/ i = Len(s) + 1
  BY <1>1
<1>3. \A i \in DOMAIN t : t[i] = Append(s, x)[i]
  BY <1>1, <1>2, Zenon
<1> QED BY <1>1, <1>3, SequencesEqual, Zenon

LEMMA IsTail ==
  ASSUME NEW S, NEW s \in Seq(S), s # <<>>, NEW t \in Seq(S), Len(t) = Len(s) - 1,
         \A i \in 1 .. Len(s) - 1 : t[i] = s[i + 1]
  PROVE  t = Tail(s) /\ Head(s) = s[1]
<1>1. /\ Tail(s) \in Seq(S) /\ DOMAIN Tail(s) = 1 .. Len(s) - 1
      /\ \A i \in 1 .. Len(s) - 1 : Tail(s)[i] = s[i + 1]
      /\ DOMAIN t = 1 .. Len(s) - 1 /\ Head(s) = s[1]
  OBVIOUS
<1>2. \A i \in DOMAIN t : t[i] = Tail(s)[i]
  BY <1>1, Zenon
<1> QED BY <1>1, <1>2, SequencesEqual, Zenon

-----------------------------------------------------------------------------
(* The requests in a port, in the order they were sent *)

Reads(q)  == [i \in DOMAIN q |-> ReadReq(q[i].id, q[i].addr)]
Writes(q) == [i \in DOMAIN q |-> WriteReq(q[i].id, q[i].addr, q[i].val)]

ReadPort  == PortOf(ReadTask, ReadContext, ReadOutcome)
WritePort == PortOf(WriteTask, WriteContext, WriteTask)

\* The reads of a port, taken one by one.
LEMMA ReadsFacts ==
  ASSUME NEW p \in ReadPort
  PROVE  /\ Reads(InPort(p)) \in Seq(ReadTask)
         /\ Len(Reads(InPort(p))) = Load(p) /\ DOMAIN Reads(InPort(p)) = 1 .. Load(p)
         /\ DOMAIN InPort(p) = 1 .. Load(p) /\ Load(p) \in Nat
         /\ \A i \in 1 .. Load(p) :
              Reads(InPort(p))[i] = ReadReq(InPort(p)[i].id, InPort(p)[i].addr)
<1> DEFINE q == InPort(p)
           s == Reads(q)
<1>1. q \in Seq(ReadOutcome \cup ReadContext \cup ReadTask) /\ DOMAIN q = 1 .. Load(p)
  BY InPortAt DEF ReadPort, Layout
<1>2. Load(p) \in Nat
  BY LoadOfPort DEF ReadPort
<1> HIDE DEF q
<1>3. s = [i \in 1 .. Load(p) |-> s[i]]
      /\ \A i \in 1 .. Load(p) : s[i] = ReadReq(q[i].id, q[i].addr)
  BY <1>1 DEF Reads
<1>4. ASSUME NEW i \in 1 .. Load(p)
      PROVE  s[i] \in ReadTask
  <2>1. q[i] \in ReadOutcome \cup ReadContext \cup ReadTask
    BY <1>1, ElementOf
  <2>2. q[i].id \in Id /\ q[i].addr \in Addr
    BY <2>1 DEF ReadOutcome, ReadContext, ReadTask
  <2>3. ReadReq(q[i].id, q[i].addr) \in ReadTask
    BY <2>2 DEF ReadReq, ReadTask
  <2> QED BY <1>3, <2>3
<1> HIDE DEF s
<1>5. s \in Seq(ReadTask) /\ Len(s) = Load(p)
  BY <1>2, <1>3, <1>4, SequenceOfElements
<1>6. DOMAIN s = 1 .. Load(p)
  BY <1>5
<1> QED BY <1>1, <1>2, <1>3, <1>5, <1>6 DEF s, q

LEMMA WritesFacts ==
  ASSUME NEW p \in WritePort
  PROVE  /\ Writes(InPort(p)) \in Seq(WriteTask)
         /\ Len(Writes(InPort(p))) = Load(p) /\ DOMAIN Writes(InPort(p)) = 1 .. Load(p)
         /\ DOMAIN InPort(p) = 1 .. Load(p) /\ Load(p) \in Nat
         /\ \A i \in 1 .. Load(p) :
              Writes(InPort(p))[i] = WriteReq(InPort(p)[i].id, InPort(p)[i].addr, InPort(p)[i].val)
<1> DEFINE q == InPort(p)
           s == Writes(q)
<1>1. q \in Seq(WriteTask \cup WriteContext \cup WriteTask) /\ DOMAIN q = 1 .. Load(p)
  BY InPortAt DEF WritePort, Layout
<1>2. Load(p) \in Nat
  BY LoadOfPort DEF WritePort
<1> HIDE DEF q
<1>3. s = [i \in 1 .. Load(p) |-> s[i]]
      /\ \A i \in 1 .. Load(p) : s[i] = WriteReq(q[i].id, q[i].addr, q[i].val)
  BY <1>1 DEF Writes
<1>4. ASSUME NEW i \in 1 .. Load(p)
      PROVE  s[i] \in WriteTask
  <2>1. q[i] \in WriteContext \cup WriteTask
    BY <1>1, ElementOf
  <2>2. q[i].id \in Id /\ q[i].addr \in Addr /\ q[i].val \in Val
    BY <2>1 DEF WriteContext, WriteTask
  <2>3. WriteReq(q[i].id, q[i].addr, q[i].val) \in WriteTask
    BY <2>2 DEF WriteReq, WriteTask
  <2> QED BY <1>3, <2>3
<1> HIDE DEF s
<1>5. s \in Seq(WriteTask) /\ Len(s) = Load(p)
  BY <1>2, <1>3, <1>4, SequenceOfElements
<1>6. DOMAIN s = 1 .. Load(p)
  BY <1>5
<1> QED BY <1>1, <1>2, <1>3, <1>5, <1>6 DEF s, q

\* Sending a read, or a write, puts it at the end.
LEMMA ReadsSent ==
  ASSUME NEW p \in ReadPort, NEW t \in ReadTask
  PROVE  Reads(InPort(Sent(p, t))) = Append(Reads(InPort(p)), ReadReq(t.id, t.addr))
<1> DEFINE q == Sent(p, t)
<1>1. q \in ReadPort
  BY PortSent DEF ReadPort
<1>2. Load(q) = Load(p) + 1
  BY PortSent DEF ReadPort
<1>3. \A i \in DOMAIN InPort(p) : InPort(q)[i] = InPort(p)[i]
  BY InPortSent DEF ReadPort
<1>4. InPort(q)[Load(p) + 1] = t
  BY InPortSent DEF ReadPort
<1> HIDE DEF q
<1>5. ReadReq(t.id, t.addr) \in ReadTask
  BY DEF ReadReq, ReadTask
<1> DEFINE s == Reads(InPort(p))
           u == Reads(InPort(q))
<1>6. /\ s \in Seq(ReadTask) /\ Len(s) = Load(p) /\ DOMAIN InPort(p) = 1 .. Load(p)
      /\ Load(p) \in Nat
      /\ \A i \in 1 .. Load(p) : s[i] = ReadReq(InPort(p)[i].id, InPort(p)[i].addr)
  BY ReadsFacts
<1>7. /\ u \in Seq(ReadTask) /\ Len(u) = Load(q)
      /\ \A i \in 1 .. Load(q) : u[i] = ReadReq(InPort(q)[i].id, InPort(q)[i].addr)
  BY <1>1, ReadsFacts
<1> HIDE DEF s, u
<1>8. /\ Load(p) + 1 \in 1 .. Load(q) /\ \A i \in 1 .. Load(p) : i \in 1 .. Load(q)
  BY <1>2, <1>6
<1>9. /\ \A i \in 1 .. Len(s) : u[i] = s[i]
      /\ u[Len(s) + 1] = ReadReq(t.id, t.addr)
  BY <1>3, <1>4, <1>6, <1>7, <1>8, Zenon
<1>10. u = Append(s, ReadReq(t.id, t.addr))
  BY <1>2, <1>5, <1>6, <1>7, <1>9, IsAppend
<1> QED BY <1>10 DEF s, u, q

LEMMA WritesSent ==
  ASSUME NEW p \in WritePort, NEW t \in WriteTask
  PROVE  Writes(InPort(Sent(p, t))) = Append(Writes(InPort(p)), WriteReq(t.id, t.addr, t.val))
<1> DEFINE q == Sent(p, t)
<1>1. q \in WritePort
  BY PortSent DEF WritePort
<1>2. Load(q) = Load(p) + 1
  BY PortSent DEF WritePort
<1>3. \A i \in DOMAIN InPort(p) : InPort(q)[i] = InPort(p)[i]
  BY InPortSent DEF WritePort
<1>4. InPort(q)[Load(p) + 1] = t
  BY InPortSent DEF WritePort
<1> HIDE DEF q
<1>5. WriteReq(t.id, t.addr, t.val) \in WriteTask
  BY DEF WriteReq, WriteTask
<1> DEFINE s == Writes(InPort(p))
           u == Writes(InPort(q))
<1>6. /\ s \in Seq(WriteTask) /\ Len(s) = Load(p) /\ DOMAIN InPort(p) = 1 .. Load(p)
      /\ Load(p) \in Nat
      /\ \A i \in 1 .. Load(p) :
           s[i] = WriteReq(InPort(p)[i].id, InPort(p)[i].addr, InPort(p)[i].val)
  BY WritesFacts
<1>7. /\ u \in Seq(WriteTask) /\ Len(u) = Load(q)
      /\ \A i \in 1 .. Load(q) :
           u[i] = WriteReq(InPort(q)[i].id, InPort(q)[i].addr, InPort(q)[i].val)
  BY <1>1, WritesFacts
<1> HIDE DEF s, u
<1>8. /\ Load(p) + 1 \in 1 .. Load(q) /\ \A i \in 1 .. Load(p) : i \in 1 .. Load(q)
  BY <1>2, <1>6
<1>9. /\ \A i \in 1 .. Len(s) : u[i] = s[i]
      /\ u[Len(s) + 1] = WriteReq(t.id, t.addr, t.val)
  BY <1>3, <1>4, <1>6, <1>7, <1>8, Zenon
<1>10. u = Append(s, WriteReq(t.id, t.addr, t.val))
  BY <1>2, <1>5, <1>6, <1>7, <1>9, IsAppend
<1> QED BY <1>10 DEF s, u, q

\* Working on one leaves it in its place.
LEMMA ReadsReworked ==
  ASSUME NEW p, NEW q, NEW old, NEW new, Reworked(p, q, old, new),
         old.id = new.id, old.addr = new.addr
  PROVE  Reads(InPort(p)) = Reads(InPort(q))
<1>1. DOMAIN InPort(p) = DOMAIN InPort(q)
  BY DEF Reworked, SameBut
<1>2. \A i \in DOMAIN InPort(p) :
        InPort(p)[i].id = InPort(q)[i].id /\ InPort(p)[i].addr = InPort(q)[i].addr
  BY DEF Reworked, SameBut
<1> QED BY <1>1, <1>2 DEF Reads

LEMMA WritesReworked ==
  ASSUME NEW p, NEW q, NEW old, NEW new, Reworked(p, q, old, new),
         old.id = new.id, old.addr = new.addr, old.val = new.val
  PROVE  Writes(InPort(p)) = Writes(InPort(q))
<1>1. DOMAIN InPort(p) = DOMAIN InPort(q)
  BY DEF Reworked, SameBut
<1>2. \A i \in DOMAIN InPort(p) :
        /\ InPort(p)[i].id = InPort(q)[i].id /\ InPort(p)[i].addr = InPort(q)[i].addr
        /\ InPort(p)[i].val = InPort(q)[i].val
  BY DEF Reworked, SameBut
<1> QED BY <1>1, <1>2 DEF Writes

\* Popping takes the first.
LEMMA ReadsPopped ==
  ASSUME NEW p \in ReadPort, p.outbox # <<>>
  PROVE  /\ Reads(InPort(p)) # <<>>
         /\ Head(Reads(InPort(p))) = ReadReq(Head(p.outbox).id, Head(p.outbox).addr)
         /\ Reads(InPort(Popped(p))) = Tail(Reads(InPort(p)))
<1> DEFINE q == Popped(p)
<1>1. q \in ReadPort
  BY PortPopped DEF ReadPort
<1>2. Load(q) = Load(p) - 1
  BY <1>1, PortPopped DEF ReadPort
<1>3. /\ Load(p) \in Nat \ {0} /\ InPort(p)[1] = Head(p.outbox)
      /\ \A i \in 1 .. Load(p) - 1 : InPort(q)[i] = InPort(p)[i + 1]
  BY InPortPopped DEF ReadPort
<1> HIDE DEF q
<1> DEFINE s == Reads(InPort(p))
           u == Reads(InPort(q))
<1>4. /\ s \in Seq(ReadTask) /\ Len(s) = Load(p)
      /\ \A i \in 1 .. Load(p) : s[i] = ReadReq(InPort(p)[i].id, InPort(p)[i].addr)
  BY ReadsFacts
<1>5. /\ u \in Seq(ReadTask) /\ Len(u) = Load(q)
      /\ \A i \in 1 .. Load(q) : u[i] = ReadReq(InPort(q)[i].id, InPort(q)[i].addr)
  BY <1>1, ReadsFacts
<1> HIDE DEF s, u
<1>6. \A i \in 1 .. Load(p) - 1 : i + 1 \in 1 .. Load(p) /\ i \in 1 .. Load(q)
  BY <1>2, <1>3
<1>7. \A i \in 1 .. Len(s) - 1 : u[i] = s[i + 1]
  BY <1>3, <1>4, <1>5, <1>6, Zenon
<1>8. s # <<>> /\ 1 \in 1 .. Load(p)
  BY <1>3, <1>4
<1>9. u = Tail(s) /\ Head(s) = s[1]
  BY <1>2, <1>4, <1>5, <1>7, <1>8, IsTail
<1>10. s[1] = ReadReq(Head(p.outbox).id, Head(p.outbox).addr)
  BY <1>3, <1>4, <1>8, Zenon
<1> QED BY <1>8, <1>9, <1>10 DEF s, u, q

LEMMA WritesPopped ==
  ASSUME NEW p \in WritePort, p.outbox # <<>>
  PROVE  /\ Writes(InPort(p)) # <<>>
         /\ Head(Writes(InPort(p)))
              = WriteReq(Head(p.outbox).id, Head(p.outbox).addr, Head(p.outbox).val)
         /\ Writes(InPort(Popped(p))) = Tail(Writes(InPort(p)))
<1> DEFINE q == Popped(p)
<1>1. q \in WritePort
  BY PortPopped DEF WritePort
<1>2. Load(q) = Load(p) - 1
  BY <1>1, PortPopped DEF WritePort
<1>3. /\ Load(p) \in Nat \ {0} /\ InPort(p)[1] = Head(p.outbox)
      /\ \A i \in 1 .. Load(p) - 1 : InPort(q)[i] = InPort(p)[i + 1]
  BY InPortPopped DEF WritePort
<1> HIDE DEF q
<1> DEFINE s == Writes(InPort(p))
           u == Writes(InPort(q))
<1>4. /\ s \in Seq(WriteTask) /\ Len(s) = Load(p)
      /\ \A i \in 1 .. Load(p) :
           s[i] = WriteReq(InPort(p)[i].id, InPort(p)[i].addr, InPort(p)[i].val)
  BY WritesFacts
<1>5. /\ u \in Seq(WriteTask) /\ Len(u) = Load(q)
      /\ \A i \in 1 .. Load(q) :
           u[i] = WriteReq(InPort(q)[i].id, InPort(q)[i].addr, InPort(q)[i].val)
  BY <1>1, WritesFacts
<1> HIDE DEF s, u
<1>6. \A i \in 1 .. Load(p) - 1 : i + 1 \in 1 .. Load(p) /\ i \in 1 .. Load(q)
  BY <1>2, <1>3
<1>7. \A i \in 1 .. Len(s) - 1 : u[i] = s[i + 1]
  BY <1>3, <1>4, <1>5, <1>6, Zenon
<1>8. s # <<>> /\ 1 \in 1 .. Load(p)
  BY <1>3, <1>4
<1>9. u = Tail(s) /\ Head(s) = s[1]
  BY <1>2, <1>4, <1>5, <1>7, <1>8, IsTail
<1>10. s[1] = WriteReq(Head(p.outbox).id, Head(p.outbox).addr, Head(p.outbox).val)
  BY <1>3, <1>4, <1>8, Zenon
<1> QED BY <1>8, <1>9, <1>10 DEF s, u, q

-----------------------------------------------------------------------------
(* Requests in flight, each once *)

\* A sequence with an element more, and one without its first.
LEMMA AppendedAt ==
  ASSUME NEW S, NEW q \in Seq(S), NEW x
  PROVE  /\ Len(q) + 1 \notin DOMAIN q
         /\ DOMAIN Append(q, x) = DOMAIN q \cup {Len(q) + 1}
         /\ \A i \in DOMAIN q : Append(q, x)[i] = q[i]
         /\ Append(q, x)[Len(q) + 1] = x
OBVIOUS

LEMMA TailedAt ==
  ASSUME NEW S, NEW q \in Seq(S), q # <<>>
  PROVE  /\ 1 \in DOMAIN q /\ Head(q) = q[1]
         /\ \A i \in DOMAIN Tail(q) : i + 1 \in DOMAIN q /\ i + 1 # 1 /\ Tail(q)[i] = q[i + 1]
         /\ \A i \in DOMAIN q : i # 1 => \E j \in DOMAIN Tail(q) : i = j + 1 /\ Tail(q)[j] = q[i]
         /\ \A i, j \in DOMAIN Tail(q) : i + 1 = j + 1 => i = j
<1>1. /\ DOMAIN q = 1 .. Len(q) /\ Len(q) \in Nat \ {0} /\ Head(q) = q[1]
      /\ DOMAIN Tail(q) = 1 .. Len(q) - 1
      /\ \A i \in 1 .. Len(q) - 1 : Tail(q)[i] = q[i + 1]
  OBVIOUS
<1>2. ASSUME NEW i \in DOMAIN q, i # 1
      PROVE  \E j \in DOMAIN Tail(q) : i = j + 1 /\ Tail(q)[j] = q[i]
  <2>1. i - 1 \in DOMAIN Tail(q) /\ i = (i - 1) + 1
    BY <1>1, <1>2
  <2>2. Tail(q)[i - 1] = q[i]
    BY <1>1, <2>1
  <2> QED BY <2>1, <2>2
<1>3. 1 \in DOMAIN q /\ Head(q) = q[1]
  BY <1>1
<1>4. \A i \in DOMAIN Tail(q) : i + 1 \in DOMAIN q /\ i + 1 # 1 /\ Tail(q)[i] = q[i + 1]
  BY <1>1
<1>5. \A i, j \in DOMAIN Tail(q) : i + 1 = j + 1 => i = j
  BY <1>1
<1> QED BY <1>2, <1>3, <1>4, <1>5

\* The reads of a queue and of the pending buffer.
ReadsOf(q, pend) == {q[i] : i \in DOMAIN q} \cup {ReadReq(p.id, p.addr) : p \in pend}

UniqueIds(q, pend) ==
  /\ \A i, j \in DOMAIN q : q[i].id = q[j].id => i = j
  /\ \A o, p \in pend : o.id = p.id => o = p
  /\ \A i \in DOMAIN q : \A p \in pend : q[i].id # p.id

UniqueAddrs(q, pend) ==
  /\ \A i, j \in DOMAIN q : q[i].addr = q[j].addr => i = j
  /\ \A o, p \in pend : o.addr = p.addr => o = p
  /\ \A i \in DOMAIN q : \A p \in pend : q[i].addr # p.addr

LEMMA ReadsOfMember ==
  ASSUME NEW q, NEW pend, NEW r
  PROVE  r \in ReadsOf(q, pend) <=> (\E i \in DOMAIN q : r = q[i])
                                      \/ (\E p \in pend : r = ReadReq(p.id, p.addr))
BY Zenon DEF ReadsOf

\* One more read, under an id and to an address that no other has.
LEMMA ReadAdded ==
  ASSUME NEW q \in Seq(ReadTask), NEW pend, NEW r \in ReadTask
  PROVE  /\ ReadsOf(Append(q, r), pend) = ReadsOf(q, pend) \cup {r}
         /\ UniqueIds(q, pend) /\ (\A x \in ReadsOf(q, pend) : x.id # r.id)
              => UniqueIds(Append(q, r), pend)
         /\ UniqueAddrs(q, pend) /\ (\A x \in ReadsOf(q, pend) : x.addr # r.addr)
              => UniqueAddrs(Append(q, r), pend)
<1> DEFINE n == Len(q) + 1
           s == Append(q, r)
<1>1. /\ n \notin DOMAIN q /\ DOMAIN s = DOMAIN q \cup {n}
      /\ \A i \in DOMAIN q : s[i] = q[i]
      /\ s[n] = r
  BY AppendedAt
<1> HIDE DEF n, s
<1>2. ReadsOf(s, pend) = ReadsOf(q, pend) \cup {r}
  BY <1>1 DEF ReadsOf
<1>3. /\ \A i \in DOMAIN q : q[i] \in ReadsOf(q, pend)
      /\ \A p \in pend : ReadReq(p.id, p.addr) \in ReadsOf(q, pend)
  BY DEF ReadsOf
<1>4. \A p \in pend : ReadReq(p.id, p.addr).id = p.id /\ ReadReq(p.id, p.addr).addr = p.addr
  BY DEF ReadReq
<1>5. ASSUME UniqueIds(q, pend), \A x \in ReadsOf(q, pend) : x.id # r.id
      PROVE  UniqueIds(s, pend)
  <2>1. /\ \A i \in DOMAIN q : q[i].id # r.id
        /\ \A p \in pend : p.id # r.id
    BY <1>3, <1>4, <1>5, Zenon
  <2> QED BY <1>1, <1>5, <2>1 DEF UniqueIds
<1>6. ASSUME UniqueAddrs(q, pend), \A x \in ReadsOf(q, pend) : x.addr # r.addr
      PROVE  UniqueAddrs(s, pend)
  <2>1. /\ \A i \in DOMAIN q : q[i].addr # r.addr
        /\ \A p \in pend : p.addr # r.addr
    BY <1>3, <1>4, <1>6, Zenon
  <2> QED BY <1>1, <1>6, <2>1 DEF UniqueAddrs
<1> QED BY <1>2, <1>5, <1>6 DEF s

\* The first of the queue leaves ...
LEMMA ReadLeaves ==
  ASSUME NEW q \in Seq(ReadTask), q # <<>>, NEW pend, UniqueIds(q, pend)
  PROVE  /\ Head(q) \in ReadsOf(q, pend)
         /\ ReadsOf(Tail(q), pend) = ReadsOf(q, pend) \ {Head(q)}
         /\ UniqueIds(Tail(q), pend)
         /\ UniqueAddrs(q, pend) => UniqueAddrs(Tail(q), pend)
<1> DEFINE s == Tail(q)
<1>1. /\ 1 \in DOMAIN q /\ Head(q) = q[1]
      /\ \A i \in DOMAIN s : i + 1 \in DOMAIN q /\ i + 1 # 1 /\ s[i] = q[i + 1]
      /\ \A i \in DOMAIN q : i # 1 => \E j \in DOMAIN s : i = j + 1 /\ s[j] = q[i]
      /\ \A i, j \in DOMAIN s : i + 1 = j + 1 => i = j
  BY TailedAt
<1> HIDE DEF s
<1>2. Head(q) \in ReadsOf(q, pend)
  BY <1>1 DEF ReadsOf
<1>3. /\ \A i \in DOMAIN q : i # 1 => q[i] # q[1]
      /\ \A p \in pend : ReadReq(p.id, p.addr) # q[1]
  <2>1. \A i \in DOMAIN q : i # 1 => q[i] # q[1]
    BY <1>1 DEF UniqueIds
  <2>2. ASSUME NEW p \in pend
        PROVE  ReadReq(p.id, p.addr) # q[1]
    <3>1. ReadReq(p.id, p.addr).id = p.id
      BY DEF ReadReq
    <3>2. q[1].id # p.id
      BY <1>1 DEF UniqueIds
    <3> QED BY <3>1, <3>2
  <2> QED BY <2>1, <2>2
<1>4. ASSUME NEW r
      PROVE  r \in ReadsOf(s, pend) <=> (r \in ReadsOf(q, pend) /\ r # q[1])
  <2>1. (\E i \in DOMAIN s : r = s[i]) <=> (\E i \in DOMAIN q : i # 1 /\ r = q[i])
    <3>1. ASSUME NEW i \in DOMAIN s, r = s[i] PROVE \E j \in DOMAIN q : j # 1 /\ r = q[j]
      BY <1>1, <3>1
    <3>2. ASSUME NEW i \in DOMAIN q, i # 1, r = q[i] PROVE \E j \in DOMAIN s : r = s[j]
      BY <1>1, <3>2
    <3> QED BY <3>1, <3>2
  <2>2. (\E i \in DOMAIN q : i # 1 /\ r = q[i]) <=> (\E i \in DOMAIN q : r = q[i]) /\ r # q[1]
    BY <1>3, Zenon
  <2>3. (\E p \in pend : r = ReadReq(p.id, p.addr)) => r # q[1]
    BY <1>3, Zenon
  <2> QED BY <2>1, <2>2, <2>3, ReadsOfMember
<1>5. ReadsOf(s, pend) = ReadsOf(q, pend) \ {Head(q)}
  BY <1>1, <1>4
<1>6. UniqueIds(s, pend)
  <2>1. ASSUME NEW i \in DOMAIN s, NEW j \in DOMAIN s, s[i].id = s[j].id PROVE i = j
    BY <1>1, <2>1 DEF UniqueIds
  <2>2. \A i \in DOMAIN s : \A p \in pend : s[i].id # p.id
    BY <1>1 DEF UniqueIds
  <2> QED BY <2>1, <2>2 DEF UniqueIds
<1>7. ASSUME UniqueAddrs(q, pend) PROVE UniqueAddrs(s, pend)
  <2>1. ASSUME NEW i \in DOMAIN s, NEW j \in DOMAIN s, s[i].addr = s[j].addr PROVE i = j
    BY <1>1, <1>7, <2>1 DEF UniqueAddrs
  <2>2. \A i \in DOMAIN s : \A p \in pend : s[i].addr # p.addr
    BY <1>1, <1>7 DEF UniqueAddrs
  <2> QED BY <1>7, <2>1, <2>2 DEF UniqueAddrs
<1> QED BY <1>2, <1>5, <1>6, <1>7 DEF s

\* ... or moves to the pending buffer.
LEMMA ReadGoesBelow ==
  ASSUME NEW q \in Seq(ReadTask), q # <<>>, NEW pend, NEW n,
         n.id = Head(q).id, n.addr = Head(q).addr
  PROVE  /\ ReadsOf(Tail(q), pend \cup {n}) = ReadsOf(q, pend)
         /\ UniqueIds(q, pend) => UniqueIds(Tail(q), pend \cup {n})
         /\ UniqueAddrs(q, pend) => UniqueAddrs(Tail(q), pend \cup {n})
<1> DEFINE s == Tail(q)
           both == pend \cup {n}
<1>1. /\ 1 \in DOMAIN q /\ Head(q) = q[1]
      /\ \A i \in DOMAIN s : i + 1 \in DOMAIN q /\ i + 1 # 1 /\ s[i] = q[i + 1]
      /\ \A i \in DOMAIN q : i # 1 => \E j \in DOMAIN s : i = j + 1 /\ s[j] = q[i]
      /\ \A i, j \in DOMAIN s : i + 1 = j + 1 => i = j
  BY TailedAt
<1>2. n.id = q[1].id /\ n.addr = q[1].addr
  BY <1>1
<1>3. ReadReq(n.id, n.addr) = q[1]
  <2>1. q[1] \in ReadTask
    BY <1>1, ElementOf
  <2> QED BY <1>2, <2>1 DEF ReadReq, ReadTask
<1>4. \A p : p \in both <=> (p \in pend \/ p = n)
  OBVIOUS
<1> HIDE DEF s, both
<1>5. ASSUME NEW r
      PROVE  r \in ReadsOf(s, both) <=> r \in ReadsOf(q, pend)
  <2>1. (\E i \in DOMAIN s : r = s[i]) <=> (\E i \in DOMAIN q : i # 1 /\ r = q[i])
    <3>1. ASSUME NEW i \in DOMAIN s, r = s[i] PROVE \E j \in DOMAIN q : j # 1 /\ r = q[j]
      BY <1>1, <3>1
    <3>2. ASSUME NEW i \in DOMAIN q, i # 1, r = q[i] PROVE \E j \in DOMAIN s : r = s[j]
      BY <1>1, <3>2
    <3> QED BY <3>1, <3>2
  <2>2. (\E i \in DOMAIN q : r = q[i]) <=> (\E i \in DOMAIN q : i # 1 /\ r = q[i]) \/ r = q[1]
    BY <1>1, Zenon
  <2>3. (\E p \in both : r = ReadReq(p.id, p.addr))
          <=> (\E p \in pend : r = ReadReq(p.id, p.addr)) \/ r = q[1]
    BY <1>3, <1>4, Zenon
  <2> QED BY <2>1, <2>2, <2>3, ReadsOfMember
<1>6. ReadsOf(s, both) = ReadsOf(q, pend)
  BY <1>5
<1>7. ASSUME UniqueIds(q, pend) PROVE UniqueIds(s, both)
  <2>1. ASSUME NEW i \in DOMAIN s, NEW j \in DOMAIN s, s[i].id = s[j].id PROVE i = j
    BY <1>1, <1>7, <2>1 DEF UniqueIds
  <2>2. ASSUME NEW i \in DOMAIN s, NEW p \in both PROVE s[i].id # p.id
    <3>1. CASE p \in pend
      BY <1>1, <1>7, <3>1 DEF UniqueIds
    <3>2. CASE p = n
      BY <1>1, <1>2, <1>7, <3>2 DEF UniqueIds
    <3> QED BY <1>4, <3>1, <3>2
  <2>3. ASSUME NEW o \in both, NEW p \in both, o.id = p.id PROVE o = p
    <3>1. \A t \in pend : t.id # n.id
      BY <1>1, <1>2, <1>7 DEF UniqueIds
    <3> QED BY <1>4, <1>7, <2>3, <3>1 DEF UniqueIds
  <2> QED BY <2>1, <2>2, <2>3 DEF UniqueIds
<1>8. ASSUME UniqueAddrs(q, pend) PROVE UniqueAddrs(s, both)
  <2>1. ASSUME NEW i \in DOMAIN s, NEW j \in DOMAIN s, s[i].addr = s[j].addr PROVE i = j
    BY <1>1, <1>8, <2>1 DEF UniqueAddrs
  <2>2. ASSUME NEW i \in DOMAIN s, NEW p \in both PROVE s[i].addr # p.addr
    <3>1. CASE p \in pend
      BY <1>1, <1>8, <3>1 DEF UniqueAddrs
    <3>2. CASE p = n
      BY <1>1, <1>2, <1>8, <3>2 DEF UniqueAddrs
    <3> QED BY <1>4, <3>1, <3>2
  <2>3. ASSUME NEW o \in both, NEW p \in both, o.addr = p.addr PROVE o = p
    <3>1. \A t \in pend : t.addr # n.addr
      BY <1>1, <1>2, <1>8 DEF UniqueAddrs
    <3> QED BY <1>4, <1>8, <2>3, <3>1 DEF UniqueAddrs
  <2> QED BY <2>1, <2>2, <2>3 DEF UniqueAddrs
<1> QED BY <1>6, <1>7, <1>8 DEF s, both

\* A pending read leaves.
LEMMA PendingLeaves ==
  ASSUME NEW q, NEW pend, NEW p \in pend, UniqueIds(q, pend)
  PROVE  /\ ReadReq(p.id, p.addr) \in ReadsOf(q, pend)
         /\ ReadsOf(q, pend \ {p}) = ReadsOf(q, pend) \ {ReadReq(p.id, p.addr)}
         /\ UniqueIds(q, pend \ {p})
         /\ UniqueAddrs(q, pend) => UniqueAddrs(q, pend \ {p})
<1> DEFINE rest == pend \ {p}
           x == ReadReq(p.id, p.addr)
<1>1. \A o : o \in rest <=> (o \in pend /\ o # p)
  OBVIOUS
<1>2. x.id = p.id /\ \A o \in pend : ReadReq(o.id, o.addr).id = o.id
  BY DEF ReadReq
<1>3. x \in ReadsOf(q, pend)
  BY DEF ReadsOf
<1> HIDE DEF x, rest
<1>4. /\ \A i \in DOMAIN q : q[i] # x
      /\ \A o \in pend : o # p => ReadReq(o.id, o.addr) # x
  BY <1>2 DEF UniqueIds
<1>5. ASSUME NEW r
      PROVE  r \in ReadsOf(q, rest) <=> (r \in ReadsOf(q, pend) /\ r # x)
  <2>1. (\E i \in DOMAIN q : r = q[i]) => r # x
    BY <1>4, Zenon
  <2>2. (\E o \in rest : r = ReadReq(o.id, o.addr))
          <=> (\E o \in pend : r = ReadReq(o.id, o.addr)) /\ r # x
    BY <1>1, <1>4, Zenon DEF x
  <2> QED BY <2>1, <2>2, ReadsOfMember
<1>6. ReadsOf(q, rest) = ReadsOf(q, pend) \ {x}
  BY <1>5
<1>7. UniqueIds(q, rest) /\ (UniqueAddrs(q, pend) => UniqueAddrs(q, rest))
  BY <1>1, Zenon DEF UniqueIds, UniqueAddrs
<1> QED BY <1>3, <1>6, <1>7 DEF x, rest

-----------------------------------------------------------------------------
(* What the steps do to the queues of requests *)

ReadQueue == Reads(InPort(readPort))

LEMMA InFlightFacts ==
  ASSUME TypeOK
  PROVE  /\ readPort \in ReadPort /\ writePort \in WritePort
         /\ ReadQueue \in Seq(ReadTask) /\ WritesInFlight \in Seq(WriteTask)
         /\ ReadsInFlight = ReadsOf(ReadQueue, pending)
         /\ WritesInFlight = Writes(InPort(writePort))
<1>1. readPort \in ReadPort /\ writePort \in WritePort
  BY DEF TypeOK, ReadPort, WritePort
<1>2. WritesInFlight = Writes(InPort(writePort))
  BY DEF WritesInFlight, Writes
<1>3. ReadQueue \in Seq(ReadTask) /\ WritesInFlight \in Seq(WriteTask)
  BY <1>1, <1>2, ReadsFacts, WritesFacts DEF ReadQueue
<1>4. DOMAIN ReadQueue = DOMAIN InPort(readPort)
  BY DEF ReadQueue, Reads
<1>5. \A i \in DOMAIN ReadQueue :
        ReadQueue[i] = ReadReq(InPort(readPort)[i].id, InPort(readPort)[i].addr)
  BY DEF ReadQueue, Reads
<1>6. {ReadQueue[i] : i \in DOMAIN ReadQueue}
        = {ReadReq(InPort(readPort)[i].id, InPort(readPort)[i].addr) : i \in DOMAIN InPort(readPort)}
  BY <1>4, <1>5
<1>7. ReadsInFlight = ReadsOf(ReadQueue, pending)
  BY <1>6 DEF ReadsInFlight, ReadsOf
<1> QED BY <1>1, <1>2, <1>3, <1>7

\* Results and contexts belong to requests in flight.
LEMMA InTheQueue ==
  ASSUME TypeOK
  PROVE  /\ \A i \in DOMAIN readPort.outbox :
              /\ i \in DOMAIN ReadQueue
              /\ ReadQueue[i] = ReadReq(readPort.outbox[i].id, readPort.outbox[i].addr)
         /\ \A c \in readPort.ctx : \E i \in DOMAIN ReadQueue : ReadQueue[i].addr = c.addr
         /\ \A i \in DOMAIN writePort.outbox :
              /\ i \in DOMAIN WritesInFlight
              /\ WritesInFlight[i] = WriteReq(writePort.outbox[i].id, writePort.outbox[i].addr,
                                              writePort.outbox[i].val)
         /\ \A c \in writePort.ctx :
              \E i \in DOMAIN WritesInFlight : WritesInFlight[i].addr = c.addr
<1>1. readPort \in ReadPort /\ writePort \in WritePort
  BY InFlightFacts
<1>2. Layout(readPort) /\ Layout(writePort)
  BY <1>1, InPortAt DEF ReadPort, WritePort
<1>3. /\ DOMAIN readPort.outbox = 1 .. Len(readPort.outbox) /\ Len(readPort.outbox) \in Nat
      /\ DOMAIN writePort.outbox = 1 .. Len(writePort.outbox) /\ Len(writePort.outbox) \in Nat
      /\ readPort.ctx \in Option(ReadContext) /\ writePort.ctx \in Option(WriteContext)
      /\ Len(readPort.inbox) \in Nat /\ Len(writePort.inbox) \in Nat
      /\ Busy(readPort.ctx) \in Nat /\ Busy(writePort.ctx) \in Nat
  <2>1. readPort.outbox \in Seq(ReadOutcome) /\ writePort.outbox \in Seq(WriteTask)
    BY <1>1, PortFields DEF ReadPort, WritePort
  <2>2. /\ readPort.ctx \in Option(ReadContext) /\ writePort.ctx \in Option(WriteContext)
        /\ Len(readPort.inbox) \in Nat /\ Len(writePort.inbox) \in Nat
        /\ Busy(readPort.ctx) \in Nat /\ Busy(writePort.ctx) \in Nat
    BY <1>1, PortFields DEF ReadPort, WritePort
  <2> QED BY <2>1, <2>2
<1>4. /\ DOMAIN ReadQueue = 1 .. Load(readPort)
      /\ \A i \in 1 .. Load(readPort) :
           ReadQueue[i] = ReadReq(InPort(readPort)[i].id, InPort(readPort)[i].addr)
  BY <1>1, ReadsFacts DEF ReadQueue
<1>5. /\ DOMAIN WritesInFlight = 1 .. Load(writePort)
      /\ \A i \in 1 .. Load(writePort) :
           WritesInFlight[i] = WriteReq(InPort(writePort)[i].id, InPort(writePort)[i].addr,
                                        InPort(writePort)[i].val)
  <2>1. WritesInFlight = Writes(InPort(writePort))
    BY InFlightFacts
  <2> QED BY <1>1, <2>1, WritesFacts
<1>6. /\ \A i \in DOMAIN readPort.outbox : i \in 1 .. Load(readPort)
      /\ \A i \in DOMAIN writePort.outbox : i \in 1 .. Load(writePort)
  <2>1. ASSUME NEW m \in Nat, NEW b \in Nat, NEW n \in Nat, NEW i \in 1 .. m
        PROVE  i \in 1 .. m + b + n
    OBVIOUS
  <2> QED BY <1>3, <2>1, Zenon DEF Load
<1>7. ASSUME NEW i \in DOMAIN readPort.outbox
      PROVE  /\ i \in DOMAIN ReadQueue
             /\ ReadQueue[i] = ReadReq(readPort.outbox[i].id, readPort.outbox[i].addr)
  <2>1. InPort(readPort)[i] = readPort.outbox[i]
    BY <1>2, <1>3 DEF Layout
  <2> QED BY <1>4, <1>6, <2>1
<1>8. ASSUME NEW i \in DOMAIN writePort.outbox
      PROVE  /\ i \in DOMAIN WritesInFlight
             /\ WritesInFlight[i] = WriteReq(writePort.outbox[i].id, writePort.outbox[i].addr,
                                             writePort.outbox[i].val)
  <2>1. InPort(writePort)[i] = writePort.outbox[i]
    BY <1>2, <1>3 DEF Layout
  <2> QED BY <1>5, <1>6, <2>1
<1>8a. ASSUME NEW m \in Nat, NEW n \in Nat
       PROVE  m + 1 \in 1 .. m + 1 + n
  OBVIOUS
<1>9. ASSUME NEW c \in readPort.ctx
      PROVE  \E i \in DOMAIN ReadQueue : ReadQueue[i].addr = c.addr
  <2> DEFINE k == Len(readPort.outbox) + 1
  <2>1. readPort.ctx # {} /\ The(readPort.ctx) = c /\ Busy(readPort.ctx) = 1
    BY <1>3, TheProperties DEF Busy
  <2>2. InPort(readPort)[k] = c
    BY <1>2, <2>1 DEF Layout
  <2>3. k \in 1 .. Load(readPort)
    BY <1>3, <1>8a, <2>1, Zenon DEF Load
  <2>4. ReadQueue[k] = ReadReq(c.id, c.addr) /\ k \in DOMAIN ReadQueue
    BY <1>4, <2>2, <2>3
  <2> QED BY <2>4 DEF ReadReq
<1>10. ASSUME NEW c \in writePort.ctx
       PROVE  \E i \in DOMAIN WritesInFlight : WritesInFlight[i].addr = c.addr
  <2> DEFINE k == Len(writePort.outbox) + 1
  <2>1. writePort.ctx # {} /\ The(writePort.ctx) = c /\ Busy(writePort.ctx) = 1
    BY <1>3, TheProperties DEF Busy
  <2>2. InPort(writePort)[k] = c
    BY <1>2, <2>1 DEF Layout
  <2>3. k \in 1 .. Load(writePort)
    BY <1>3, <1>8a, <2>1, Zenon DEF Load
  <2>4. WritesInFlight[k] = WriteReq(c.id, c.addr, c.val) /\ k \in DOMAIN WritesInFlight
    BY <1>5, <2>2, <2>3
  <2> QED BY <2>4 DEF WriteReq
<1> QED BY <1>7, <1>8, <1>9, <1>10

LEMMA NewContexts ==
  /\ \A t \in ReadTask : ReadCtx(t) \in ReadContext
  /\ \A t \in WriteTask : WriteCtx(t) \in WriteContext
BY CacheAssumption DEF ReadCtx, ReadTask, ReadContext, WriteCtx, WriteTask, WriteContext

\* One step of the read port, on a context just created or the one it has.
ReadPortMoves(c) ==
  /\ ReadQueue' = ReadQueue
  /\ Len(readPort.outbox) + 1 \in DOMAIN ReadQueue
  /\ ReadQueue[Len(readPort.outbox) + 1] = ReadReq(c.id, c.addr)
  /\ readPort.ctx = {c} \/ c.way = 0
  /\ \/ /\ c.way = Assoc
        /\ readPort'.ctx = {} /\ readPort'.outbox = Append(readPort.outbox, ReadResult(c, {}))
     \/ /\ c.way < Assoc /\ Matches(c)
        /\ readPort'.ctx = {}
        /\ readPort'.outbox
             = Append(readPort.outbox, ReadResult(c, {[val |-> The(Line(c)).val, way |-> c.way]}))
     \/ /\ c.way < Assoc /\ ~Matches(c)
        /\ readPort'.ctx = {[c EXCEPT !.way = @ + 1]} /\ readPort'.outbox = readPort.outbox

LEMMA ReadPortStepMoves ==
  ASSUME TypeOK, ReadPortStep
  PROVE  \E c \in ReadContext : ReadPortMoves(c)
<1> DEFINE p == Started(readPort, ReadCtx)
<1>1. readPort \in ReadPort
  BY InFlightFacts
<1>2. p \in ReadPort
  BY <1>1, ReadStarted DEF ReadPort
<1>3. PICK c \in p.ctx :
        readPort' = IF c.way >= Assoc THEN Done(p, ReadResult(c, {}))
                    ELSE IF Matches(c)
                      THEN Done(p, ReadResult(c, {[val |-> The(Line(c)).val, way |-> c.way]}))
                    ELSE Continued(p, [c EXCEPT !.way = @ + 1])
  BY DEF ReadPortStep
<1>4. /\ p.outbox = readPort.outbox
      /\ Reads(InPort(p)) = ReadQueue
      /\ p.ctx = readPort.ctx \/ \A d \in p.ctx : d.way = 0
  <2>1. CASE readPort.ctx = {} /\ readPort.inbox # <<>>
    <3> DEFINE t == Head(readPort.inbox)
    <3>1. readPort.inbox \in Seq(ReadTask)
      BY <1>1, PortFields DEF ReadPort
    <3>2. t \in ReadTask
      BY <2>1, <3>1, TailFacts
    <3>3. ReadCtx(t) \in ReadContext
      BY <3>2, NewContexts
    <3>4. p = Parts(Tail(readPort.inbox), {ReadCtx(t)}, readPort.outbox)
      BY <2>1 DEF Started
    <3>5. Reworked(readPort, p, t, ReadCtx(t))
      BY <1>1, <2>1, <3>3, <3>4, InPortStarted DEF ReadPort
    <3>6. ReadCtx(t).id = t.id /\ ReadCtx(t).addr = t.addr /\ ReadCtx(t).way = 0
      BY DEF ReadCtx
    <3>7. p.outbox = readPort.outbox /\ p.ctx = {ReadCtx(t)}
      BY <3>4 DEF Parts
    <3> HIDE DEF p, t
    <3>8. Reads(InPort(readPort)) = Reads(InPort(p))
      BY <3>5, <3>6, ReadsReworked
    <3> QED BY <3>6, <3>7, <3>8 DEF ReadQueue
  <2>2. CASE ~(readPort.ctx = {} /\ readPort.inbox # <<>>)
    BY <2>2 DEF Started, ReadQueue
  <2> QED BY <2>1, <2>2
<1> HIDE DEF p
<1>5. c \in ReadContext /\ p.ctx = {c}
  <2>1. p.ctx \in Option(ReadContext)
    BY <1>2, PortFields DEF ReadPort
  <2> QED BY <1>3, <2>1, TheProperties
<1>6. /\ c.id \in Id /\ c.addr \in Addr /\ c.way \in 0 .. Assoc /\ Assoc \in Nat \ {0}
      /\ ReadResult(c, {}) \in ReadOutcome
      /\ \A v \in Val, w \in Way : ReadResult(c, {[val |-> v, way |-> w]}) \in ReadOutcome
      /\ c.way < Assoc => [c EXCEPT !.way = @ + 1] \in ReadContext
  BY <1>5, ReadContextFacts, CacheAssumption
<1> DEFINE k == Len(readPort.outbox) + 1
<1>7. ASSUME NEW new, Reworked(p, readPort', c, new), new.id = c.id, new.addr = c.addr
      PROVE  /\ ReadQueue' = ReadQueue
             /\ k \in DOMAIN ReadQueue /\ ReadQueue[k] = ReadReq(c.id, c.addr)
  <2>1. Reads(InPort(p)) = Reads(InPort(readPort'))
    BY <1>7, ReadsReworked
  <2>2. ReadQueue' = ReadQueue
    BY <1>4, <2>1 DEF ReadQueue
  <2>3. k \in DOMAIN InPort(p) /\ InPort(p)[k] = c
    BY <1>4, <1>7 DEF Reworked
  <2>4. k \in DOMAIN Reads(InPort(p)) /\ Reads(InPort(p))[k] = ReadReq(c.id, c.addr)
    BY <2>3 DEF Reads
  <2> QED BY <1>4, <2>2, <2>4
<1>8. readPort.ctx = {c} \/ c.way = 0
  BY <1>4, <1>5
<1>9. ASSUME NEW r \in ReadOutcome, readPort' = Done(p, r), r.id = c.id, r.addr = c.addr
      PROVE  /\ ReadQueue' = ReadQueue
             /\ k \in DOMAIN ReadQueue /\ ReadQueue[k] = ReadReq(c.id, c.addr)
             /\ readPort'.ctx = {} /\ readPort'.outbox = Append(readPort.outbox, r)
  <2>1. Reworked(p, Done(p, r), c, r)
    BY <1>2, <1>5, InPortDone DEF ReadPort
  <2>2. readPort'.ctx = {} /\ readPort'.outbox = Append(readPort.outbox, r)
    BY <1>4, <1>9 DEF Parts, Done
  <2>3. Reworked(p, readPort', c, r)
    BY <1>9, <2>1
  <2> QED BY <1>7, <1>9, <2>2, <2>3
<1>10. ASSUME c.way >= Assoc PROVE ReadPortMoves(c)
  <2>1. readPort' = Done(p, ReadResult(c, {})) /\ c.way = Assoc
    BY <1>3, <1>6, <1>10
  <2>2. ReadResult(c, {}).id = c.id /\ ReadResult(c, {}).addr = c.addr
    BY DEF ReadResult
  <2> QED BY <1>6, <1>8, <1>9, <2>1, <2>2 DEF ReadPortMoves
<1>11. ASSUME c.way < Assoc, Matches(c) PROVE ReadPortMoves(c)
  <2> DEFINE r == ReadResult(c, {[val |-> The(Line(c)).val, way |-> c.way]})
  <2>1. readPort' = Done(p, r)
    BY <1>3, <1>6, <1>11
  <2>2. r.id = c.id /\ r.addr = c.addr
    BY DEF ReadResult
  <2>3. c.way \in Way /\ Line(c) # {}
    BY <1>6, <1>11 DEF Way, Matches
  <2>4. The(Line(c)).val \in Val
    BY <1>6, <2>3, LineFacts DEF Line, TypeOK, TableOf
  <2>5. r \in ReadOutcome
    BY <1>6, <2>3, <2>4
  <2> HIDE DEF r
  <2>6. /\ ReadQueue' = ReadQueue
        /\ k \in DOMAIN ReadQueue /\ ReadQueue[k] = ReadReq(c.id, c.addr)
        /\ readPort'.ctx = {} /\ readPort'.outbox = Append(readPort.outbox, r)
    BY <1>9, <2>1, <2>2, <2>5
  <2> QED BY <1>8, <1>11, <2>6 DEF ReadPortMoves, r
<1>12. ASSUME c.way < Assoc, ~Matches(c) PROVE ReadPortMoves(c)
  <2> DEFINE d == [c EXCEPT !.way = @ + 1]
  <2>1. readPort' = Continued(p, d)
    BY <1>3, <1>6, <1>12
  <2>2. d \in ReadContext
    BY <1>6, <1>12
  <2>3. d.id = c.id /\ d.addr = c.addr
    BY <1>5 DEF ReadContext
  <2> HIDE DEF d
  <2>4. Reworked(p, Continued(p, d), c, d)
    BY <1>2, <1>5, <2>2, InPortContinued DEF ReadPort
  <2>5. readPort'.ctx = {d} /\ readPort'.outbox = readPort.outbox
    BY <1>4, <2>1 DEF Parts, Continued
  <2>6. Reworked(p, readPort', c, d)
    BY <2>1, <2>4
  <2>7. /\ ReadQueue' = ReadQueue
        /\ k \in DOMAIN ReadQueue /\ ReadQueue[k] = ReadReq(c.id, c.addr)
    BY <1>7, <2>3, <2>6
  <2> QED BY <1>8, <1>12, <2>5, <2>7 DEF ReadPortMoves, d
<1>13. c.way >= Assoc \/ c.way < Assoc
  BY <1>6
<1> QED BY <1>5, <1>10, <1>11, <1>12, <1>13

\* One step of the write port.
WritePortMoves(c) ==
  /\ WritesInFlight' = WritesInFlight
  /\ Len(writePort.outbox) + 1 \in DOMAIN WritesInFlight
  /\ WritesInFlight[Len(writePort.outbox) + 1] = WriteReq(c.id, c.addr, c.val)
  /\ writePort.ctx = {c} \/ c.way = 0
  /\ \/ /\ c.way = Assoc
        /\ writePort'.ctx = {}
        /\ writePort'.outbox = Append(writePort.outbox, WriteReq(c.id, c.addr, c.val))
        /\ table' = table
     \/ /\ c.way < Assoc /\ Matches(c)
        /\ writePort'.ctx = {}
        /\ writePort'.outbox = Append(writePort.outbox, WriteReq(c.id, c.addr, c.val))
        /\ table' = Rewritten(c)
     \/ /\ c.way < Assoc /\ ~Matches(c)
        /\ writePort'.ctx = {[c EXCEPT !.way = @ + 1]} /\ writePort'.outbox = writePort.outbox
        /\ table' = table

LEMMA WritePortStepMoves ==
  ASSUME TypeOK, WritePortStep
  PROVE  \E c \in WriteContext : WritePortMoves(c)
<1> DEFINE p == Started(writePort, WriteCtx)
<1>1. writePort \in WritePort
  BY InFlightFacts
<1>2. p \in WritePort
  BY <1>1, WriteStarted DEF WritePort
<1>3. PICK c \in p.ctx :
        \/ /\ c.way >= Assoc
           /\ writePort' = Done(p, WriteReq(c.id, c.addr, c.val))
           /\ table' = table
        \/ /\ c.way < Assoc /\ Matches(c)
           /\ writePort' = Done(p, WriteReq(c.id, c.addr, c.val))
           /\ table' = Rewritten(c)
        \/ /\ c.way < Assoc /\ ~Matches(c)
           /\ writePort' = Continued(p, [c EXCEPT !.way = @ + 1])
           /\ table' = table
  BY DEF WritePortStep
<1>4. /\ p.outbox = writePort.outbox
      /\ Writes(InPort(p)) = Writes(InPort(writePort))
      /\ p.ctx = writePort.ctx \/ \A d \in p.ctx : d.way = 0
  <2>1. CASE writePort.ctx = {} /\ writePort.inbox # <<>>
    <3> DEFINE t == Head(writePort.inbox)
    <3>1. writePort.inbox \in Seq(WriteTask)
      BY <1>1, PortFields DEF WritePort
    <3>2. t \in WriteTask
      BY <2>1, <3>1, TailFacts
    <3>3. WriteCtx(t) \in WriteContext
      BY <3>2, NewContexts
    <3>4. p = Parts(Tail(writePort.inbox), {WriteCtx(t)}, writePort.outbox)
      BY <2>1 DEF Started
    <3>5. Reworked(writePort, p, t, WriteCtx(t))
      BY <1>1, <2>1, <3>3, <3>4, InPortStarted DEF WritePort
    <3>6. /\ WriteCtx(t).id = t.id /\ WriteCtx(t).addr = t.addr /\ WriteCtx(t).val = t.val
          /\ WriteCtx(t).way = 0
      BY DEF WriteCtx
    <3>7. p.outbox = writePort.outbox /\ p.ctx = {WriteCtx(t)}
      BY <3>4 DEF Parts
    <3> HIDE DEF p, t
    <3>8. Writes(InPort(writePort)) = Writes(InPort(p))
      BY <3>5, <3>6, WritesReworked
    <3> QED BY <3>6, <3>7, <3>8
  <2>2. CASE ~(writePort.ctx = {} /\ writePort.inbox # <<>>)
    BY <2>2 DEF Started
  <2> QED BY <2>1, <2>2
<1> HIDE DEF p
<1>5. c \in WriteContext /\ p.ctx = {c}
  <2>1. p.ctx \in Option(WriteContext)
    BY <1>2, PortFields DEF WritePort
  <2> QED BY <1>3, <2>1, TheProperties
<1>6. /\ c.id \in Id /\ c.addr \in Addr /\ c.val \in Val /\ c.way \in 0 .. Assoc
      /\ Assoc \in Nat \ {0}
      /\ c.way < Assoc => [c EXCEPT !.way = @ + 1] \in WriteContext
  BY <1>5, WriteContextFacts, CacheAssumption
<1> DEFINE k == Len(writePort.outbox) + 1
<1>7. ASSUME NEW new, Reworked(p, writePort', c, new),
             new.id = c.id, new.addr = c.addr, new.val = c.val
      PROVE  /\ WritesInFlight' = WritesInFlight
             /\ k \in DOMAIN WritesInFlight
             /\ WritesInFlight[k] = WriteReq(c.id, c.addr, c.val)
  <2>1. Writes(InPort(p)) = Writes(InPort(writePort'))
    BY <1>7, WritesReworked
  <2>2. WritesInFlight = Writes(InPort(p))
    BY <1>4, InFlightFacts
  <2>3. WritesInFlight' = Writes(InPort(writePort'))
    BY DEF WritesInFlight, Writes
  <2>4. k \in DOMAIN InPort(p) /\ InPort(p)[k] = c
    BY <1>4, <1>7 DEF Reworked
  <2>5. k \in DOMAIN Writes(InPort(p)) /\ Writes(InPort(p))[k] = WriteReq(c.id, c.addr, c.val)
    BY <2>4 DEF Writes
  <2> QED BY <2>1, <2>2, <2>3, <2>5
<1>8. writePort.ctx = {c} \/ c.way = 0
  BY <1>4, <1>5
<1>9. ASSUME writePort' = Done(p, WriteReq(c.id, c.addr, c.val))
      PROVE  /\ WritesInFlight' = WritesInFlight
             /\ k \in DOMAIN WritesInFlight
             /\ WritesInFlight[k] = WriteReq(c.id, c.addr, c.val)
             /\ writePort'.ctx = {}
             /\ writePort'.outbox = Append(writePort.outbox, WriteReq(c.id, c.addr, c.val))
  <2> DEFINE r == WriteReq(c.id, c.addr, c.val)
  <2>1. r \in WriteTask /\ r.id = c.id /\ r.addr = c.addr /\ r.val = c.val
    BY <1>6 DEF WriteReq, WriteTask
  <2> HIDE DEF r
  <2>2. Reworked(p, Done(p, r), c, r)
    BY <1>2, <1>5, <2>1, InPortDone DEF WritePort
  <2>3. writePort' = Done(p, r)
    BY <1>9 DEF r
  <2>4. writePort'.ctx = {} /\ writePort'.outbox = Append(writePort.outbox, r)
    BY <1>4, <2>3 DEF Parts, Done
  <2>5. Reworked(p, writePort', c, r)
    BY <2>2, <2>3
  <2>6. /\ WritesInFlight' = WritesInFlight
        /\ k \in DOMAIN WritesInFlight
        /\ WritesInFlight[k] = WriteReq(c.id, c.addr, c.val)
    BY <1>7, <2>1, <2>5
  <2> QED BY <2>4, <2>6 DEF r
<1>10. ASSUME c.way >= Assoc PROVE WritePortMoves(c)
  <2>1. writePort' = Done(p, WriteReq(c.id, c.addr, c.val)) /\ c.way = Assoc /\ table' = table
    BY <1>3, <1>6, <1>10
  <2> QED BY <1>8, <1>9, <2>1 DEF WritePortMoves
<1>11. ASSUME c.way < Assoc, Matches(c) PROVE WritePortMoves(c)
  <2>1. writePort' = Done(p, WriteReq(c.id, c.addr, c.val)) /\ table' = Rewritten(c)
    BY <1>3, <1>6, <1>11
  <2> QED BY <1>8, <1>9, <1>11, <2>1 DEF WritePortMoves
<1>12. ASSUME c.way < Assoc, ~Matches(c) PROVE WritePortMoves(c)
  <2> DEFINE d == [c EXCEPT !.way = @ + 1]
  <2>1. writePort' = Continued(p, d) /\ table' = table
    BY <1>3, <1>6, <1>12
  <2>2. d \in WriteContext
    BY <1>6, <1>12
  <2>3. d.id = c.id /\ d.addr = c.addr /\ d.val = c.val
    BY <1>5 DEF WriteContext
  <2> HIDE DEF d
  <2>4. Reworked(p, Continued(p, d), c, d)
    BY <1>2, <1>5, <2>2, InPortContinued DEF WritePort
  <2>5. writePort'.ctx = {d} /\ writePort'.outbox = writePort.outbox
    BY <1>4, <2>1 DEF Parts, Continued
  <2>6. Reworked(p, writePort', c, d)
    BY <2>1, <2>4
  <2>7. /\ WritesInFlight' = WritesInFlight
        /\ k \in DOMAIN WritesInFlight
        /\ WritesInFlight[k] = WriteReq(c.id, c.addr, c.val)
    BY <1>7, <2>3, <2>6
  <2> QED BY <1>8, <1>12, <2>1, <2>5, <2>7 DEF WritePortMoves, d
<1>13. c.way >= Assoc \/ c.way < Assoc
  BY <1>6
<1> QED BY <1>5, <1>10, <1>11, <1>12, <1>13

-----------------------------------------------------------------------------
(* Lines *)

LinesIn(t, a) == {l \in Index \X Way : l[1] = IndexOf(a) /\ \E e \in t[l] : e.tag = TagOf(a)}

\* An address is where its index and its tag say.
LEMMA AddressOfLine ==
  ASSUME NEW a \in Addr, NEW b \in Addr, IndexOf(a) = IndexOf(b), TagOf(a) = TagOf(b)
  PROVE  a = b
<1>1. a \in Nat /\ b \in Nat /\ Sets \in Nat \ {0}
  BY CacheAssumption
<1>2. ASSUME NEW n \in Nat, NEW m \in Nat \ {0}
      PROVE  n = m * (n \div m) + (n % m)
  OBVIOUS
<1>3. a = Sets * TagOf(a) + IndexOf(a) /\ b = Sets * TagOf(b) + IndexOf(b)
  BY <1>1, <1>2 DEF TagOf, IndexOf
<1> QED BY <1>3

LEMMA LineForm ==
  ASSUME NEW t, NEW a, NEW l \in LinesIn(t, a)
  PROVE  /\ l = <<IndexOf(a), l[2]>> /\ l[2] \in Way /\ l \in Index \X Way
         /\ \E e \in t[l] : e.tag = TagOf(a)
BY DEF LinesIn

\* Looking at a way finds the line of the address, if it is there.
LEMMA MatchesIsLine ==
  ASSUME NEW c, c.addr \in Addr, c.way \in Way
  PROVE  Matches(c) <=> <<IndexOf(c.addr), c.way>> \in LinesOf(c.addr)
<1>1. <<IndexOf(c.addr), c.way>> \in Index \X Way
  BY AddressFacts
<1> QED BY <1>1 DEF Matches, Line, LinesOf

\* Storing a value of address a: other addresses lose a line or none and keep the
\* others, and a has the line it had or the new one.
LinesBecome(t, a, w, v, u) ==
  LET new == <<IndexOf(a), w>>
  IN /\ \A b \in Addr : b # a =>
          \A l \in LinesIn(u, b) : l \in LinesIn(t, b) /\ u[l] = t[l]
     /\ \A l \in LinesIn(u, a) : l = new \/ (l \in LinesIn(t, a) /\ u[l] = t[l])
     /\ u[new] = {[tag |-> TagOf(a), val |-> v]}

LEMMA LinesAfter ==
  ASSUME NEW t \in TableOf, NEW a \in Addr, NEW w \in Way, NEW v
  PROVE  LinesBecome(t, a, w, v, [t EXCEPT ![<<IndexOf(a), w>>] = {[tag |-> TagOf(a), val |-> v]}])
<1> DEFINE new == <<IndexOf(a), w>>
           line == [tag |-> TagOf(a), val |-> v]
           u == [t EXCEPT ![new] = {line}]
<1>1. new \in Index \X Way /\ DOMAIN t = Index \X Way
  BY AddressFacts DEF TableOf
<1>2. u[new] = {line} /\ line.tag = TagOf(a)
  BY <1>1
<1>3. \A l \in Index \X Way : l # new => u[l] = t[l]
  BY <1>1
<1>4. ASSUME NEW b, NEW l \in LinesIn(u, b), l # new
      PROVE  l \in LinesIn(t, b) /\ u[l] = t[l]
  BY <1>3, <1>4 DEF LinesIn
<1>5. ASSUME NEW b \in Addr, b # a, NEW l \in LinesIn(u, b)
      PROVE  l # new
  <2>1. CASE l = new
    <3>1. new[1] = IndexOf(b) /\ \E e \in u[new] : e.tag = TagOf(b)
      BY <1>5, <2>1 DEF LinesIn
    <3>2. IndexOf(a) = IndexOf(b) /\ TagOf(a) = TagOf(b)
      BY <1>2, <3>1
    <3> QED BY <1>5, <3>2, AddressOfLine
  <2> QED BY <2>1
<1> HIDE DEF u
<1>6. LinesBecome(t, a, w, v, u)
  BY <1>2, <1>4, <1>5 DEF LinesBecome
<1> QED BY <1>6 DEF u

-----------------------------------------------------------------------------
(* Results and answers *)

\* The values found in the lines, and those the memory below answers with, are among the
\* values S gives for the address.
Hits(out, S) == \A i \in DOMAIN out : \A h \in out[i].hit : h.val \in S[out[i].addr]

Answers(ans, pend, S) ==
  \A i \in DOMAIN ans : \A p \in pend :
    ans[i].kind = "read" /\ ans[i].id = p.below => ans[i].val \in S[p.addr]

LEMMA HitsAppended ==
  ASSUME NEW out \in Seq(ReadOutcome), NEW S, Hits(out, S), NEW r,
         \A h \in r.hit : h.val \in S[r.addr]
  PROVE  Hits(Append(out, r), S)
<1> DEFINE new == Append(out, r)
           n == Len(out) + 1
<1>1. DOMAIN new = DOMAIN out \cup {n} /\ new[n] = r /\ \A i \in DOMAIN out : new[i] = out[i]
  BY AppendedAt
<1> HIDE DEF new, n
<1>2. Hits(new, S)
  BY <1>1 DEF Hits
<1> QED BY <1>2 DEF new

LEMMA HitsTailed ==
  ASSUME NEW out \in Seq(ReadOutcome), out # <<>>, NEW S, Hits(out, S)
  PROVE  Hits(Tail(out), S) /\ \A h \in Head(out).hit : h.val \in S[Head(out).addr]
<1> DEFINE new == Tail(out)
           first == Head(out)
<1>1. /\ 1 \in DOMAIN out /\ first = out[1]
      /\ \A i \in DOMAIN new : i + 1 \in DOMAIN out /\ new[i] = out[i + 1]
  BY TailedAt
<1> HIDE DEF new, first
<1>2. Hits(new, S) /\ \A h \in first.hit : h.val \in S[first.addr]
  BY <1>1 DEF Hits
<1> QED BY <1>2 DEF new, first

LEMMA AnswersTailed ==
  ASSUME NEW ans \in Seq(Reply), ans # <<>>, NEW pend, NEW S, Answers(ans, pend, S),
         NEW rest, rest \subseteq pend
  PROVE  /\ Answers(Tail(ans), rest, S)
         /\ \A p \in pend : Head(ans).kind = "read" /\ Head(ans).id = p.below
              => Head(ans).val \in S[p.addr]
<1> DEFINE new == Tail(ans)
           first == Head(ans)
<1>1. /\ 1 \in DOMAIN ans /\ first = ans[1]
      /\ \A i \in DOMAIN new : i + 1 \in DOMAIN ans /\ new[i] = ans[i + 1]
  BY TailedAt
<1> HIDE DEF new, first
<1>2. Answers(new, rest, S)
  BY <1>1 DEF Answers
<1>3. \A p \in pend : first.kind = "read" /\ first.id = p.below => first.val \in S[p.addr]
  BY <1>1 DEF Answers
<1> QED BY <1>2, <1>3 DEF new, first

\* An acknowledgement of a write answers no read.
LEMMA AnswersAcknowledged ==
  ASSUME NEW ans \in Seq(Reply), NEW pend, NEW S, Answers(ans, pend, S), NEW r, r.kind = "write"
  PROVE  Answers(Append(ans, r), pend, S)
<1> DEFINE new == Append(ans, r)
           n == Len(ans) + 1
<1>1. DOMAIN new = DOMAIN ans \cup {n} /\ new[n] = r /\ \A i \in DOMAIN ans : new[i] = ans[i]
  BY AppendedAt
<1> HIDE DEF new, n
<1>2. Answers(new, pend, S)
  BY <1>1 DEF Answers
<1> QED BY <1>2 DEF new

\* The answer to a new pending read answers no other.
LEMMA AnswersPended ==
  ASSUME NEW ans \in Seq(Reply), NEW pend, NEW S, Answers(ans, pend, S), Matched(pend, ans),
         NEW r, r.id \notin Awaited(ans), NEW n, n.below = r.id, r.val \in S[n.addr]
  PROVE  Answers(Append(ans, r), pend \cup {n}, S)
<1> DEFINE new == Append(ans, r)
           k == Len(ans) + 1
           both == pend \cup {n}
<1>1. DOMAIN new = DOMAIN ans \cup {k} /\ new[k] = r /\ \A i \in DOMAIN ans : new[i] = ans[i]
  BY AppendedAt
<1>2. \A p : p \in both <=> (p \in pend \/ p = n)
  OBVIOUS
<1> HIDE DEF new, k, both
<1>3. \A p \in pend : p.below # r.id
  BY DEF Matched
<1>4. \A i \in DOMAIN ans : ans[i].kind = "read" => ans[i].id # r.id
  BY AwaitedMember
<1>5. ASSUME NEW i \in DOMAIN new, NEW p \in both, new[i].kind = "read", new[i].id = p.below
      PROVE  new[i].val \in S[p.addr]
  <2>1. CASE i \in DOMAIN ans /\ p \in pend
    BY <1>1, <1>5, <2>1 DEF Answers
  <2>2. CASE i \in DOMAIN ans /\ p = n
    BY <1>1, <1>4, <1>5, <2>2
  <2>3. CASE i = k /\ p \in pend
    BY <1>1, <1>3, <1>5, <2>3
  <2>4. CASE i = k /\ p = n
    BY <1>1, <2>4
  <2> QED BY <1>1, <1>2, <1>5, <2>1, <2>2, <2>3, <2>4
<1>6. Answers(new, both, S)
  BY <1>5 DEF Answers
<1> QED BY <1>6 DEF new, both

-----------------------------------------------------------------------------
(* The invariant of the memory the owner sees *)

UniqueWrites(w) == \A i, j \in DOMAIN w : w[i].addr = w[j].addr => i = j
Apart(reads, w) == \A r \in reads : \A i \in DOMAIN w : r.addr # w[i].addr

\* What the memory below holds.
Current == [a \in Addr |-> {store[a]}]

\* Every value belongs to the address it is held for: in the memory below, in a line, in
\* a write or the result of a read in flight, and in the answer to a pending read.
ValuesBelong ==
  /\ \A a \in Addr : store[a] \in ValuesOf[a]
  /\ \A a \in Addr : \A l \in LinesIn(table, a) : \A e \in table[l] : e.val \in ValuesOf[a]
  /\ \A i \in DOMAIN WritesInFlight : WritesInFlight[i].val \in ValuesOf[WritesInFlight[i].addr]
  /\ Hits(readPort.outbox, ValuesOf)
  /\ Answers(answers, pending, ValuesOf)

OneRequestPerAddress ==
  /\ UniqueAddrs(ReadQueue, pending)
  /\ UniqueWrites(WritesInFlight)
  /\ Apart(ReadsInFlight, WritesInFlight)

\* A line holds what the write brings that the write port is done with, if there is one
\* to its address, and what the memory below holds otherwise.
LinesHoldTheLatest ==
  \A a \in Addr : \A l \in LinesIn(table, a) :
    /\ \A m \in LinesIn(table, a) : l = m
    /\ \A e \in table[l] :
         /\ \A i \in DOMAIN writePort.outbox :
              writePort.outbox[i].addr = a => e.val = writePort.outbox[i].val
         /\ (\A i \in DOMAIN writePort.outbox : writePort.outbox[i].addr # a) => e.val = store[a]

\* The ways a port has looked at do not hold the address it looks for, not even later:
\* nor does any way when it has found none, until the answer to the read is there.
SearchesMissNothing ==
  /\ \A c \in readPort.ctx : \A l \in LinesIn(table, c.addr) : l[2] >= c.way
  /\ \A c \in writePort.ctx : \A l \in LinesIn(table, c.addr) : l[2] >= c.way
  /\ \A i \in DOMAIN readPort.outbox :
       readPort.outbox[i].hit = {} => LinesIn(table, readPort.outbox[i].addr) = {}
  /\ \A p \in pending : LinesIn(table, p.addr) = {}

\* What has been read, in a line or in the memory below, is what the memory below holds.
ReadsAreCurrent == Hits(readPort.outbox, Current) /\ Answers(answers, pending, Current)

Exact == OneRequestPerAddress /\ LinesHoldTheLatest /\ SearchesMissNothing /\ ReadsAreCurrent

MemoryInv ==
  /\ UniqueIds(ReadQueue, pending)
  /\ ValuesBelong
  /\ owner = "disjoint" => Exact

-----------------------------------------------------------------------------
(* Writes in flight, one per address *)

LEMMA WriteAdded ==
  ASSUME NEW w \in Seq(WriteTask), NEW x, NEW reads
  PROVE  /\ UniqueWrites(w) /\ (\A i \in DOMAIN w : w[i].addr # x.addr)
              => UniqueWrites(Append(w, x))
         /\ Apart(reads, w) /\ (\A r \in reads : r.addr # x.addr) => Apart(reads, Append(w, x))
         /\ (\A i \in DOMAIN w : w[i].val \in ValuesOf[w[i].addr]) /\ x.val \in ValuesOf[x.addr]
              => \A i \in DOMAIN Append(w, x) :
                   Append(w, x)[i].val \in ValuesOf[Append(w, x)[i].addr]
<1> DEFINE s == Append(w, x)
           n == Len(w) + 1
<1>1. DOMAIN s = DOMAIN w \cup {n} /\ s[n] = x /\ \A i \in DOMAIN w : s[i] = w[i]
  BY AppendedAt
<1> HIDE DEF s, n
<1>2. UniqueWrites(w) /\ (\A i \in DOMAIN w : w[i].addr # x.addr) => UniqueWrites(s)
  BY <1>1 DEF UniqueWrites
<1>3. Apart(reads, w) /\ (\A r \in reads : r.addr # x.addr) => Apart(reads, s)
  BY <1>1 DEF Apart
<1>4. (\A i \in DOMAIN w : w[i].val \in ValuesOf[w[i].addr]) /\ x.val \in ValuesOf[x.addr]
        => \A i \in DOMAIN s : s[i].val \in ValuesOf[s[i].addr]
  BY <1>1
<1> QED BY <1>2, <1>3, <1>4 DEF s

LEMMA WriteLeaves ==
  ASSUME NEW w \in Seq(WriteTask), w # <<>>, NEW reads
  PROVE  /\ UniqueWrites(w) => /\ UniqueWrites(Tail(w))
                               /\ \A i \in DOMAIN Tail(w) : Tail(w)[i].addr # Head(w).addr
         /\ Apart(reads, w) => /\ Apart(reads, Tail(w))
                               /\ \A r \in reads : r.addr # Head(w).addr
         /\ (\A i \in DOMAIN w : w[i].val \in ValuesOf[w[i].addr])
              => /\ Head(w).val \in ValuesOf[Head(w).addr]
                 /\ \A i \in DOMAIN Tail(w) : Tail(w)[i].val \in ValuesOf[Tail(w)[i].addr]
<1> DEFINE s == Tail(w)
           h == Head(w)
<1>1. /\ 1 \in DOMAIN w /\ h = w[1]
      /\ \A i \in DOMAIN s : i + 1 \in DOMAIN w /\ i + 1 # 1 /\ s[i] = w[i + 1]
      /\ \A i, j \in DOMAIN s : i + 1 = j + 1 => i = j
  BY TailedAt
<1> HIDE DEF s, h
<1>2. ASSUME UniqueWrites(w)
      PROVE  UniqueWrites(s) /\ \A i \in DOMAIN s : s[i].addr # h.addr
  <2>1. ASSUME NEW i \in DOMAIN s, NEW j \in DOMAIN s, s[i].addr = s[j].addr PROVE i = j
    BY <1>1, <1>2, <2>1 DEF UniqueWrites
  <2>2. \A i \in DOMAIN s : s[i].addr # h.addr
    BY <1>1, <1>2 DEF UniqueWrites
  <2> QED BY <2>1, <2>2 DEF UniqueWrites
<1>3. Apart(reads, w) => Apart(reads, s) /\ \A r \in reads : r.addr # h.addr
  BY <1>1 DEF Apart
<1>4. (\A i \in DOMAIN w : w[i].val \in ValuesOf[w[i].addr])
        => h.val \in ValuesOf[h.addr] /\ \A i \in DOMAIN s : s[i].val \in ValuesOf[s[i].addr]
  BY <1>1
<1> QED BY <1>2, <1>3, <1>4 DEF s, h

-----------------------------------------------------------------------------
(* Sending *)

\* An id the owner has no answer for is none of the requests in flight.
LEMMA FreeId ==
  ASSUME idSeq \notin IdsInUse
  PROVE  /\ \A r \in ReadsInFlight : r.id # idSeq
         /\ \A i \in DOMAIN WritesInFlight : WritesInFlight[i].id # idSeq
BY DEF IdsInUse

LEMMA SendReadEffect ==
  ASSUME TypeOK, SendRead
  PROVE  /\ UNCHANGED <<pending, WritesInFlight, store, table, answers, outbox, owner, writePort>>
         /\ readPort'.outbox = readPort.outbox /\ readPort'.ctx = readPort.ctx
         /\ idSeq \notin IdsInUse /\ idSeq \in Id
         /\ \E a \in Addr : MayRead(a) /\ ReadQueue' = Append(ReadQueue, ReadReq(idSeq, a))
<1>1. PICK a \in Addr : MayRead(a) /\ readPort' = Sent(readPort, ReadReq(idSeq, a))
  BY DEF SendRead
<1>2. readPort \in ReadPort /\ idSeq \in Id
  BY InFlightFacts DEF TypeOK
<1>3. ReadReq(idSeq, a) \in ReadTask /\ ReadReq(idSeq, a).id = idSeq /\ ReadReq(idSeq, a).addr = a
  BY <1>2 DEF ReadReq, ReadTask
<1>4. Reads(InPort(Sent(readPort, ReadReq(idSeq, a)))) = Append(ReadQueue, ReadReq(idSeq, a))
  BY <1>2, <1>3, ReadsSent DEF ReadQueue
<1>5. ReadQueue' = Append(ReadQueue, ReadReq(idSeq, a))
  BY <1>1, <1>4 DEF ReadQueue
<1>6. readPort'.outbox = readPort.outbox /\ readPort'.ctx = readPort.ctx
  BY <1>1 DEF Sent, Parts
<1>7. UNCHANGED <<pending, WritesInFlight, store, table, answers, outbox, owner, writePort>>
  BY DEF SendRead, belowVars, WritesInFlight
<1>8. idSeq \notin IdsInUse
  BY DEF SendRead, MaySend
<1> QED BY <1>1, <1>2, <1>5, <1>6, <1>7, <1>8

LEMMA SendWriteEffect ==
  ASSUME TypeOK, SendWrite
  PROVE  /\ UNCHANGED <<pending, ReadQueue, store, table, answers, outbox, owner, readPort>>
         /\ writePort'.outbox = writePort.outbox /\ writePort'.ctx = writePort.ctx
         /\ idSeq \notin IdsInUse /\ idSeq \in Id
         /\ \E a \in Addr : \E v \in ValuesOf[a] :
              MayWrite(a) /\ WritesInFlight' = Append(WritesInFlight, WriteReq(idSeq, a, v))
<1>1. PICK a \in Addr : \E v \in ValuesOf[a] :
        MayWrite(a) /\ writePort' = Sent(writePort, WriteReq(idSeq, a, v))
  BY DEF SendWrite
<1>2. PICK v \in ValuesOf[a] : MayWrite(a) /\ writePort' = Sent(writePort, WriteReq(idSeq, a, v))
  BY <1>1
<1>3. writePort \in WritePort /\ idSeq \in Id /\ v \in Val
  BY InFlightFacts, ValueFacts DEF TypeOK
<1> DEFINE t == WriteReq(idSeq, a, v)
<1>4. t \in WriteTask /\ t.id = idSeq /\ t.addr = a /\ t.val = v
  BY <1>3 DEF WriteReq, WriteTask
<1>5. Writes(InPort(Sent(writePort, t))) = Append(Writes(InPort(writePort)), WriteReq(t.id, t.addr, t.val))
  BY <1>3, <1>4, WritesSent
<1>6. WritesInFlight = Writes(InPort(writePort)) /\ WritesInFlight' = Writes(InPort(writePort'))
  BY DEF WritesInFlight, Writes
<1>7. WritesInFlight' = Append(WritesInFlight, t)
  BY <1>2, <1>4, <1>5, <1>6
<1>8. writePort'.outbox = writePort.outbox /\ writePort'.ctx = writePort.ctx
  BY <1>2 DEF Sent, Parts
<1>9. UNCHANGED <<pending, ReadQueue, store, table, answers, outbox, owner, readPort>>
  BY DEF SendWrite, belowVars, ReadQueue
<1>10. idSeq \notin IdsInUse
  BY DEF SendWrite, MaySend
<1> QED BY <1>2, <1>3, <1>7, <1>8, <1>9, <1>10

\* Nothing in the invariant is about what can be told from these but the queues.
LEMMA QueuesOnly ==
  ASSUME MemoryInv,
         UNCHANGED <<store, table, answers, pending, owner>>,
         readPort'.outbox = readPort.outbox, readPort'.ctx = readPort.ctx,
         writePort'.outbox = writePort.outbox, writePort'.ctx = writePort.ctx,
         UniqueIds(ReadQueue', pending'),
         \A i \in DOMAIN WritesInFlight' : WritesInFlight'[i].val \in ValuesOf[WritesInFlight'[i].addr],
         owner = "disjoint" => OneRequestPerAddress'
  PROVE  MemoryInv'
<1>1. ValuesBelong'
  <2>1. ValuesBelong
    BY DEF MemoryInv
  <2> QED BY <2>1, Zenon DEF ValuesBelong
<1>2. ASSUME owner = "disjoint"
      PROVE  Exact'
  <2>1. Exact
    BY <1>2 DEF MemoryInv
  <2>2. LinesHoldTheLatest'
    BY <2>1 DEF Exact, LinesHoldTheLatest
  <2>3. SearchesMissNothing'
    BY <2>1, Zenon DEF Exact, SearchesMissNothing
  <2>4. ReadsAreCurrent'
    BY <2>1, Zenon DEF Exact, ReadsAreCurrent, Current
  <2> QED BY <1>2, <2>2, <2>3, <2>4 DEF Exact
<1> QED BY <1>1, <1>2 DEF MemoryInv

LEMMA ReadsAreReads ==
  ASSUME NEW p, NEW pend
  PROVE  {ReadReq(InPort(p)[i].id, InPort(p)[i].addr) : i \in DOMAIN InPort(p)}
           \cup {ReadReq(o.id, o.addr) : o \in pend}
         = ReadsOf(Reads(InPort(p)), pend)
<1> DEFINE q == InPort(p)
<1> HIDE DEF q
<1>1. {ReadReq(q[i].id, q[i].addr) : i \in DOMAIN q} = {Reads(q)[i] : i \in DOMAIN Reads(q)}
  BY DEF Reads
<1> QED BY <1>1 DEF ReadsOf, q

\* Before and after a step.
LEMMA ReadsInFlightAre ==
  /\ ReadsInFlight = ReadsOf(ReadQueue, pending)
  /\ ReadsInFlight' = ReadsOf(ReadQueue', pending')
BY ReadsAreReads DEF ReadsInFlight, ReadQueue

LEMMA SendReadKeeps ==
  ASSUME TypeOK, MemoryInv, SendRead
  PROVE  MemoryInv'
<1>1. /\ UNCHANGED <<pending, WritesInFlight, store, table, answers, owner, writePort>>
      /\ readPort'.outbox = readPort.outbox /\ readPort'.ctx = readPort.ctx
      /\ idSeq \notin IdsInUse /\ idSeq \in Id
  BY SendReadEffect
<1>2. PICK a \in Addr : MayRead(a) /\ ReadQueue' = Append(ReadQueue, ReadReq(idSeq, a))
  BY SendReadEffect
<1> DEFINE t == ReadReq(idSeq, a)
<1>3. t \in ReadTask /\ t.id = idSeq /\ t.addr = a
  BY <1>1 DEF ReadReq, ReadTask
<1>4. ReadQueue' = Append(ReadQueue, t)
  BY <1>2
<1>5. ReadQueue \in Seq(ReadTask) /\ ReadsInFlight = ReadsOf(ReadQueue, pending)
  BY InFlightFacts
<1> HIDE DEF t
<1>6. \A r \in ReadsOf(ReadQueue, pending) : r.id # t.id
  BY <1>1, <1>3, <1>5, FreeId
<1>7. UniqueIds(ReadQueue', pending')
  BY <1>1, <1>3, <1>4, <1>5, <1>6, ReadAdded DEF MemoryInv
<1>8. \A i \in DOMAIN WritesInFlight' : WritesInFlight'[i].val \in ValuesOf[WritesInFlight'[i].addr]
  BY <1>1 DEF MemoryInv, ValuesBelong
<1>9. ASSUME owner = "disjoint"
      PROVE  OneRequestPerAddress'
  <2>1. ~Reading(a) /\ ~Writing(a)
    BY <1>2, <1>9 DEF MayRead
  <2>2. \A r \in ReadsOf(ReadQueue, pending) : r.addr # t.addr
    BY <1>3, <1>5, <2>1 DEF Reading
  <2>3. OneRequestPerAddress
    BY <1>9 DEF MemoryInv, Exact
  <2>4. UniqueAddrs(ReadQueue', pending')
    BY <1>1, <1>3, <1>4, <1>5, <2>2, <2>3, ReadAdded DEF OneRequestPerAddress
  <2>5. ReadsInFlight' = ReadsInFlight \cup {t}
    <3>1. ReadsOf(Append(ReadQueue, t), pending) = ReadsOf(ReadQueue, pending) \cup {t}
      BY <1>3, <1>5, ReadAdded
    <3> QED BY <1>1, <1>4, <3>1, ReadsInFlightAre
  <2>6. Apart(ReadsInFlight', WritesInFlight')
    BY <1>1, <1>3, <2>1, <2>3, <2>5 DEF OneRequestPerAddress, Apart, Writing
  <2>7. UniqueWrites(WritesInFlight')
    BY <1>1, <2>3 DEF OneRequestPerAddress
  <2> QED BY <2>4, <2>6, <2>7 DEF OneRequestPerAddress
<1> QED BY <1>1, <1>7, <1>8, <1>9, QueuesOnly

LEMMA SendWriteKeeps ==
  ASSUME TypeOK, MemoryInv, SendWrite
  PROVE  MemoryInv'
<1>1. /\ UNCHANGED <<pending, ReadQueue, store, table, answers, owner, readPort>>
      /\ writePort'.outbox = writePort.outbox /\ writePort'.ctx = writePort.ctx
      /\ idSeq \in Id
  BY SendWriteEffect
<1>2. PICK a \in Addr : \E v \in ValuesOf[a] :
        MayWrite(a) /\ WritesInFlight' = Append(WritesInFlight, WriteReq(idSeq, a, v))
  BY SendWriteEffect
<1>3. PICK v \in ValuesOf[a] :
        MayWrite(a) /\ WritesInFlight' = Append(WritesInFlight, WriteReq(idSeq, a, v))
  BY <1>2
<1> DEFINE t == WriteReq(idSeq, a, v)
<1>4. t.addr = a /\ t.val = v
  BY DEF WriteReq
<1>5. WritesInFlight' = Append(WritesInFlight, t)
  BY <1>3
<1>6. WritesInFlight \in Seq(WriteTask)
  BY InFlightFacts
<1> HIDE DEF t
<1>7. UniqueIds(ReadQueue', pending')
  BY <1>1 DEF MemoryInv
<1>8. \A i \in DOMAIN WritesInFlight' : WritesInFlight'[i].val \in ValuesOf[WritesInFlight'[i].addr]
  <2>1. \A i \in DOMAIN WritesInFlight : WritesInFlight[i].val \in ValuesOf[WritesInFlight[i].addr]
    BY DEF MemoryInv, ValuesBelong
  <2>2. t.val \in ValuesOf[t.addr]
    BY <1>4
  <2>3. \A i \in DOMAIN Append(WritesInFlight, t) :
          Append(WritesInFlight, t)[i].val \in ValuesOf[Append(WritesInFlight, t)[i].addr]
    BY <1>6, <2>1, <2>2, WriteAdded
  <2> QED BY <1>5, <2>3, Zenon
<1>9. ASSUME owner = "disjoint"
      PROVE  OneRequestPerAddress'
  <2>1. ~Reading(a) /\ ~Writing(a)
    BY <1>3, <1>9 DEF MayWrite
  <2>2. OneRequestPerAddress
    BY <1>9 DEF MemoryInv, Exact
  <2>3. UniqueAddrs(ReadQueue', pending')
    BY <1>1, <2>2 DEF OneRequestPerAddress
  <2>4. ReadsInFlight' = ReadsInFlight
    BY <1>1, ReadsInFlightAre
  <2>5. \A i \in DOMAIN WritesInFlight : WritesInFlight[i].addr # t.addr
    BY <1>4, <2>1 DEF Writing
  <2>6. UniqueWrites(Append(WritesInFlight, t))
    BY <1>6, <2>2, <2>5, WriteAdded DEF OneRequestPerAddress
  <2>7. \A r \in ReadsInFlight : r.addr # t.addr
    BY <1>4, <2>1 DEF Reading
  <2>8. Apart(ReadsInFlight, Append(WritesInFlight, t))
    BY <1>6, <2>2, <2>7, WriteAdded DEF OneRequestPerAddress
  <2> QED BY <1>5, <2>3, <2>4, <2>6, <2>8 DEF OneRequestPerAddress
<1> QED BY <1>1, <1>7, <1>8, <1>9, QueuesOnly

\* Steps that touch no request, line or value.
LEMMA NothingMoves ==
  ASSUME MemoryInv,
         UNCHANGED <<table, readPort, writePort, pending, store, answers, owner>>
  PROVE  MemoryInv'
<1>1. ReadQueue' = ReadQueue /\ WritesInFlight' = WritesInFlight
  BY DEF ReadQueue, WritesInFlight
<1>2. ReadsInFlight' = ReadsInFlight
  BY <1>1, ReadsInFlightAre
<1>3. owner = "disjoint" => OneRequestPerAddress'
  BY <1>1, <1>2 DEF MemoryInv, Exact, OneRequestPerAddress
<1>4. \A i \in DOMAIN WritesInFlight' : WritesInFlight'[i].val \in ValuesOf[WritesInFlight'[i].addr]
  BY <1>1 DEF MemoryInv, ValuesBelong
<1>5. UniqueIds(ReadQueue', pending')
  BY <1>1 DEF MemoryInv
<1> QED BY <1>3, <1>4, <1>5, QueuesOnly

-----------------------------------------------------------------------------
(* The ports step *)

LEMMA ReadPortStepKeeps ==
  ASSUME TypeOK, MemoryInv, ReadPortStep
  PROVE  MemoryInv'
<1> DEFINE out == readPort.outbox
<1>1. UNCHANGED <<table, writePort, pending, store, answers, owner>>
  BY DEF ReadPortStep, belowVars
<1>2. PICK c \in ReadContext : ReadPortMoves(c)
  BY ReadPortStepMoves
<1>3. /\ c.addr \in Addr /\ c.way \in 0 .. Assoc /\ Assoc \in Nat \ {0}
      /\ c.way < Assoc => c.way \in Way
  <2>1. c.addr \in Addr /\ c.way \in 0 .. Assoc /\ Assoc \in Nat \ {0}
    BY ReadContextFacts, CacheAssumption
  <2> QED BY <2>1 DEF Way
<1>4. /\ ReadQueue' = ReadQueue /\ WritesInFlight' = WritesInFlight
      /\ ReadsInFlight' = ReadsInFlight
  BY <1>1, <1>2, ReadsInFlightAre DEF ReadPortMoves, WritesInFlight
<1>5. out \in Seq(ReadOutcome) /\ table \in TableOf
  BY InFlightFacts, PortFields DEF ReadPort, TypeOK, TableOf
<1>6. UniqueIds(ReadQueue, pending)'
  BY <1>1, <1>4 DEF MemoryInv
<1> HIDE DEF out
\* What a hit finds.
<1>7. ASSUME c.way < Assoc, Matches(c)
      PROVE  /\ <<IndexOf(c.addr), c.way>> \in LinesIn(table, c.addr)
             /\ The(Line(c)) \in table[<<IndexOf(c.addr), c.way>>]
  <2>1. <<IndexOf(c.addr), c.way>> \in LinesIn(table, c.addr)
    BY <1>3, <1>7, MatchesIsLine DEF LinesOf, LinesIn
  <2>2. Line(c) \in Option([tag : Nat, val : Val]) /\ Line(c) # {}
    BY <1>3, <1>5, <1>7, AddressFacts DEF Line, TableOf, Matches
  <2>3. The(Line(c)) \in Line(c)
    BY <2>2, TheProperties
  <2> QED BY <2>1, <2>3 DEF Line
<1>8. ASSUME NEW S, Hits(out, S),
             c.way < Assoc /\ Matches(c) => The(Line(c)).val \in S[c.addr]
      PROVE  Hits(readPort'.outbox, S)
  <2>1. ASSUME NEW r, readPort'.outbox = Append(out, r), \A h \in r.hit : h.val \in S[r.addr]
        PROVE  Hits(readPort'.outbox, S)
    BY <1>5, <1>8, <2>1, HitsAppended
  <2>2. CASE readPort'.outbox = Append(out, ReadResult(c, {}))
    <3>1. ReadResult(c, {}).hit = {}
      BY DEF ReadResult
    <3> QED BY <2>1, <2>2, <3>1
  <2>3. ASSUME c.way < Assoc, Matches(c),
               readPort'.outbox
                 = Append(out, ReadResult(c, {[val |-> The(Line(c)).val, way |-> c.way]}))
        PROVE  Hits(readPort'.outbox, S)
    <3> DEFINE v == The(Line(c)).val
               r == ReadResult(c, {[val |-> v, way |-> c.way]})
    <3>1. v \in S[c.addr]
      BY <1>8, <2>3
    <3> HIDE DEF v
    <3>2. r.addr = c.addr /\ \A h \in r.hit : h.val = v
      BY DEF ReadResult
    <3>3. readPort'.outbox = Append(out, r)
      BY <2>3 DEF v
    <3> HIDE DEF r
    <3> QED BY <2>1, <3>1, <3>2, <3>3
  <2>4. CASE readPort'.outbox = out
    BY <1>8, <2>4
  <2> QED BY <1>2, <2>2, <2>3, <2>4 DEF ReadPortMoves, out
<1>9. ValuesBelong'
  <2>1. ValuesBelong
    BY DEF MemoryInv
  <2>2. c.way < Assoc /\ Matches(c) => The(Line(c)).val \in ValuesOf[c.addr]
    BY <1>3, <1>7, <2>1 DEF ValuesBelong
  <2>3. Hits(readPort'.outbox, ValuesOf)
    BY <1>8, <2>1, <2>2 DEF ValuesBelong, out
  <2> QED BY <1>1, <1>4, <2>1, <2>3 DEF ValuesBelong
<1>10. ASSUME owner = "disjoint"
       PROVE  Exact'
  <2>1. Exact
    BY <1>10 DEF MemoryInv
  <2>2. OneRequestPerAddress'
    BY <1>1, <1>4, <2>1 DEF Exact, OneRequestPerAddress
  <2>3. LinesHoldTheLatest'
    BY <1>1, <2>1 DEF Exact, LinesHoldTheLatest
  <2>4. SearchesMissNothing'
    <3>1. SearchesMissNothing
      BY <2>1 DEF Exact
    <3>2. ASSUME NEW d \in readPort'.ctx, NEW l \in LinesIn(table, d.addr)
          PROVE  l[2] >= d.way
      <4> DEFINE e == [c EXCEPT !.way = @ + 1]
      <4>1. c.way < Assoc /\ ~Matches(c) /\ d = e
        BY <1>2, <3>2 DEF ReadPortMoves
      <4>2. e.addr = c.addr /\ e.way = c.way + 1
        BY DEF ReadContext
      <4> HIDE DEF e
      <4>3. l \in LinesIn(table, c.addr)
        BY <3>2, <4>1, <4>2
      <4>4. l = <<IndexOf(c.addr), l[2]>> /\ l[2] \in Way
        BY <4>3, LineForm
      <4>5. l[2] \in Nat /\ l[2] >= c.way
        <5>1. l[2] \in Nat
          BY <1>3, <4>4 DEF Way
        <5>2. CASE readPort.ctx = {c}
          BY <3>1, <4>3, <5>1, <5>2 DEF SearchesMissNothing
        <5>3. CASE c.way = 0
          BY <5>1, <5>3
        <5> QED BY <1>2, <5>1, <5>2, <5>3 DEF ReadPortMoves
      <4>6. l[2] # c.way
        <5>1. <<IndexOf(c.addr), c.way>> \notin LinesIn(table, c.addr)
          BY <1>3, <4>1, MatchesIsLine DEF LinesOf, LinesIn
        <5> QED BY <4>3, <4>4, <5>1
      <4> QED BY <1>3, <4>1, <4>2, <4>5, <4>6
    <3>3. ASSUME NEW i \in DOMAIN readPort'.outbox, readPort'.outbox[i].hit = {}
          PROVE  LinesIn(table, readPort'.outbox[i].addr) = {}
      <4>1. CASE readPort'.outbox = out
        BY <3>1, <3>3, <4>1 DEF SearchesMissNothing, out
      <4>2. ASSUME NEW r, readPort'.outbox = Append(out, r),
                   r.hit = {} => LinesIn(table, r.addr) = {}
            PROVE  LinesIn(table, readPort'.outbox[i].addr) = {}
        <5>1. /\ DOMAIN Append(out, r) = DOMAIN out \cup {Len(out) + 1}
              /\ \A j \in DOMAIN out : Append(out, r)[j] = out[j]
              /\ Append(out, r)[Len(out) + 1] = r
          BY <1>5, AppendedAt
        <5>2. CASE i \in DOMAIN out
          <6>1. readPort'.outbox[i] = out[i]
            BY <4>2, <5>1, <5>2
          <6> QED BY <3>1, <3>3, <5>2, <6>1 DEF SearchesMissNothing, out
        <5>3. CASE i = Len(out) + 1
          BY <3>3, <4>2, <5>1, <5>3
        <5> QED BY <3>3, <4>2, <5>1, <5>2, <5>3
      <4>3. ASSUME c.way = Assoc, readPort'.outbox = Append(out, ReadResult(c, {}))
            PROVE  LinesIn(table, readPort'.outbox[i].addr) = {}
        <5>1. ReadResult(c, {}).addr = c.addr
          BY DEF ReadResult
        <5>2. ASSUME NEW l \in LinesIn(table, c.addr) PROVE FALSE
          <6>1. l[2] \in Way
            BY <5>2, LineForm
          <6>2. readPort.ctx = {c}
            BY <1>2, <1>3, <4>3 DEF ReadPortMoves
          <6>3. l[2] >= c.way
            BY <3>1, <5>2, <6>2 DEF SearchesMissNothing
          <6> QED BY <1>3, <4>3, <6>1, <6>3 DEF Way
        <5> QED BY <4>2, <4>3, <5>1, <5>2
      <4>4. ASSUME readPort'.outbox
                     = Append(out, ReadResult(c, {[val |-> The(Line(c)).val, way |-> c.way]}))
            PROVE  LinesIn(table, readPort'.outbox[i].addr) = {}
        <5>1. ReadResult(c, {[val |-> The(Line(c)).val, way |-> c.way]}).hit # {}
          BY DEF ReadResult
        <5> QED BY <4>2, <4>4, <5>1
      <4> QED BY <1>2, <4>1, <4>3, <4>4 DEF ReadPortMoves, out
    <3> QED BY <1>1, <3>1, <3>2, <3>3 DEF SearchesMissNothing
  <2>5. ReadsAreCurrent'
    <3>1. ReadsAreCurrent /\ Current' = Current
      BY <1>1, <2>1 DEF Exact, Current
    <3>2. ASSUME c.way < Assoc, Matches(c)
          PROVE  The(Line(c)).val \in Current[c.addr]
      <4>1. ASSUME NEW i \in DOMAIN writePort.outbox
            PROVE  writePort.outbox[i].addr # c.addr
        <5>1. i \in DOMAIN WritesInFlight /\ WritesInFlight[i].addr = writePort.outbox[i].addr
          <6>1. /\ i \in DOMAIN WritesInFlight
                /\ WritesInFlight[i] = WriteReq(writePort.outbox[i].id, writePort.outbox[i].addr,
                                                writePort.outbox[i].val)
            BY InTheQueue
          <6> QED BY <6>1 DEF WriteReq
        <5>2. ReadReq(c.id, c.addr) \in ReadsInFlight
          BY <1>2, ReadsInFlightAre, ReadsOfMember DEF ReadPortMoves
        <5>3. ReadReq(c.id, c.addr).addr = c.addr
          BY DEF ReadReq
        <5> QED BY <2>1, <5>1, <5>2, <5>3 DEF Exact, OneRequestPerAddress, Apart
      <4>2. The(Line(c)).val = store[c.addr]
        BY <1>3, <1>7, <2>1, <3>2, <4>1 DEF Exact, LinesHoldTheLatest
      <4> QED BY <1>3, <4>2 DEF Current
    <3>3. Hits(readPort'.outbox, Current)
      BY <1>8, <3>1, <3>2 DEF ReadsAreCurrent, out
    <3> QED BY <1>1, <3>1, <3>3 DEF ReadsAreCurrent
  <2> QED BY <2>2, <2>3, <2>4, <2>5 DEF Exact
<1> QED BY <1>1, <1>6, <1>9, <1>10 DEF MemoryInv

LEMMA AddressesInUse ==
  ASSUME TypeOK
  PROVE  /\ \A c \in readPort.ctx : c.addr \in Addr
         /\ \A i \in DOMAIN readPort.outbox : readPort.outbox[i].addr \in Addr
         /\ \A c \in writePort.ctx : c.addr \in Addr
         /\ \A i \in DOMAIN writePort.outbox : writePort.outbox[i].addr \in Addr
         /\ \A p \in pending : p.addr \in Addr
<1>1. /\ readPort.ctx \in Option(ReadContext) /\ readPort.outbox \in Seq(ReadOutcome)
      /\ writePort.ctx \in Option(WriteContext) /\ writePort.outbox \in Seq(WriteTask)
  <2>1. readPort \in ReadPort /\ writePort \in WritePort
    BY InFlightFacts
  <2> QED BY <2>1, PortFields DEF ReadPort, WritePort
<1>2. \A c \in readPort.ctx : c.addr \in Addr
  BY <1>1, TheProperties DEF Option, ReadContext
<1>3. \A c \in writePort.ctx : c.addr \in Addr
  BY <1>1, TheProperties DEF Option, WriteContext
<1>4. ASSUME NEW i \in DOMAIN readPort.outbox PROVE readPort.outbox[i].addr \in Addr
  <2>1. readPort.outbox[i] \in ReadOutcome
    BY <1>1, ElementOf
  <2> QED BY <2>1 DEF ReadOutcome
<1>5. ASSUME NEW i \in DOMAIN writePort.outbox PROVE writePort.outbox[i].addr \in Addr
  <2>1. writePort.outbox[i] \in WriteTask
    BY <1>1, ElementOf
  <2> QED BY <2>1 DEF WriteTask
<1>6. \A p \in pending : p.addr \in Addr
  BY DEF TypeOK
<1> QED BY <1>2, <1>3, <1>4, <1>5, <1>6

LEMMA WritePortStepKeeps ==
  ASSUME TypeOK, MemoryInv, WritePortStep
  PROVE  MemoryInv'
<1> DEFINE out == writePort.outbox
           k == Len(out) + 1
<1>1. UNCHANGED <<readPort, pending, store, answers, owner>>
  BY DEF WritePortStep, belowVars
<1>2. PICK c \in WriteContext : WritePortMoves(c)
  BY WritePortStepMoves
<1>3. c.addr \in Addr /\ c.way \in 0 .. Assoc /\ Assoc \in Nat \ {0}
  BY WriteContextFacts, CacheAssumption
<1>3a. c.way < Assoc => c.way \in Way
  BY <1>3 DEF Way
<1>4. /\ ReadQueue' = ReadQueue /\ WritesInFlight' = WritesInFlight
      /\ ReadsInFlight' = ReadsInFlight
  BY <1>1, <1>2, ReadsInFlightAre DEF WritePortMoves, ReadQueue
<1>5. out \in Seq(WriteTask) /\ table \in TableOf
  BY InFlightFacts, PortFields DEF WritePort, TypeOK, TableOf
<1>6. UniqueIds(ReadQueue, pending)'
  BY <1>1, <1>4 DEF MemoryInv
<1> DEFINE new == <<IndexOf(c.addr), c.way>>
           w == WriteReq(c.id, c.addr, c.val)
<1>7. w.addr = c.addr /\ w.val = c.val /\ k \in DOMAIN WritesInFlight /\ WritesInFlight[k] = w
  BY <1>2 DEF WritePortMoves, WriteReq
<1>8. \/ table' = table
      \/ c.way < Assoc /\ Matches(c) /\ table' = Rewritten(c)
  BY <1>2 DEF WritePortMoves
\* A write that hits: the line it rewrites is the one its address has.
<1>9. ASSUME c.way < Assoc, Matches(c), table' = Rewritten(c)
      PROVE  /\ new \in LinesIn(table, c.addr)
             /\ \A b \in Addr : b # c.addr =>
                  \A l \in LinesIn(table', b) : l \in LinesIn(table, b) /\ table'[l] = table[l]
             /\ \A l \in LinesIn(table', c.addr) :
                  l = new \/ (l \in LinesIn(table, c.addr) /\ table'[l] = table[l])
             /\ \A e \in table'[new] : e.val = c.val
  <2>1. new \in LinesIn(table, c.addr)
    BY <1>3, <1>3a, <1>9, MatchesIsLine DEF LinesOf, LinesIn
  <2>2. c.way \in Way
    BY <1>3a, <1>9
  <2>3. LinesBecome(table, c.addr, c.way, c.val, table')
    BY <1>3, <1>5, <1>9, <2>2, LinesAfter DEF Rewritten
  <2> QED BY <2>1, <2>3 DEF LinesBecome
<1> HIDE DEF out, k, new, w
<1>10. \A a \in Addr : LinesIn(table', a) \subseteq LinesIn(table, a)
  BY <1>8, <1>9
<1>11. ValuesBelong'
  <2>1. ValuesBelong
    BY DEF MemoryInv
  <2>2. c.val \in ValuesOf[c.addr]
    BY <1>7, <2>1 DEF ValuesBelong
  <2>3. ASSUME NEW a \in Addr, NEW l \in LinesIn(table', a), NEW e \in table'[l]
        PROVE  e.val \in ValuesOf[a]
    <3>1. CASE table' = table
      BY <2>1, <2>3, <3>1 DEF ValuesBelong
    <3>2. CASE c.way < Assoc /\ Matches(c) /\ table' = Rewritten(c)
      <4>1. CASE l \in LinesIn(table, a) /\ table'[l] = table[l]
        BY <2>1, <2>3, <4>1 DEF ValuesBelong
      <4>2. CASE a = c.addr /\ l = new
        BY <1>9, <2>2, <2>3, <3>2, <4>2
      <4> QED BY <1>9, <2>3, <3>2, <4>1, <4>2
    <3> QED BY <1>8, <3>1, <3>2
  <2> QED BY <1>1, <1>4, <2>1, <2>3 DEF ValuesBelong
<1>12. ASSUME owner = "disjoint"
       PROVE  Exact'
  <2>1. Exact
    BY <1>12 DEF MemoryInv
  <2>2. OneRequestPerAddress'
    BY <1>1, <1>4, <2>1 DEF Exact, OneRequestPerAddress
  <2>3. /\ DOMAIN Append(out, w) = DOMAIN out \cup {k} /\ k \notin DOMAIN out
        /\ \A j \in DOMAIN out : Append(out, w)[j] = out[j]
        /\ Append(out, w)[k] = w
    BY <1>5, AppendedAt DEF k
  <2>4. ASSUME NEW i \in DOMAIN out PROVE out[i].addr # c.addr
    <3>1. i \in DOMAIN WritesInFlight
          /\ WritesInFlight[i] = WriteReq(out[i].id, out[i].addr, out[i].val)
      BY InTheQueue DEF out
    <3>2. WritesInFlight[i].addr = out[i].addr
      BY <3>1 DEF WriteReq
    <3>3. i # k
      BY <2>3
    <3> QED BY <1>7, <2>1, <3>1, <3>2, <3>3 DEF Exact, OneRequestPerAddress, UniqueWrites
  <2>5. c.way = Assoc => LinesIn(table, c.addr) = {}
    <3>1. ASSUME c.way = Assoc, NEW l \in LinesIn(table, c.addr) PROVE FALSE
      <4>1. l[2] \in Way
        BY <3>1, LineForm
      <4>2. writePort.ctx = {c}
        BY <1>2, <1>3, <3>1 DEF WritePortMoves
      <4>3. l[2] >= c.way
        BY <2>1, <3>1, <4>2 DEF Exact, SearchesMissNothing
      <4> QED BY <1>3, <3>1, <4>1, <4>3 DEF Way
    <3> QED BY <3>1
  <2>6. LinesHoldTheLatest'
    <3>1. LinesHoldTheLatest
      BY <2>1 DEF Exact
    <3>2. SUFFICES ASSUME NEW a \in Addr, NEW l \in LinesIn(table', a)
          PROVE  /\ \A m \in LinesIn(table', a) : l = m
                 /\ \A e \in table'[l] :
                      /\ \A i \in DOMAIN writePort'.outbox :
                           writePort'.outbox[i].addr = a => e.val = writePort'.outbox[i].val
                      /\ (\A i \in DOMAIN writePort'.outbox : writePort'.outbox[i].addr # a)
                           => e.val = store[a]
      BY <1>1 DEF LinesHoldTheLatest
    <3>3. l \in LinesIn(table, a) /\ \A m \in LinesIn(table', a) : l = m
      BY <1>10, <3>1, <3>2 DEF LinesHoldTheLatest
    <3>4. ASSUME writePort'.outbox = Append(out, w), a # c.addr, table'[l] = table[l],
                 NEW e \in table'[l]
          PROVE  /\ \A i \in DOMAIN writePort'.outbox :
                      writePort'.outbox[i].addr = a => e.val = writePort'.outbox[i].val
                 /\ (\A i \in DOMAIN writePort'.outbox : writePort'.outbox[i].addr # a)
                      => e.val = store[a]
      <4>1. /\ \A i \in DOMAIN out : out[i].addr = a => e.val = out[i].val
            /\ (\A i \in DOMAIN out : out[i].addr # a) => e.val = store[a]
        BY <3>1, <3>3, <3>4 DEF LinesHoldTheLatest, out
      <4> QED BY <1>7, <2>3, <3>4, <4>1
    <3>5. ASSUME writePort'.outbox = Append(out, w), a = c.addr, \A e \in table'[l] : e.val = c.val,
                 NEW e \in table'[l]
          PROVE  /\ \A i \in DOMAIN writePort'.outbox :
                      writePort'.outbox[i].addr = a => e.val = writePort'.outbox[i].val
                 /\ (\A i \in DOMAIN writePort'.outbox : writePort'.outbox[i].addr # a)
                      => e.val = store[a]
      BY <1>7, <2>3, <2>4, <3>5
    <3>6. CASE c.way = Assoc /\ writePort'.outbox = Append(out, w) /\ table' = table
      <4>1. a # c.addr
        BY <2>5, <3>3, <3>6
      <4> QED BY <3>3, <3>4, <3>6, <4>1
    <3>7. CASE c.way < Assoc /\ Matches(c) /\ writePort'.outbox = Append(out, w)
                 /\ table' = Rewritten(c)
      <4>1. CASE a # c.addr
        BY <1>9, <3>3, <3>4, <3>7, <4>1
      <4>2. CASE a = c.addr
        <5>1. l = new
          BY <1>9, <3>1, <3>3, <3>7, <4>2 DEF LinesHoldTheLatest
        <5> QED BY <1>9, <3>3, <3>5, <3>7, <4>2, <5>1
      <4> QED BY <4>1, <4>2
    <3>8. CASE writePort'.outbox = out /\ table' = table
      BY <3>1, <3>3, <3>8 DEF LinesHoldTheLatest, out
    <3> QED BY <1>2, <3>6, <3>7, <3>8 DEF WritePortMoves, out, w
  <2>7. SearchesMissNothing'
    <3>1. SearchesMissNothing
      BY <2>1 DEF Exact
    <3>2. ASSUME NEW d \in writePort'.ctx, NEW l \in LinesIn(table', d.addr)
          PROVE  l[2] >= d.way
      <4> DEFINE e == [c EXCEPT !.way = @ + 1]
      <4>1. c.way < Assoc /\ ~Matches(c) /\ d = e /\ table' = table
        BY <1>2, <3>2 DEF WritePortMoves
      <4>2. e.addr = c.addr /\ e.way = c.way + 1
        BY DEF WriteContext
      <4> HIDE DEF e
      <4>3. l \in LinesIn(table, c.addr)
        BY <3>2, <4>1, <4>2
      <4>4. l = <<IndexOf(c.addr), l[2]>> /\ l[2] \in Way
        BY <4>3, LineForm
      <4>5. l[2] \in Nat /\ l[2] >= c.way
        <5>1. l[2] \in Nat
          BY <1>3, <4>4 DEF Way
        <5>2. CASE writePort.ctx = {c}
          BY <3>1, <4>3, <5>1, <5>2 DEF SearchesMissNothing
        <5>3. CASE c.way = 0
          BY <5>1, <5>3
        <5> QED BY <1>2, <5>1, <5>2, <5>3 DEF WritePortMoves
      <4>6. l[2] # c.way
        <5>1. <<IndexOf(c.addr), c.way>> \notin LinesIn(table, c.addr)
          BY <1>3, <1>3a, <4>1, MatchesIsLine DEF LinesOf, LinesIn
        <5> QED BY <4>3, <4>4, <5>1
      <4> QED BY <1>3, <4>1, <4>2, <4>5, <4>6
    <3>3. \A d \in readPort.ctx : \A l \in LinesIn(table', d.addr) : l[2] >= d.way
      BY <1>10, <3>1, AddressesInUse DEF SearchesMissNothing
    <3>4. \A i \in DOMAIN readPort.outbox :
            readPort.outbox[i].hit = {} => LinesIn(table', readPort.outbox[i].addr) = {}
      <4>1. ASSUME NEW i \in DOMAIN readPort.outbox, readPort.outbox[i].hit = {}
            PROVE  LinesIn(table', readPort.outbox[i].addr) = {}
        <5>1. LinesIn(table, readPort.outbox[i].addr) = {} /\ readPort.outbox[i].addr \in Addr
          BY <3>1, <4>1, AddressesInUse DEF SearchesMissNothing
        <5> QED BY <1>10, <5>1
      <4> QED BY <4>1
    <3>5. \A p \in pending : LinesIn(table', p.addr) = {}
      <4>1. ASSUME NEW p \in pending PROVE LinesIn(table', p.addr) = {}
        <5>1. LinesIn(table, p.addr) = {} /\ p.addr \in Addr
          BY <3>1, AddressesInUse DEF SearchesMissNothing
        <5> QED BY <1>10, <5>1
      <4> QED BY <4>1
    <3> QED BY <1>1, <3>2, <3>3, <3>4, <3>5 DEF SearchesMissNothing
  <2>8. ReadsAreCurrent'
    <3>1. Current' = Current
      BY <1>1 DEF Current
    <3> QED BY <1>1, <2>1, <3>1 DEF Exact, ReadsAreCurrent
  <2> QED BY <2>2, <2>6, <2>7, <2>8 DEF Exact
<1> QED BY <1>1, <1>6, <1>11, <1>12 DEF MemoryInv

-----------------------------------------------------------------------------
(* Results of the read port *)

LEMMA ReadPopped ==
  ASSUME TypeOK, readPort.outbox # <<>>, readPort' = Popped(readPort)
  PROVE  /\ readPort'.outbox = Tail(readPort.outbox) /\ readPort'.ctx = readPort.ctx
         /\ readPort.outbox \in Seq(ReadOutcome) /\ Head(readPort.outbox) \in ReadOutcome
         /\ ReadQueue # <<>> /\ ReadQueue' = Tail(ReadQueue)
         /\ Head(ReadQueue) = ReadReq(Head(readPort.outbox).id, Head(readPort.outbox).addr)
<1>1. readPort \in ReadPort
  BY InFlightFacts
<1>2. readPort.outbox \in Seq(ReadOutcome)
  BY <1>1, PortFields DEF ReadPort
<1>3. Head(readPort.outbox) \in ReadOutcome
  BY <1>2, TailFacts
<1>4. readPort'.outbox = Tail(readPort.outbox) /\ readPort'.ctx = readPort.ctx
  BY DEF Popped, Parts
<1>5. /\ ReadQueue # <<>>
      /\ Head(ReadQueue) = ReadReq(Head(readPort.outbox).id, Head(readPort.outbox).addr)
      /\ Reads(InPort(Popped(readPort))) = Tail(ReadQueue)
  BY <1>1, ReadsPopped DEF ReadQueue
<1>6. ReadQueue' = Tail(ReadQueue)
  BY <1>5 DEF ReadQueue
<1> QED BY <1>2, <1>3, <1>4, <1>5, <1>6

\* With the first result gone, the misses that are left are misses.
LEMMA MissesTailed ==
  ASSUME NEW out \in Seq(ReadOutcome), out # <<>>, NEW t,
         \A i \in DOMAIN out : out[i].hit = {} => LinesIn(t, out[i].addr) = {}
  PROVE  /\ \A i \in DOMAIN Tail(out) :
              Tail(out)[i].hit = {} => LinesIn(t, Tail(out)[i].addr) = {}
         /\ Head(out).hit = {} => LinesIn(t, Head(out).addr) = {}
<1>1. /\ 1 \in DOMAIN out /\ Head(out) = out[1]
      /\ \A i \in DOMAIN Tail(out) : i + 1 \in DOMAIN out /\ Tail(out)[i] = out[i + 1]
  BY TailedAt
<1> QED BY <1>1, ZenonT(30)

LEMMA ReadHitKeeps ==
  ASSUME TypeOK, MemoryInv, ReadHit
  PROVE  MemoryInv'
<1> DEFINE out == readPort.outbox
<1>1. UNCHANGED <<table, writePort, pending, store, answers, owner>>
  BY DEF ReadHit, belowVars
<1>2. /\ out # <<>> /\ readPort'.outbox = Tail(out) /\ readPort'.ctx = readPort.ctx
      /\ out \in Seq(ReadOutcome)
      /\ ReadQueue # <<>> /\ ReadQueue' = Tail(ReadQueue)
  BY ReadPopped DEF ReadHit
<1>3. /\ ReadQueue \in Seq(ReadTask) /\ UniqueIds(ReadQueue, pending)
      /\ WritesInFlight' = WritesInFlight
  BY <1>1, InFlightFacts DEF MemoryInv, WritesInFlight
<1>4. UniqueIds(ReadQueue', pending')
  BY <1>1, <1>2, <1>3, ReadLeaves
<1>5. ReadsInFlight' \subseteq ReadsInFlight
  <2>1. ReadsOf(Tail(ReadQueue), pending) = ReadsOf(ReadQueue, pending) \ {Head(ReadQueue)}
    BY <1>2, <1>3, ReadLeaves
  <2> QED BY <1>1, <1>2, <2>1, ReadsInFlightAre
<1> HIDE DEF out
<1>6. ValuesBelong'
  <2>1. Hits(Tail(out), ValuesOf)
    BY <1>2, HitsTailed DEF MemoryInv, ValuesBelong, out
  <2> QED BY <1>1, <1>2, <1>3, <2>1 DEF MemoryInv, ValuesBelong
<1>7. ASSUME owner = "disjoint"
      PROVE  Exact'
  <2>1. Exact
    BY <1>7 DEF MemoryInv
  <2>2. OneRequestPerAddress'
    <3>1. UniqueAddrs(ReadQueue', pending')
      BY <1>1, <1>2, <1>3, <2>1, ReadLeaves DEF Exact, OneRequestPerAddress
    <3> QED BY <1>3, <1>5, <2>1, <3>1 DEF Exact, OneRequestPerAddress, Apart
  <2>3. LinesHoldTheLatest'
    BY <1>1, <2>1 DEF Exact, LinesHoldTheLatest
  <2>4. SearchesMissNothing'
    <3>1. \A i \in DOMAIN Tail(out) :
            Tail(out)[i].hit = {} => LinesIn(table, Tail(out)[i].addr) = {}
      BY <1>2, <2>1, MissesTailed DEF Exact, SearchesMissNothing, out
    <3> QED BY <1>1, <1>2, <2>1, <3>1 DEF Exact, SearchesMissNothing
  <2>5. ReadsAreCurrent'
    <3>1. Current' = Current
      BY <1>1 DEF Current
    <3>2. Hits(Tail(out), Current)
      BY <1>2, <2>1, HitsTailed DEF Exact, ReadsAreCurrent, out
    <3> QED BY <1>1, <1>2, <2>1, <3>1, <3>2 DEF Exact, ReadsAreCurrent
  <2> QED BY <2>2, <2>3, <2>4, <2>5 DEF Exact
<1> QED BY <1>1, <1>4, <1>6, <1>7 DEF MemoryInv

Entry(r) == [below |-> belowSeq, id |-> r.id, addr |-> r.addr]

\* A miss replaces no entry of the pending buffer.
LEMMA MissPended ==
  ASSUME IInv, ReadMiss
  PROVE  pending' = pending \cup {Entry(Head(readPort.outbox))}
<1>1. readPort.outbox # <<>>
      /\ pending' = Inserted(belowSeq, Head(readPort.outbox).id, Head(readPort.outbox).addr)
  BY DEF ReadMiss
<1>2. \A p \in pending : p.below # belowSeq
  BY <1>1, FreshBelow, BelowFacts DEF Matched
<1> QED BY <1>1, <1>2 DEF Inserted, Entry

LEMMA ReadMissKeeps ==
  ASSUME IInv, MemoryInv, ReadMiss
  PROVE  MemoryInv'
<1> DEFINE out == readPort.outbox
           r == Head(out)
           n == Entry(r)
           a == ReadResp(belowSeq, store[r.addr])
<1>1. UNCHANGED <<table, writePort, store, owner>> /\ r.hit = {} /\ TypeOK
  BY DEF ReadMiss, IInv
<1>2. /\ out # <<>> /\ readPort'.outbox = Tail(out) /\ readPort'.ctx = readPort.ctx
      /\ out \in Seq(ReadOutcome) /\ r \in ReadOutcome
      /\ ReadQueue # <<>> /\ ReadQueue' = Tail(ReadQueue)
      /\ Head(ReadQueue) = ReadReq(r.id, r.addr)
  BY <1>1, ReadPopped DEF ReadMiss
<1>3. /\ ReadQueue \in Seq(ReadTask) /\ UniqueIds(ReadQueue, pending)
      /\ WritesInFlight' = WritesInFlight
  BY <1>1, InFlightFacts DEF MemoryInv, WritesInFlight
<1>4. pending' = pending \cup {n}
  BY MissPended
<1>5. n.below = belowSeq /\ n.id = r.id /\ n.addr = r.addr
      /\ n.id = Head(ReadQueue).id /\ n.addr = Head(ReadQueue).addr
  BY <1>2 DEF Entry, ReadReq
<1>6. answers' = Append(answers, a) /\ a.id = belowSeq /\ a.val = store[r.addr]
  BY DEF ReadMiss, BelowSends, ReadResp
<1>7. r.addr \in Addr
  BY <1>2 DEF ReadOutcome
<1>8. belowSeq \notin Awaited(answers) /\ answers \in Seq(Reply) /\ Matched(pending, answers)
  BY <1>2, FreshBelow, BelowFacts
<1> HIDE DEF out, r, n, a
<1>9. UniqueIds(ReadQueue', pending')
  BY <1>2, <1>3, <1>4, <1>5, ReadGoesBelow
<1>10. ReadsInFlight' = ReadsInFlight
  <2>1. ReadsOf(Tail(ReadQueue), pending \cup {n}) = ReadsOf(ReadQueue, pending)
    BY <1>2, <1>3, <1>5, ReadGoesBelow
  <2> QED BY <1>2, <1>4, <2>1, ReadsInFlightAre
<1>11. ValuesBelong'
  <2>1. ValuesBelong
    BY DEF MemoryInv
  <2>2. Hits(Tail(out), ValuesOf)
    BY <1>2, <2>1, HitsTailed DEF ValuesBelong, out
  <2>3. a.val \in ValuesOf[n.addr]
    BY <1>5, <1>6, <1>7, <2>1 DEF ValuesBelong
  <2>4. Answers(Append(answers, a), pending \cup {n}, ValuesOf)
    BY <1>5, <1>6, <1>8, <2>1, <2>3, AnswersPended DEF ValuesBelong
  <2> QED BY <1>1, <1>2, <1>3, <1>4, <1>6, <2>1, <2>2, <2>4 DEF ValuesBelong
<1>12. ASSUME owner = "disjoint"
       PROVE  Exact'
  <2>1. Exact
    BY <1>12 DEF MemoryInv
  <2>2. OneRequestPerAddress'
    <3>1. UniqueAddrs(ReadQueue', pending')
      BY <1>2, <1>3, <1>4, <1>5, <2>1, ReadGoesBelow DEF Exact, OneRequestPerAddress
    <3> QED BY <1>3, <1>10, <2>1, <3>1 DEF Exact, OneRequestPerAddress
  <2>3. LinesHoldTheLatest'
    BY <1>1, <2>1 DEF Exact, LinesHoldTheLatest
  <2>4. SearchesMissNothing'
    <3>1. (\A i \in DOMAIN Tail(out) :
             Tail(out)[i].hit = {} => LinesIn(table, Tail(out)[i].addr) = {})
          /\ LinesIn(table, r.addr) = {}
      BY <1>1, <1>2, <2>1, MissesTailed DEF Exact, SearchesMissNothing, out, r
    <3>2. \A p \in pending' : LinesIn(table, p.addr) = {}
      BY <1>4, <1>5, <2>1, <3>1 DEF Exact, SearchesMissNothing
    <3> QED BY <1>1, <1>2, <2>1, <3>1, <3>2 DEF Exact, SearchesMissNothing
  <2>5. ReadsAreCurrent'
    <3>1. Current' = Current
      BY <1>1 DEF Current
    <3>2. Hits(Tail(out), Current)
      BY <1>2, <2>1, HitsTailed DEF Exact, ReadsAreCurrent, out
    <3>3. a.val \in Current[n.addr]
      BY <1>5, <1>6, <1>7 DEF Current
    <3>4. Answers(Append(answers, a), pending \cup {n}, Current)
      BY <1>5, <1>6, <1>8, <2>1, <3>3, AnswersPended DEF Exact, ReadsAreCurrent
    <3> QED BY <1>2, <1>4, <1>6, <3>1, <3>2, <3>4 DEF ReadsAreCurrent
  <2> QED BY <2>2, <2>3, <2>4, <2>5 DEF Exact
<1> QED BY <1>1, <1>9, <1>11, <1>12 DEF MemoryInv

-----------------------------------------------------------------------------
(* Answers of the memory below *)

LEMMA AnswerIgnoredKeeps ==
  ASSUME IInv, MemoryInv, AnswerIgnored
  PROVE  MemoryInv'
<1>1. /\ UNCHANGED <<table, readPort, writePort, pending, store, owner>>
      /\ answers # <<>> /\ answers' = Tail(answers)
  BY DEF AnswerIgnored, cacheVars
<1>2. answers \in Seq(Reply)
  BY BelowFacts
<1>3. /\ ReadQueue' = ReadQueue /\ WritesInFlight' = WritesInFlight
  BY <1>1 DEF ReadQueue, WritesInFlight
<1>4. ReadsInFlight' = ReadsInFlight
  BY <1>1, <1>3, ReadsInFlightAre
<1>5. \A S : Answers(answers, pending, S) => Answers(Tail(answers), pending, S)
  BY <1>1, <1>2, AnswersTailed
<1>6. UniqueIds(ReadQueue', pending')
  BY <1>1, <1>3 DEF MemoryInv
<1>7. ValuesBelong'
  BY <1>1, <1>3, <1>5 DEF MemoryInv, ValuesBelong
<1>8. ASSUME owner = "disjoint"
      PROVE  Exact'
  <2>1. Exact
    BY <1>8 DEF MemoryInv
  <2>2. OneRequestPerAddress'
    BY <1>1, <1>3, <1>4, <2>1 DEF Exact, OneRequestPerAddress
  <2>3. LinesHoldTheLatest'
    BY <1>1, <2>1 DEF Exact, LinesHoldTheLatest
  <2>4. SearchesMissNothing'
    BY <1>1, <2>1 DEF Exact, SearchesMissNothing
  <2>5. Current' = Current
    BY <1>1 DEF Current
  <2>6. ReadsAreCurrent'
    BY <1>1, <1>5, <2>1, <2>5 DEF Exact, ReadsAreCurrent
  <2> QED BY <2>2, <2>3, <2>4, <2>6 DEF Exact
<1> QED BY <1>1, <1>6, <1>7, <1>8 DEF MemoryInv

\* What Fill does with the pending read p that the answer h belongs to.
Fills(p) ==
  LET h == Head(answers)
      w == EvictionId(policy, IndexOf(p.addr))
  IN /\ p.below = h.id /\ h.kind = "read" /\ w \in Way
     /\ LinesBecome(table, p.addr, w, h.val, table')
     /\ outbox' = Append(outbox, ReadResp(p.id, h.val))
     /\ pending' = pending \ {p}

LEMMA FillEffect ==
  ASSUME TypeOK, Fill
  PROVE  /\ UNCHANGED <<readPort, writePort, store, owner>>
         /\ answers # <<>> /\ answers' = Tail(answers)
         /\ \E p \in pending : Fills(p)
<1> DEFINE h == Head(answers)
<1>1. PICK p \in pending :
        /\ p.below = h.id
        /\ table' = Filled(p.addr, EvictionId(policy, IndexOf(p.addr)), h.val)
        /\ outbox' = Append(outbox, ReadResp(p.id, h.val))
        /\ pending' = Unpended(p)
  BY DEF Fill
<1> DEFINE w == EvictionId(policy, IndexOf(p.addr))
<1>2. h.kind = "read" /\ p.addr \in Addr /\ policy \in Policy /\ table \in TableOf
  BY DEF Fill, TypeOK, TableOf
<1>3. w \in Way
  BY <1>2, AddressFacts, PolicyAssumption
<1> HIDE DEF h, w
<1>4. LinesBecome(table, p.addr, w, h.val, table')
  <2>1. table' = [table EXCEPT ![<<IndexOf(p.addr), w>>] = {[tag |-> TagOf(p.addr), val |-> h.val]}]
    BY <1>1 DEF Filled, w
  <2> QED BY <1>2, <1>3, <2>1, LinesAfter
<1>5. Fills(p)
  BY <1>1, <1>2, <1>3, <1>4 DEF Fills, h, w, Unpended
<1>6. /\ UNCHANGED <<readPort, writePort, store, owner>>
      /\ answers # <<>> /\ answers' = Tail(answers)
  BY DEF Fill
<1> QED BY <1>5, <1>6

LEMMA FillKeeps ==
  ASSUME IInv, MemoryInv, Fill
  PROVE  MemoryInv'
<1> DEFINE h == Head(answers)
<1>1. TypeOK /\ answers \in Seq(Reply)
  BY BelowFacts DEF IInv
<1>2. /\ UNCHANGED <<readPort, writePort, store, owner>>
      /\ answers # <<>> /\ answers' = Tail(answers)
  BY <1>1, FillEffect
<1>3. PICK p \in pending : Fills(p)
  BY <1>1, FillEffect
<1> DEFINE w == EvictionId(policy, IndexOf(p.addr))
           new == <<IndexOf(p.addr), w>>
<1>4. /\ p.below = h.id /\ h.kind = "read" /\ p.addr \in Addr
      /\ pending' = pending \ {p} /\ pending' \subseteq pending
  BY <1>1, <1>3, AddressesInUse DEF Fills
<1>5. /\ \A b \in Addr : b # p.addr =>
           \A l \in LinesIn(table', b) : l \in LinesIn(table, b) /\ table'[l] = table[l]
      /\ \A l \in LinesIn(table', p.addr) :
           l = new \/ (l \in LinesIn(table, p.addr) /\ table'[l] = table[l])
      /\ \A e \in table'[new] : e.val = h.val
  BY <1>3 DEF Fills, LinesBecome
<1> HIDE DEF h, w, new
<1>6. ReadQueue' = ReadQueue /\ WritesInFlight' = WritesInFlight
  BY <1>2 DEF ReadQueue, WritesInFlight
<1>7. UniqueIds(ReadQueue, pending)
  BY DEF MemoryInv
<1>8. UniqueIds(ReadQueue', pending')
  BY <1>4, <1>6, <1>7, PendingLeaves
<1>9. ReadsInFlight' \subseteq ReadsInFlight
  <2>1. ReadsOf(ReadQueue, pending \ {p})
          = ReadsOf(ReadQueue, pending) \ {ReadReq(p.id, p.addr)}
    BY <1>7, PendingLeaves
  <2> QED BY <1>4, <1>6, <2>1, ReadsInFlightAre
<1>10. ASSUME NEW S, Answers(answers, pending, S)
       PROVE  Answers(answers', pending', S) /\ h.val \in S[p.addr]
  <2>1. Answers(Tail(answers), pending', S)
    BY <1>1, <1>2, <1>4, <1>10, AnswersTailed
  <2>2. \A q \in pending : Head(answers).kind = "read" /\ Head(answers).id = q.below
          => Head(answers).val \in S[q.addr]
    BY <1>1, <1>2, <1>4, <1>10, AnswersTailed
  <2> QED BY <1>2, <1>4, <2>1, <2>2 DEF h
<1>11. ValuesBelong'
  <2>1. ValuesBelong
    BY DEF MemoryInv
  <2>2. Answers(answers', pending', ValuesOf) /\ h.val \in ValuesOf[p.addr]
    BY <1>10, <2>1 DEF ValuesBelong
  <2>3. ASSUME NEW a \in Addr, NEW l \in LinesIn(table', a), NEW e \in table'[l]
        PROVE  e.val \in ValuesOf[a]
    <3>1. CASE l \in LinesIn(table, a) /\ table'[l] = table[l]
      BY <2>1, <2>3, <3>1 DEF ValuesBelong
    <3>2. CASE a = p.addr /\ l = new
      BY <1>5, <2>2, <2>3, <3>2
    <3> QED BY <1>5, <2>3, <3>1, <3>2
  <2> QED BY <1>2, <1>6, <2>1, <2>2, <2>3 DEF ValuesBelong
<1>12. ASSUME owner = "disjoint"
       PROVE  Exact'
  <2>1. Exact
    BY <1>12 DEF MemoryInv
  <2>2. OneRequestPerAddress'
    <3>1. UniqueAddrs(ReadQueue', pending')
      BY <1>4, <1>6, <1>7, <2>1, PendingLeaves DEF Exact, OneRequestPerAddress
    <3> QED BY <1>6, <1>9, <2>1, <3>1 DEF Exact, OneRequestPerAddress, Apart
\* No other request is to the address that is filled.
  <2>3. /\ \A i \in DOMAIN ReadQueue : ReadQueue[i].addr # p.addr
        /\ \A i \in DOMAIN WritesInFlight : WritesInFlight[i].addr # p.addr
        /\ \A q \in pending' : q.addr # p.addr
    <3>1. ReadReq(p.id, p.addr) \in ReadsInFlight /\ ReadReq(p.id, p.addr).addr = p.addr
      BY ReadsInFlightAre, ReadsOfMember DEF ReadReq
    <3>2. \A i \in DOMAIN WritesInFlight : WritesInFlight[i].addr # p.addr
      BY <2>1, <3>1 DEF Exact, OneRequestPerAddress, Apart
    <3>3. \A i \in DOMAIN ReadQueue : ReadQueue[i].addr # p.addr
      BY <2>1 DEF Exact, OneRequestPerAddress, UniqueAddrs
    <3>4. \A q \in pending' : q.addr # p.addr
      BY <1>4, <2>1 DEF Exact, OneRequestPerAddress, UniqueAddrs
    <3> QED BY <3>2, <3>3, <3>4
  <2>4. /\ \A c \in readPort.ctx : c.addr \in Addr \ {p.addr}
        /\ \A i \in DOMAIN readPort.outbox : readPort.outbox[i].addr \in Addr \ {p.addr}
        /\ \A c \in writePort.ctx : c.addr \in Addr \ {p.addr}
        /\ \A i \in DOMAIN writePort.outbox : writePort.outbox[i].addr \in Addr \ {p.addr}
        /\ \A q \in pending' : q.addr \in Addr \ {p.addr}
    <3>1. \A i \in DOMAIN readPort.outbox : readPort.outbox[i].addr # p.addr
      <4>1. ASSUME NEW i \in DOMAIN readPort.outbox PROVE readPort.outbox[i].addr # p.addr
        <5>1. i \in DOMAIN ReadQueue
              /\ ReadQueue[i] = ReadReq(readPort.outbox[i].id, readPort.outbox[i].addr)
          BY <1>1, InTheQueue
        <5>2. ReadQueue[i].addr = readPort.outbox[i].addr
          BY <5>1 DEF ReadReq
        <5> QED BY <2>3, <5>1, <5>2
      <4> QED BY <4>1
    <3>2. \A i \in DOMAIN writePort.outbox : writePort.outbox[i].addr # p.addr
      <4>1. ASSUME NEW i \in DOMAIN writePort.outbox PROVE writePort.outbox[i].addr # p.addr
        <5>1. /\ i \in DOMAIN WritesInFlight
              /\ WritesInFlight[i] = WriteReq(writePort.outbox[i].id, writePort.outbox[i].addr,
                                              writePort.outbox[i].val)
          BY <1>1, InTheQueue
        <5>2. WritesInFlight[i].addr = writePort.outbox[i].addr
          BY <5>1 DEF WriteReq
        <5> QED BY <2>3, <5>1, <5>2
      <4> QED BY <4>1
    <3>3. \A c \in readPort.ctx : c.addr # p.addr
      BY <1>1, <2>3, InTheQueue
    <3>4. \A c \in writePort.ctx : c.addr # p.addr
      BY <1>1, <2>3, InTheQueue
    <3> QED BY <1>1, <1>4, <2>3, <3>1, <3>2, <3>3, <3>4, AddressesInUse
  <2>5. \A a \in Addr \ {p.addr} : LinesIn(table', a) \subseteq LinesIn(table, a)
    BY <1>5
  <2>6. ReadsAreCurrent' /\ h.val = store[p.addr]
    <3>1. Current' = Current
      BY <1>2 DEF Current
    <3>2. Answers(answers', pending', Current) /\ h.val \in Current[p.addr]
      BY <1>10, <2>1 DEF Exact, ReadsAreCurrent
    <3>3. h.val = store[p.addr]
      BY <1>4, <3>2 DEF Current
    <3> QED BY <1>2, <2>1, <3>1, <3>2, <3>3 DEF Exact, ReadsAreCurrent
  <2>7. LinesHoldTheLatest'
    <3>1. LinesHoldTheLatest /\ LinesIn(table, p.addr) = {}
      BY <2>1 DEF Exact, SearchesMissNothing
    <3>2. SUFFICES ASSUME NEW a \in Addr, NEW l \in LinesIn(table', a)
          PROVE  /\ \A m \in LinesIn(table', a) : l = m
                 /\ \A e \in table'[l] :
                      /\ \A i \in DOMAIN writePort.outbox :
                           writePort.outbox[i].addr = a => e.val = writePort.outbox[i].val
                      /\ (\A i \in DOMAIN writePort.outbox : writePort.outbox[i].addr # a)
                           => e.val = store[a]
      BY <1>2 DEF LinesHoldTheLatest
    <3>3. CASE a = p.addr
      <4>1. l = new /\ \A m \in LinesIn(table', a) : m = new
        BY <1>5, <3>1, <3>2, <3>3
      <4>2. \A e \in table'[l] : e.val = store[a]
        BY <1>5, <2>6, <3>3, <4>1
      <4> QED BY <2>4, <3>3, <4>1, <4>2
    <3>4. CASE a # p.addr
      <4>1. /\ l \in LinesIn(table, a) /\ table'[l] = table[l]
            /\ \A m \in LinesIn(table', a) : m \in LinesIn(table, a)
        BY <1>5, <3>2, <3>4
      <4> QED BY <3>1, <4>1 DEF LinesHoldTheLatest
    <3> QED BY <3>3, <3>4
  <2>8. SearchesMissNothing'
    <3>1. SearchesMissNothing
      BY <2>1 DEF Exact
    <3>2. /\ \A c \in readPort.ctx : \A l \in LinesIn(table', c.addr) : l[2] >= c.way
          /\ \A c \in writePort.ctx : \A l \in LinesIn(table', c.addr) : l[2] >= c.way
      BY <2>4, <2>5, <3>1 DEF SearchesMissNothing
    <3>3. ASSUME NEW i \in DOMAIN readPort.outbox, readPort.outbox[i].hit = {}
          PROVE  LinesIn(table', readPort.outbox[i].addr) = {}
      <4>1. LinesIn(table, readPort.outbox[i].addr) = {}
        BY <3>1, <3>3 DEF SearchesMissNothing
      <4> QED BY <2>4, <2>5, <4>1
    <3>4. ASSUME NEW q \in pending'
          PROVE  LinesIn(table', q.addr) = {}
      <4>1. LinesIn(table, q.addr) = {}
        BY <1>4, <3>1 DEF SearchesMissNothing
      <4> QED BY <2>4, <2>5, <4>1
    <3> QED BY <1>2, <3>2, <3>3, <3>4 DEF SearchesMissNothing
  <2> QED BY <2>2, <2>6, <2>7, <2>8 DEF Exact
<1> QED BY <1>2, <1>8, <1>11, <1>12 DEF MemoryInv

-----------------------------------------------------------------------------
(* Writes to the memory below *)

LEMMA WriteThroughEffect ==
  ASSUME TypeOK, WriteThrough
  PROVE  LET w == Head(writePort.outbox)
         IN /\ UNCHANGED <<table, readPort, pending, owner, ReadQueue, ReadsInFlight>>
            /\ writePort'.outbox = Tail(writePort.outbox) /\ writePort'.ctx = writePort.ctx
            /\ writePort.outbox # <<>> /\ writePort.outbox \in Seq(WriteTask) /\ w \in WriteTask
            /\ WritesInFlight # <<>> /\ WritesInFlight' = Tail(WritesInFlight)
            /\ Head(WritesInFlight) = WriteReq(w.id, w.addr, w.val)
            /\ Head(WritesInFlight).id = w.id
            /\ Head(WritesInFlight).addr = w.addr /\ Head(WritesInFlight).val = w.val
            /\ store' = [store EXCEPT ![w.addr] = w.val]
            /\ answers' \in {answers, Append(answers, WriteResp(belowSeq))}
            /\ outbox' = Append(outbox, WriteResp(w.id))
<1> DEFINE w == Head(writePort.outbox)
<1>1. writePort \in WritePort /\ writePort.outbox # <<>> /\ writePort' = Popped(writePort)
  BY InFlightFacts DEF WriteThrough
<1>2. writePort.outbox \in Seq(WriteTask)
  BY <1>1, PortFields DEF WritePort
<1>3. w \in WriteTask
  BY <1>1, <1>2, TailFacts
<1>4. /\ Writes(InPort(writePort)) # <<>>
      /\ Head(Writes(InPort(writePort))) = WriteReq(w.id, w.addr, w.val)
      /\ Writes(InPort(Popped(writePort))) = Tail(Writes(InPort(writePort)))
  BY <1>1, WritesPopped
<1>5. WritesInFlight = Writes(InPort(writePort)) /\ WritesInFlight' = Writes(InPort(writePort'))
  BY DEF WritesInFlight, Writes
<1>6. /\ WritesInFlight # <<>> /\ WritesInFlight' = Tail(WritesInFlight)
      /\ Head(WritesInFlight) = WriteReq(w.id, w.addr, w.val)
  BY <1>1, <1>4, <1>5
<1>7. /\ Head(WritesInFlight).id = w.id
      /\ Head(WritesInFlight).addr = w.addr /\ Head(WritesInFlight).val = w.val
  BY <1>6 DEF WriteReq
<1>8. writePort'.outbox = Tail(writePort.outbox) /\ writePort'.ctx = writePort.ctx
  BY <1>1 DEF Popped, Parts
<1>9. UNCHANGED <<table, readPort, pending, owner, ReadQueue, ReadsInFlight>>
  BY DEF WriteThrough, ReadQueue, ReadsInFlight
<1>10. /\ store' = [store EXCEPT ![w.addr] = w.val]
       /\ answers' \in {answers, Append(answers, WriteResp(belowSeq))}
       /\ outbox' = Append(outbox, WriteResp(w.id))
  BY DEF WriteThrough, BelowWrites, BelowSends
<1> QED BY <1>1, <1>2, <1>3, <1>6, <1>7, <1>8, <1>9, <1>10

LEMMA WriteThroughKeeps ==
  ASSUME TypeOK, MemoryInv, WriteThrough
  PROVE  MemoryInv'
<1> DEFINE out == writePort.outbox
           w == Head(out)
<1>1. /\ UNCHANGED <<table, readPort, pending, owner>>
      /\ ReadQueue' = ReadQueue /\ ReadsInFlight' = ReadsInFlight
      /\ writePort'.outbox = Tail(out) /\ writePort'.ctx = writePort.ctx
      /\ out # <<>> /\ out \in Seq(WriteTask)
      /\ WritesInFlight # <<>> /\ WritesInFlight' = Tail(WritesInFlight)
      /\ Head(WritesInFlight).addr = w.addr /\ Head(WritesInFlight).val = w.val
  BY WriteThroughEffect
<1>2. w.addr \in Addr /\ store \in [Addr -> Val] /\ store' = [store EXCEPT ![w.addr] = w.val]
  <2>1. w \in WriteTask /\ store' = [store EXCEPT ![w.addr] = w.val]
    BY WriteThroughEffect
  <2> QED BY <2>1 DEF WriteTask, TypeOK
<1>3. answers \in Seq(Reply) /\ answers' \in {answers, Append(answers, WriteResp(belowSeq))}
      /\ WritesInFlight \in Seq(WriteTask)
  BY WriteThroughEffect, InFlightFacts DEF TypeOK
<1>4. /\ 1 \in DOMAIN out /\ w = out[1]
      /\ \A i \in DOMAIN Tail(out) : i + 1 \in DOMAIN out /\ Tail(out)[i] = out[i + 1]
      /\ \A i \in DOMAIN out : i # 1 => \E j \in DOMAIN Tail(out) : i = j + 1 /\ Tail(out)[j] = out[i]
  BY <1>1, TailedAt
<1> HIDE DEF out, w
<1>5. store'[w.addr] = w.val /\ \A a \in Addr : a # w.addr => store'[a] = store[a]
  BY <1>2
<1>6. UniqueIds(ReadQueue', pending')
  BY <1>1 DEF MemoryInv
<1>7. ASSUME NEW S, Answers(answers, pending, S)
      PROVE  Answers(answers', pending', S)
  <2>1. WriteResp(belowSeq).kind = "write"
    BY DEF WriteResp
  <2>2. Answers(Append(answers, WriteResp(belowSeq)), pending, S)
    BY <1>3, <1>7, <2>1, AnswersAcknowledged
  <2>3. answers' = answers \/ answers' = Append(answers, WriteResp(belowSeq))
    BY <1>3
  <2>4. pending' = pending
    BY <1>1
  <2> QED BY <1>7, <2>2, <2>3, <2>4, Zenon
<1>8. ValuesBelong'
  <2>1. ValuesBelong
    BY DEF MemoryInv
  <2>2. /\ w.val \in ValuesOf[w.addr]
        /\ \A i \in DOMAIN WritesInFlight' :
             WritesInFlight'[i].val \in ValuesOf[WritesInFlight'[i].addr]
    BY <1>1, <1>3, <2>1, WriteLeaves DEF ValuesBelong
  <2>3. \A a \in Addr : store'[a] \in ValuesOf[a]
    BY <1>5, <2>1, <2>2 DEF ValuesBelong
  <2>4. Answers(answers', pending', ValuesOf)
    BY <1>7, <2>1 DEF ValuesBelong
  <2> QED BY <1>1, <2>1, <2>2, <2>3, <2>4 DEF ValuesBelong
<1>9. ASSUME owner = "disjoint"
      PROVE  Exact'
  <2>1. Exact
    BY <1>9 DEF MemoryInv
  <2>2. OneRequestPerAddress'
    <3>1. UniqueWrites(WritesInFlight) /\ Apart(ReadsInFlight, WritesInFlight)
      BY <2>1 DEF Exact, OneRequestPerAddress
    <3>2. UniqueWrites(WritesInFlight') /\ Apart(ReadsInFlight', WritesInFlight')
      BY <1>1, <1>3, <3>1, WriteLeaves
    <3> QED BY <1>1, <2>1, <3>2 DEF Exact, OneRequestPerAddress
\* No read is of the address that is written.
  <2>3. /\ \A i \in DOMAIN readPort.outbox : readPort.outbox[i].addr \in Addr \ {w.addr}
        /\ \A p \in pending : p.addr \in Addr \ {w.addr}
    <3>1. Apart(ReadsInFlight, WritesInFlight)
      BY <2>1 DEF Exact, OneRequestPerAddress
    <3>2. \A r \in ReadsInFlight : r.addr # w.addr
      BY <1>1, <1>3, <3>1, WriteLeaves
    <3>3. ASSUME NEW i \in DOMAIN readPort.outbox PROVE readPort.outbox[i].addr # w.addr
      <4>1. /\ i \in DOMAIN ReadQueue
            /\ ReadQueue[i] = ReadReq(readPort.outbox[i].id, readPort.outbox[i].addr)
        BY InTheQueue
      <4>2. ReadQueue[i] \in ReadsInFlight
        BY <4>1, ReadsInFlightAre, ReadsOfMember
      <4>3. ReadQueue[i].addr = readPort.outbox[i].addr
        BY <4>1 DEF ReadReq
      <4> QED BY <3>2, <4>2, <4>3
    <3>4. ASSUME NEW p \in pending PROVE p.addr # w.addr
      <4>1. ReadReq(p.id, p.addr) \in ReadsInFlight
        BY ReadsInFlightAre, ReadsOfMember
      <4>2. ReadReq(p.id, p.addr).addr = p.addr
        BY DEF ReadReq
      <4> QED BY <3>2, <4>1, <4>2
    <3> QED BY <3>3, <3>4, AddressesInUse
  <2>4. LinesHoldTheLatest'
    <3>1. LinesHoldTheLatest
      BY <2>1 DEF Exact
    <3>2. SUFFICES ASSUME NEW a \in Addr, NEW l \in LinesIn(table, a)
          PROVE  /\ \A m \in LinesIn(table, a) : l = m
                 /\ \A e \in table[l] :
                      /\ \A i \in DOMAIN Tail(out) :
                           Tail(out)[i].addr = a => e.val = Tail(out)[i].val
                      /\ (\A i \in DOMAIN Tail(out) : Tail(out)[i].addr # a) => e.val = store'[a]
      BY <1>1 DEF LinesHoldTheLatest
    <3>3. ASSUME NEW e \in table[l]
          PROVE  /\ \A i \in DOMAIN out : out[i].addr = a => e.val = out[i].val
                 /\ (\A i \in DOMAIN out : out[i].addr # a) => e.val = store[a]
      BY <3>1, <3>2, <3>3 DEF LinesHoldTheLatest, out
    <3>4. ASSUME NEW e \in table[l], \A i \in DOMAIN Tail(out) : Tail(out)[i].addr # a
          PROVE  e.val = store'[a]
      <4>1. CASE a = w.addr
        BY <1>4, <1>5, <3>3, <4>1
      <4>2. CASE a # w.addr
        <5>1. \A i \in DOMAIN out : out[i].addr # a
          BY <1>4, <3>4, <4>2
        <5> QED BY <1>5, <3>3, <4>2, <5>1
      <4> QED BY <4>1, <4>2
    <3>5. ASSUME NEW e \in table[l], NEW i \in DOMAIN Tail(out), Tail(out)[i].addr = a
          PROVE  e.val = Tail(out)[i].val
      BY <1>4, <3>3, <3>5
    <3>6. \A m \in LinesIn(table, a) : l = m
      BY <3>1, <3>2 DEF LinesHoldTheLatest
    <3> QED BY <3>4, <3>5, <3>6
  <2>5. SearchesMissNothing'
    BY <1>1, <2>1 DEF Exact, SearchesMissNothing
  <2>6. \A a \in Addr : a # w.addr => Current'[a] = Current[a]
    BY <1>5 DEF Current
  <2>7. ReadsAreCurrent'
    <3>1. Hits(readPort.outbox, Current) /\ Answers(answers', pending', Current)
      BY <1>7, <2>1 DEF Exact, ReadsAreCurrent
    <3>2. Hits(readPort.outbox, Current')
      BY <2>3, <2>6, <3>1 DEF Hits
    <3>3. Answers(answers', pending', Current')
      BY <1>1, <2>3, <2>6, <3>1 DEF Answers
    <3> QED BY <1>1, <3>2, <3>3 DEF ReadsAreCurrent
  <2> QED BY <2>2, <2>4, <2>5, <2>7 DEF Exact
<1> QED BY <1>1, <1>6, <1>8, <1>9 DEF MemoryInv

-----------------------------------------------------------------------------
(* The invariant holds *)

LEMMA MemoryInitHolds ==
  ASSUME Init
  PROVE  MemoryInv
<1>1. /\ readPort.outbox = <<>> /\ readPort.ctx = {} /\ writePort.outbox = <<>> /\ writePort.ctx = {}
      /\ InPort(readPort) = <<>> /\ InPort(writePort) = <<>>
  BY DEF Init, EmptyPort, Parts, InPort
<1>2. /\ pending = {} /\ answers = <<>>
      /\ \A a \in Addr : store[a] \in ValuesOf[a]
      /\ \A l \in Index \X Way : table[l] = {}
  BY DEF Init
<1>3. ReadQueue = <<>> /\ WritesInFlight = <<>>
  BY <1>1 DEF ReadQueue, Reads, WritesInFlight
<1>4. ReadsOf(ReadQueue, pending) = {} /\ ReadsInFlight = {}
  BY <1>2, <1>3, ReadsInFlightAre DEF ReadsOf
<1>5. \A a \in Addr : LinesIn(table, a) = {}
  BY <1>2 DEF LinesIn
<1>6. \A S : Hits(readPort.outbox, S) /\ Answers(answers, pending, S)
  BY <1>1, <1>2 DEF Hits, Answers
<1>7. UniqueIds(ReadQueue, pending) /\ UniqueAddrs(ReadQueue, pending)
  BY <1>2, <1>3 DEF UniqueIds, UniqueAddrs
<1>8. ValuesBelong
  BY <1>2, <1>3, <1>5, <1>6 DEF ValuesBelong
<1>9. OneRequestPerAddress
  BY <1>3, <1>4, <1>7 DEF OneRequestPerAddress, UniqueWrites, Apart
<1>10. LinesHoldTheLatest /\ SearchesMissNothing /\ ReadsAreCurrent
  BY <1>1, <1>2, <1>5, <1>6 DEF LinesHoldTheLatest, SearchesMissNothing, ReadsAreCurrent
<1> QED BY <1>7, <1>8, <1>9, <1>10 DEF MemoryInv, Exact

LEMMA MemoryStepHolds ==
  ASSUME IInv, MemoryInv, [Next]_vars
  PROVE  MemoryInv'
<1>1. TypeOK
  BY DEF IInv
<1>2. CASE SendRead \/ SendWrite
  BY <1>1, <1>2, SendReadKeeps, SendWriteKeeps
<1>3. CASE ReadPortStep \/ WritePortStep
  BY <1>1, <1>3, ReadPortStepKeeps, WritePortStepKeeps
<1>4. CASE ReadHit \/ ReadMiss
  BY <1>1, <1>4, ReadHitKeeps, ReadMissKeeps
<1>5. CASE Answered
  BY <1>5, AnswerIgnoredKeeps, FillKeeps DEF Answered
<1>6. CASE WriteThrough
  BY <1>1, <1>6, WriteThroughKeeps
<1>7. CASE Recv
  <2>1. UNCHANGED <<table, readPort, writePort, pending, store, answers, owner>>
    BY <1>7 DEF Recv, belowVars
  <2> QED BY <2>1, NothingMoves
<1>8. CASE ReadPortIdle \/ WritePortIdle \/ ReadResultNone \/ NoAnswer \/ WriteResultNone
             \/ UNCHANGED vars
  <2>1. UNCHANGED <<table, readPort, writePort, pending, store, answers, owner>>
    BY <1>8 DEF ReadPortIdle, WritePortIdle, ReadResultNone, NoAnswer, WriteResultNone,
                vars, cacheVars, belowVars
  <2> QED BY <2>1, NothingMoves
<1> QED BY <1>2, <1>3, <1>4, <1>5, <1>6, <1>7, <1>8 DEF Next, Tick

\* With the ids, that is an inductive invariant: of the requests in flight no two reads
\* have one id, every value is one of the address it is held for, and an owner that
\* keeps addresses apart has one request per address in flight, finds in a line the
\* last value written, misses only what is in no line, and has read what is still so.
THEOREM MemoryInvariance == Spec => [](IInv /\ MemoryInv)
<1>1. Init => IInv /\ MemoryInv
  BY InitHolds, MemoryInitHolds
<1>2. IInv /\ MemoryInv /\ [Next]_vars => IInv' /\ MemoryInv'
  BY StepHolds, MemoryStepHolds
<1> QED BY <1>1, <1>2, PTL DEF Spec

LEMMA LinesAgree ==
  ASSUME TypeOK, MemoryInv
  PROVE  LinesAgreeWithStore
<1>1. SUFFICES ASSUME owner = "disjoint", NEW a \in Addr, NEW l \in LinesOf(a), NEW m \in LinesOf(a)
      PROVE  /\ l = m
             /\ \A e \in table[l] :
                  e.val = store[a] \/ \E i \in DOMAIN WritesInFlight :
                                         /\ WritesInFlight[i].addr = a
                                         /\ WritesInFlight[i].val = e.val
  BY DEF LinesAgreeWithStore
<1>2. LinesHoldTheLatest
  BY <1>1 DEF MemoryInv, Exact
<1>3. l \in LinesIn(table, a) /\ m \in LinesIn(table, a)
  BY <1>1 DEF LinesOf, LinesIn
<1>4. ASSUME NEW e \in table[l], e.val # store[a]
      PROVE  \E i \in DOMAIN WritesInFlight :
               WritesInFlight[i].addr = a /\ WritesInFlight[i].val = e.val
  <2>1. PICK i \in DOMAIN writePort.outbox : writePort.outbox[i].addr = a
    BY <1>2, <1>3, <1>4 DEF LinesHoldTheLatest
  <2>2. e.val = writePort.outbox[i].val
    BY <1>2, <1>3, <1>4, <2>1 DEF LinesHoldTheLatest
  <2>3. /\ i \in DOMAIN WritesInFlight
        /\ WritesInFlight[i] = WriteReq(writePort.outbox[i].id, writePort.outbox[i].addr,
                                        writePort.outbox[i].val)
    BY InTheQueue
  <2>4. WritesInFlight[i].addr = a /\ WritesInFlight[i].val = e.val
    BY <2>1, <2>2, <2>3 DEF WriteReq
  <2> QED BY <2>3, <2>4
<1> QED BY <1>2, <1>3, <1>4 DEF LinesHoldTheLatest

\* For an owner that does not touch an address it waits for, an address is in at most
\* one way, and a line holds what the memory below holds or what the write in flight to
\* its address brings: whatever the eviction policy, no fill brings back an old value
\* after a write has looked at the line, and none makes a second copy.
THEOREM LinesAgreeWithMemory == Spec => []LinesAgreeWithStore
<1>1. IInv /\ MemoryInv => LinesAgreeWithStore
  BY LinesAgree DEF IInv
<1> QED BY <1>1, MemoryInvariance, PTL

-----------------------------------------------------------------------------
(* The cache implements the memory its owner is promised *)

LEMMA SendReadRefines ==
  ASSUME TypeOK, SendRead
  PROVE  Promise!SendRead
<1>1. /\ UNCHANGED <<pending, WritesInFlight, store, outbox, owner>>
      /\ idSeq \notin IdsInUse /\ idSeq \in Id
  BY SendReadEffect
<1>2. PICK a \in Addr : ReadQueue' = Append(ReadQueue, ReadReq(idSeq, a))
  BY SendReadEffect
<1>3. ReadReq(idSeq, a) \in ReadTask /\ ReadQueue \in Seq(ReadTask)
  BY <1>1, InFlightFacts DEF ReadReq, ReadTask
<1>4. ReadsInFlight' = ReadsInFlight \cup {ReadReq(idSeq, a)}
  BY <1>1, <1>2, <1>3, ReadAdded, ReadsInFlightAre
<1>5. idSeq \in Id \ Promise!InUse
  BY <1>1, FreeId DEF Promise!InUse
<1>6. ReadsInFlight' = ReadsInFlight \cup {Promise!ReadReq(idSeq, a)}
  BY <1>4 DEF ReadReq, Promise!ReadReq
<1>7. (owner = "disjoint")' = (owner = "disjoint")
  BY <1>1
<1> QED BY <1>1, <1>5, <1>6, <1>7 DEF Promise!SendRead

LEMMA SendWriteRefines ==
  ASSUME TypeOK, SendWrite
  PROVE  Promise!SendWrite
<1>1. /\ UNCHANGED <<pending, ReadQueue, store, outbox, owner>>
      /\ idSeq \notin IdsInUse /\ idSeq \in Id
  BY SendWriteEffect
<1>2. PICK a \in Addr : \E v \in ValuesOf[a] :
        WritesInFlight' = Append(WritesInFlight, WriteReq(idSeq, a, v))
  BY SendWriteEffect
<1>3. PICK v \in ValuesOf[a] : WritesInFlight' = Append(WritesInFlight, WriteReq(idSeq, a, v))
  BY <1>2
<1>4. ReadsInFlight' = ReadsInFlight
  BY <1>1, ReadsInFlightAre
<1>5. idSeq \in Id \ Promise!InUse
  BY <1>1, FreeId DEF Promise!InUse
<1>6. WritesInFlight' = Append(WritesInFlight, Promise!WriteReq(idSeq, a, v))
  BY <1>3 DEF WriteReq, Promise!WriteReq
<1>7. (owner = "disjoint")' = (owner = "disjoint")
  BY <1>1
<1> QED BY <1>1, <1>4, <1>5, <1>6, <1>7 DEF Promise!SendWrite

\* A read in flight that is answered with a value of its address, and with what the
\* memory below holds if the owner keeps addresses apart.
LEMMA AnsweredRefines ==
  ASSUME NEW r, r \in ReadsInFlight, ReadsInFlight' = ReadsInFlight \ {r},
         NEW v, v \in ValuesOf[r.addr], owner = "disjoint" => v = store[r.addr],
         outbox' = Append(outbox, ReadResp(r.id, v)),
         UNCHANGED <<store, WritesInFlight, owner>>
  PROVE  Promise!AnswerRead
<1>1. outbox' = Append(outbox, Promise!ReadResp(r.id, v))
  BY DEF ReadResp, Promise!ReadResp
<1>2. (owner = "disjoint")' = (owner = "disjoint")
  OBVIOUS
<1> QED BY <1>1, <1>2 DEF Promise!AnswerRead

LEMMA ReadHitRefines ==
  ASSUME TypeOK, MemoryInv, ReadHit
  PROVE  Promise!AnswerRead
<1> DEFINE out == readPort.outbox
           x == Head(out)
           r == ReadReq(x.id, x.addr)
<1>1. UNCHANGED <<writePort, pending, store, owner>>
  BY DEF ReadHit, belowVars
<1>2. PICK h \in x.hit : outbox' = Append(outbox, ReadResp(x.id, h.val))
  BY DEF ReadHit
<1>3. /\ out # <<>> /\ out \in Seq(ReadOutcome) /\ x \in ReadOutcome
      /\ ReadQueue # <<>> /\ ReadQueue' = Tail(ReadQueue) /\ Head(ReadQueue) = r
  BY ReadPopped DEF ReadHit
<1>4. /\ ReadQueue \in Seq(ReadTask) /\ UniqueIds(ReadQueue, pending)
      /\ WritesInFlight' = WritesInFlight
  BY <1>1, InFlightFacts DEF MemoryInv, WritesInFlight
<1>5. x.addr \in Addr /\ r.id = x.id /\ r.addr = x.addr
  BY <1>3 DEF ReadOutcome, ReadReq
<1> HIDE DEF out, x, r
<1>6. r \in ReadsInFlight /\ ReadsInFlight' = ReadsInFlight \ {r}
  <2>1. /\ Head(ReadQueue) \in ReadsOf(ReadQueue, pending)
        /\ ReadsOf(Tail(ReadQueue), pending) = ReadsOf(ReadQueue, pending) \ {Head(ReadQueue)}
    BY <1>3, <1>4, ReadLeaves
  <2> QED BY <1>1, <1>3, <2>1, ReadsInFlightAre
<1>7. h.val \in ValuesOf[r.addr]
  <2>1. Hits(out, ValuesOf)
    BY DEF MemoryInv, ValuesBelong, out
  <2>2. \A g \in x.hit : g.val \in ValuesOf[x.addr]
    BY <1>3, <2>1, HitsTailed DEF x
  <2> QED BY <1>2, <1>5, <2>2
<1>8. ASSUME owner = "disjoint"
      PROVE  h.val = store[r.addr]
  <2>1. Hits(out, Current)
    BY <1>8 DEF MemoryInv, Exact, ReadsAreCurrent, out
  <2>2. \A g \in x.hit : g.val \in Current[x.addr]
    BY <1>3, <2>1, HitsTailed DEF x
  <2>3. h.val \in Current[x.addr]
    BY <1>2, <2>2
  <2> QED BY <1>5, <2>3 DEF Current
<1>9. outbox' = Append(outbox, ReadResp(r.id, h.val))
  BY <1>2, <1>5
<1> QED BY <1>1, <1>4, <1>6, <1>7, <1>8, <1>9, AnsweredRefines

LEMMA FillRefines ==
  ASSUME IInv, MemoryInv, Fill
  PROVE  Promise!AnswerRead
<1> DEFINE h == Head(answers)
<1>1. TypeOK /\ answers \in Seq(Reply)
  BY BelowFacts DEF IInv
<1>2. UNCHANGED <<readPort, writePort, store, owner>> /\ answers # <<>>
  BY <1>1, FillEffect
<1>3. PICK p \in pending : Fills(p)
  BY <1>1, FillEffect
<1> DEFINE r == ReadReq(p.id, p.addr)
<1>4. /\ p.below = h.id /\ h.kind = "read" /\ p.addr \in Addr
      /\ pending' = pending \ {p} /\ outbox' = Append(outbox, ReadResp(p.id, h.val))
  BY <1>1, <1>3, AddressesInUse DEF Fills
<1>5. r.id = p.id /\ r.addr = p.addr
  BY DEF ReadReq
<1>6. ReadQueue' = ReadQueue /\ WritesInFlight' = WritesInFlight
      /\ UniqueIds(ReadQueue, pending)
  BY <1>2 DEF ReadQueue, WritesInFlight, MemoryInv
<1>7. r \in ReadsInFlight /\ ReadsInFlight' = ReadsInFlight \ {r}
  <2>1. ReadsOf(ReadQueue, pending \ {p}) = ReadsOf(ReadQueue, pending) \ {ReadReq(p.id, p.addr)}
    BY <1>6, PendingLeaves
  <2>2. ReadReq(p.id, p.addr) \in ReadsOf(ReadQueue, pending)
    BY ReadsOfMember
  <2> QED BY <1>4, <1>6, <2>1, <2>2, ReadsInFlightAre
<1> HIDE DEF h, r
<1>8. ASSUME NEW S, Answers(answers, pending, S)
      PROVE  h.val \in S[p.addr]
  <2>1. \A q \in pending : Head(answers).kind = "read" /\ Head(answers).id = q.below
          => Head(answers).val \in S[q.addr]
    BY <1>1, <1>2, <1>8, AnswersTailed
  <2> QED BY <1>4, <2>1 DEF h
<1>9. h.val \in ValuesOf[r.addr]
  BY <1>5, <1>8 DEF MemoryInv, ValuesBelong
<1>10. ASSUME owner = "disjoint"
       PROVE  h.val = store[r.addr]
  <2>1. h.val \in Current[p.addr]
    BY <1>8, <1>10 DEF MemoryInv, Exact, ReadsAreCurrent
  <2> QED BY <1>4, <1>5, <2>1 DEF Current
<1>11. outbox' = Append(outbox, ReadResp(r.id, h.val))
  BY <1>4, <1>5
<1> QED BY <1>2, <1>6, <1>7, <1>9, <1>10, <1>11, AnsweredRefines

LEMMA WriteThroughRefines ==
  ASSUME TypeOK, WriteThrough
  PROVE  Promise!AnswerWrite
<1> DEFINE w == Head(writePort.outbox)
           f == Head(WritesInFlight)
<1>1. /\ UNCHANGED <<owner, ReadsInFlight>>
      /\ WritesInFlight # <<>> /\ WritesInFlight' = Tail(WritesInFlight)
      /\ f.id = w.id /\ f.addr = w.addr /\ f.val = w.val
      /\ store' = [store EXCEPT ![w.addr] = w.val]
      /\ outbox' = Append(outbox, WriteResp(w.id))
  BY WriteThroughEffect
<1> HIDE DEF w, f
<1>2. outbox' = Append(outbox, Promise!WriteResp(f.id))
  BY <1>1 DEF WriteResp, Promise!WriteResp
<1>3. store' = [store EXCEPT ![f.addr] = f.val]
  BY <1>1
<1>4. (owner = "disjoint")' = (owner = "disjoint")
  BY <1>1
<1> QED BY <1>1, <1>2, <1>3, <1>4 DEF Promise!AnswerWrite, f

\* A step that leaves the queues, the memory below and the results alone is none of
\* the memory the owner sees.
LEMMA StutterRefines ==
  ASSUME ReadQueue' = ReadQueue, WritesInFlight' = WritesInFlight,
         UNCHANGED <<pending, store, outbox, owner>>
  PROVE  UNCHANGED Promise!vars
<1>1. ReadsInFlight' = ReadsInFlight
  BY ReadsInFlightAre
<1>2. (owner = "disjoint")' = (owner = "disjoint")
  OBVIOUS
<1> QED BY <1>1, <1>2 DEF Promise!vars

LEMMA PortStepsRefine ==
  ASSUME TypeOK, ReadPortStep \/ WritePortStep
  PROVE  UNCHANGED Promise!vars
<1>1. CASE ReadPortStep
  <2>1. PICK c \in ReadContext : ReadPortMoves(c)
    BY <1>1, ReadPortStepMoves
  <2>2. WritesInFlight' = WritesInFlight /\ UNCHANGED <<pending, store, outbox, owner>>
    BY <1>1 DEF ReadPortStep, belowVars, WritesInFlight
  <2> QED BY <2>1, <2>2, StutterRefines DEF ReadPortMoves
<1>2. CASE WritePortStep
  <2>1. PICK c \in WriteContext : WritePortMoves(c)
    BY <1>2, WritePortStepMoves
  <2>2. ReadQueue' = ReadQueue /\ UNCHANGED <<pending, store, outbox, owner>>
    BY <1>2 DEF WritePortStep, belowVars, ReadQueue
  <2> QED BY <2>1, <2>2, StutterRefines DEF WritePortMoves
<1> QED BY <1>1, <1>2

\* A read that misses goes below: it is in flight as before.
LEMMA ReadMissRefines ==
  ASSUME IInv, MemoryInv, ReadMiss
  PROVE  UNCHANGED Promise!vars
<1> DEFINE r == Head(readPort.outbox)
<1>1. TypeOK /\ UNCHANGED <<writePort, store, outbox, owner>>
  BY DEF IInv, ReadMiss
<1>2. /\ ReadQueue # <<>> /\ ReadQueue' = Tail(ReadQueue)
      /\ Head(ReadQueue) = ReadReq(r.id, r.addr)
  BY <1>1, ReadPopped DEF ReadMiss
<1>3. ReadQueue \in Seq(ReadTask) /\ WritesInFlight' = WritesInFlight
  BY <1>1, InFlightFacts DEF WritesInFlight
<1>4. pending' = pending \cup {Entry(r)}
  BY MissPended
<1>5. Entry(r).id = Head(ReadQueue).id /\ Entry(r).addr = Head(ReadQueue).addr
  BY <1>2 DEF Entry, ReadReq
<1> HIDE DEF r
<1>6. ReadsInFlight' = ReadsInFlight
  <2>1. ReadsOf(Tail(ReadQueue), pending \cup {Entry(r)}) = ReadsOf(ReadQueue, pending)
    BY <1>2, <1>3, <1>5, ReadGoesBelow
  <2> QED BY <1>2, <1>4, <2>1, ReadsInFlightAre
<1>7. (owner = "disjoint")' = (owner = "disjoint")
  BY <1>1
<1> QED BY <1>1, <1>3, <1>6, <1>7 DEF Promise!vars

LEMMA StepRefines ==
  ASSUME IInv, MemoryInv, [Next]_vars
  PROVE  [Promise!Next]_Promise!vars
<1>1. TypeOK
  BY DEF IInv
<1>2. CASE SendRead \/ SendWrite
  BY <1>1, <1>2, SendReadRefines, SendWriteRefines DEF Promise!Next
<1>3. CASE ReadPortStep \/ WritePortStep
  BY <1>1, <1>3, PortStepsRefine
<1>4. CASE ReadHit \/ Fill
  BY <1>1, <1>4, ReadHitRefines, FillRefines DEF Promise!Next
<1>5. CASE ReadMiss
  BY <1>5, ReadMissRefines
<1>6. CASE WriteThrough
  BY <1>1, <1>6, WriteThroughRefines DEF Promise!Next
<1>7. CASE Recv
  <2>1. /\ outbox # <<>> /\ outbox' = Tail(outbox)
        /\ UNCHANGED <<store, ReadsInFlight, WritesInFlight, owner>>
    BY <1>7 DEF Recv, belowVars, ReadsInFlight, WritesInFlight
  <2>2. (owner = "disjoint")' = (owner = "disjoint")
    BY <2>1
  <2> QED BY <2>1, <2>2 DEF Promise!Recv, Promise!Next
<1>8. CASE ReadPortIdle \/ WritePortIdle \/ ReadResultNone \/ NoAnswer \/ AnswerIgnored
             \/ WriteResultNone \/ UNCHANGED vars
  <2>1. UNCHANGED <<readPort, writePort, pending, store, outbox, owner>>
    BY <1>8 DEF ReadPortIdle, WritePortIdle, ReadResultNone, NoAnswer, AnswerIgnored,
                WriteResultNone, vars, cacheVars, belowVars
  <2>2. ReadQueue' = ReadQueue /\ WritesInFlight' = WritesInFlight
    BY <2>1 DEF ReadQueue, WritesInFlight
  <2> QED BY <2>1, <2>2, StutterRefines
<1> QED BY <1>2, <1>3, <1>4, <1>5, <1>6, <1>7, <1>8 DEF Next, Tick, Answered

\* The cache is the memory its owner is promised, for every size and every eviction
\* policy: each request is answered once, under its id, a write takes effect when it is
\* written through, in the order of the sends, and a read is answered with a value of
\* its address: with what the memory below holds, if the owner keeps addresses apart.
THEOREM CacheIsAtomicMemory == Spec => IsAtomicMemory
<1>1. Init => Promise!Init
  <2> SUFFICES ASSUME Init PROVE Promise!Init
    OBVIOUS
  <2>1. InPort(readPort) = <<>> /\ InPort(writePort) = <<>>
    BY DEF Init, EmptyPort, Parts, InPort
  <2>2. ReadsInFlight = {} /\ WritesInFlight = <<>> /\ outbox = <<>>
    BY <2>1 DEF Init, ReadsInFlight, WritesInFlight
  <2>3. store \in [Addr -> Val] /\ \A a \in Addr : store[a] \in ValuesOf[a]
    BY DEF Init
  <2>4. (owner = "disjoint") \in BOOLEAN
    OBVIOUS
  <2> QED BY <2>2, <2>3, <2>4 DEF Promise!Init, Val
<1>2. IInv /\ MemoryInv /\ [Next]_vars => [Promise!Next]_Promise!vars
  BY StepRefines
<1> QED BY <1>1, <1>2, MemoryInvariance, PTL DEF Spec, IsAtomicMemory, Promise!Spec
=============================================================================
