---------------------------- MODULE AtomicMemory ----------------------------
(***************************************************************************)
(* What a Memory<SimpleRW> (src/src/memory/mem_fabric.rs) promises its     *)
(* owner: send() returns an id, and every request is answered once, under  *)
(* its id, through recv().  Writes take effect in the order they were      *)
(* sent.  A read takes effect at one instant between its send() and its    *)
(* answer; `exact` says whether it then returns what the store holds, or   *)
(* only some value of that address.                                        *)
(***************************************************************************)
EXTENDS Integers, Sequences

CONSTANTS
  Addr,
  ValuesOf,    \* the values each address may hold
  Id           \* request ids

VARIABLES
  store,
  reads,       \* reads sent and not answered, a set
  writes,      \* writes sent and not answered, in order
  replies,     \* answers recv() has yet to deliver
  exact

vars == <<store, reads, writes, replies, exact>>

ReadReq(id, a)      == [id |-> id, addr |-> a]
WriteReq(id, a, v)  == [id |-> id, addr |-> a, val |-> v]
ReadResp(id, v)     == [kind |-> "read", id |-> id, val |-> v]
WriteResp(id)       == [kind |-> "write", id |-> id]

InUse == {r.id : r \in reads} \cup {writes[i].id : i \in DOMAIN writes}

Init ==
  /\ store \in [Addr -> UNION {ValuesOf[a] : a \in Addr}]
  /\ \A a \in Addr : store[a] \in ValuesOf[a]
  /\ reads = {} /\ writes = <<>> /\ replies = <<>>
  /\ exact \in BOOLEAN

SendRead ==
  /\ \E id \in Id \ InUse, a \in Addr : reads' = reads \cup {ReadReq(id, a)}
  /\ UNCHANGED <<store, writes, replies, exact>>

SendWrite ==
  /\ \E id \in Id \ InUse, a \in Addr : \E v \in ValuesOf[a] :
       writes' = Append(writes, WriteReq(id, a, v))
  /\ UNCHANGED <<store, reads, replies, exact>>

AnswerRead ==
  /\ \E r \in reads :
       /\ reads' = reads \ {r}
       /\ \E v \in ValuesOf[r.addr] :
            /\ exact => v = store[r.addr]
            /\ replies' = Append(replies, ReadResp(r.id, v))
  /\ UNCHANGED <<store, writes, exact>>

AnswerWrite ==
  /\ writes # <<>>
  /\ LET w == Head(writes)
     IN /\ store' = [store EXCEPT ![w.addr] = w.val]
        /\ replies' = Append(replies, WriteResp(w.id))
  /\ writes' = Tail(writes)
  /\ UNCHANGED <<reads, exact>>

Recv ==
  /\ replies # <<>>
  /\ replies' = Tail(replies)
  /\ UNCHANGED <<store, reads, writes, exact>>

Next == SendRead \/ SendWrite \/ AnswerRead \/ AnswerWrite \/ Recv

Spec == Init /\ [][Next]_vars
=============================================================================
