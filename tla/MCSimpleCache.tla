--------------------------- MODULE MCSimpleCache ---------------------------
(***************************************************************************)
(* SimpleCache with TreeLRUPolicy for TLC.  Values are drawn from a set of *)
(* their own for each address, so that an answer tells which address it    *)
(* comes from; one address may hold two values.                            *)
(***************************************************************************)
EXTENDS SimpleCache

CONSTANT LogAssoc

Lru == INSTANCE TreeLRU

McAddr == {0, 2, 4}
McValuesOf == [a \in McAddr |-> IF a = 0 THEN {0, 1} ELSE {a}]

McPolicy    == [Index -> Lru!Bits]
McNewPolicy == [i \in Index |-> Lru!Cold]
McLogHit(p, i, w)  == [p EXCEPT ![i] = Lru!Logged(@, w)]
McEvictionId(p, i) == Lru!Victim(p[i])

AllOwners    == {"disjoint", "any"}
SharedReads  == {"readers"}

\* What an owner without discipline does with a backed memory, a disjoint one does
\* too, up to the values; and a late memory may be as fast as a prompt one.
McDownstreams   == [disjoint |-> {"backed", "late"}, any |-> {"prompt", "late"}]
LateDownstreams == [readers |-> {"late"}]
=============================================================================
