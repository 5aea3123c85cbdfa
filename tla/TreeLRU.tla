------------------------------ MODULE TreeLRU ------------------------------
(***************************************************************************)
(* TreeLRUPolicy of src/src/memory/tree_lru.rs: per cache line a binary    *)
(* tree of prediction bits, its ways at the leaves.  Level l of the tree   *)
(* branches on bit l of the way, the lowest bit first.  Node n has the     *)
(* children 2n + 1 and 2n + 2.                                             *)
(***************************************************************************)
EXTENDS Integers

CONSTANT LogAssoc    \* `assoc` in the code: log2 of the number of ways

ASSUME LruAssumption == LogAssoc \in Nat

\* 1 << n
Power[n \in 0 .. LogAssoc] == IF n = 0 THEN 1 ELSE 2 * Power[n - 1]

Way   == 0 .. Power[LogAssoc] - 1
Node  == 0 .. Power[LogAssoc] - 2
Level == 0 .. LogAssoc - 1

\* The prediction bits of one line.
Bits == [Node -> BOOLEAN]
Cold == [n \in Node |-> FALSE]

\* extract_binary(): bit l of way w.
BitAt(w, l) == (w \div Power[l]) % 2 = 1

Child(n, bit) == 2 * n + 1 + (IF bit THEN 1 ELSE 0)

\* The node the path to way w goes through at each level; at the last, its leaf.
PathTo(w) ==
  LET at[l \in 0 .. LogAssoc] == IF l = 0 THEN 0 ELSE Child(at[l - 1], BitAt(w, l - 1))
  IN at

\* Mutant: the bits are left pointing at the way just used.
LoggedTowards(bits, w) ==
  LET path == PathTo(w)
  IN [n \in Node |-> IF \E l \in Level : path[l] = n
                       THEN \E l \in Level : path[l] = n /\ BitAt(w, l)
                       ELSE bits[n]]

\* Mutant: only the root is updated.
LoggedRoot(bits, w) == [bits EXCEPT ![0] = ~BitAt(w, 0)]

\* log_hit(): every node on the way's path points to the other side.
Logged(bits, w) ==
  LET path == PathTo(w)
  IN [n \in Node |-> IF \E l \in Level : path[l] = n
                       THEN \E l \in Level : path[l] = n /\ ~BitAt(w, l)
                       ELSE bits[n]]

\* The node and the way so far of get_eviction_id() at each level, following the bits.
Descent(bits) ==
  LET at[l \in 0 .. LogAssoc] ==
        IF l = 0 THEN [node |-> 0, way |-> 0]
        ELSE LET up == at[l - 1]
             IN [node |-> Child(up.node, bits[up.node]),
                 way  |-> up.way + (IF bits[up.node] THEN Power[l - 1] ELSE 0)]
  IN at

\* get_eviction_id()
Victim(bits) == Descent(bits)[LogAssoc].way

=============================================================================
