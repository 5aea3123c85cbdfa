------------------------------- MODULE Latch -------------------------------
(***************************************************************************)
(* Option<T> and the two-phase pipeline register of src/src/utils/latch.rs.*)
(*                                                                         *)
(* An Option<T> is a set with at most one element: None is {}, Some(x) is  *)
(* {x}, so that `if let Some(x) = o` reads \E x \in o.                     *)
(*                                                                         *)
(* A latch holds a staged value, written in this cycle, and an active      *)
(* value, readable in this cycle.                                          *)
(***************************************************************************)

Option(S) == {o \in SUBSET S : \A x, y \in o : x = y}

\* The value of a non-empty option (Rust's unwrap).
The(o) == CHOOSE x \in o : TRUE

LatchOf(S) == [staged : Option(S), active : Option(S)]

EmptyLatch == [staged |-> {}, active |-> {}]

\* stage(): a value staged twice in one cycle is overwritten.
Staged(l, x) == [staged |-> {x}, active |-> l.active]

\* read(): consumes the active value.
Taken(l) == [staged |-> l.staged, active |-> {}]

\* update(): the staged value becomes the active one, whatever was active.
Advanced(l) == [staged |-> {}, active |-> l.staged]
=============================================================================
