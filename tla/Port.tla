-------------------------------- MODULE Port --------------------------------
(***************************************************************************)
(* Port of src/src/utils/step.rs: a queue of tasks worked on one at a      *)
(* time, one step of a coroutine per tick, with a queue of results.        *)
(*                                                                         *)
(* A tick is: start the next task if idle (Started), then one step of the  *)
(* task in progress, which either goes on (Continued) or is done (Done).   *)
(* The process itself belongs to the component that owns the port.         *)
(***************************************************************************)
EXTENDS Sequences, Latch

Parts(inbox, ctx, outbox) == [inbox |-> inbox, ctx |-> ctx, outbox |-> outbox]

PortOf(T, C, R) == [inbox : Seq(T), ctx : Option(C), outbox : Seq(R)]

EmptyPort == Parts(<<>>, {}, <<>>)

\* send()
Sent(p, task) == Parts(Append(p.inbox, task), p.ctx, p.outbox)

\* The head of tick(); Ctx(_) is create_context().
Started(p, Ctx(_)) ==
  IF p.ctx = {} /\ p.inbox # <<>>
    THEN Parts(Tail(p.inbox), {Ctx(Head(p.inbox))}, p.outbox)
    ELSE p

\* Mutant: the context does not move on.
ContinuedInPlace(p, c) == p

\* Step::Continue
Continued(p, c) == Parts(p.inbox, {c}, p.outbox)

\* Step::Done
Done(p, r) == Parts(p.inbox, {}, Append(p.outbox, r))

\* pop()
Popped(p) == Parts(p.inbox, p.ctx, Tail(p.outbox))
=============================================================================
