---------------------------- MODULE OooRefinement ----------------------------
(***************************************************************************)
(* SimpleOOO against IsaMachine.  The architectural registers are the      *)
(* register file itself; three history variables complete the mapping:     *)
(*   amem  memory as it would be had every committed store, and no other,  *)
(*         been performed at its commit                                    *)
(*   apc   where the instruction committed last continues                  *)
(*   follows  whether the program is one whose control flow the core keeps *)
(*            to (it never changes)                                        *)
(* A commit is an instruction of the sequential machine, every other step  *)
(* is invisible.                                                           *)
(***************************************************************************)
EXTENDS SimpleOOO

CONSTANT SequentialMems   \* initial memories of which `follows` is claimed

VARIABLES amem, apc, follows

refVars == <<vars, amem, apc, follows>>

Sequential == INSTANCE IsaMachine WITH mem <- amem, pc <- apc

RefInit == Init /\ amem = mem /\ apc = 0 /\ follows = (mem \in SequentialMems)

Committing == stage = "CM" /\ HeadIsReady

\* The effect of the committed instruction i, at p, on memory and control.
Observe(i, p) ==
  /\ amem' = IF IsStore(i.op) /\ Sequential!EffectiveAddr(i) \in Addr
               THEN [amem EXCEPT ![Sequential!EffectiveAddr(i)] = regs[i.rs2]] ELSE amem
  /\ apc' = Sequential!Target(i, p)

RefNext ==
  \/ /\ Commit
     /\ \E e \in HeadSlot(rob) : \E i \in Decode[amem[e.pc]] : Observe(i, e.pc)
     /\ UNCHANGED follows
  \/ /\ ~Committing
     /\ Next
     /\ UNCHANGED <<amem, apc, follows>>

RefSpec == RefInit /\ [][RefNext]_refVars

-----------------------------------------------------------------------------
\* Whatever stream of instructions the frontend fetched, committing it leaves the
\* registers, and a load reads, what a sequential execution of that stream does; of
\* the programs in SequentialMems that stream is the one control flow leads through.
ImplementsIsa == Sequential!Spec

\* Memory catches up with the committed stores once no store is in flight: the
\* MEM stage performed each of them once, in commit order per cell.
StoresDrained ==
  (/\ \A t \in Tag : \A e \in rob.data[t] : e.format # "S"
   /\ \A r \in aluMem.staged \cup aluMem.active : ~IsStore(r.instr.op))
  => mem = amem

\* "When a branch or jump commits we know the true next-PC"
\* (src/src/simple_ooo/mod.rs:156): the next instruction to commit is the one
\* the last committed instruction leads to.
CommitsFollowControlFlow ==
  [][Committing => \A e \in HeadSlot(rob) : e.pc = apc]_refVars
=============================================================================
