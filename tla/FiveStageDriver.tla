--------------------------- MODULE FiveStageDriver ---------------------------
(***************************************************************************)
(* run_five_stage() of src/src/main.rs, which ticks the in-order core a    *)
(* fixed number of times, and the result its program should have: the      *)
(* words of memory executed one after the other, with the spacing between  *)
(* instructions that makes the pipeline compute it.  Branches are left     *)
(* out: this core never redirects its program counter.                     *)
(***************************************************************************)
EXTENDS FiveStage

CONSTANT Cycles   \* words.len() + 4 in the code

VARIABLE image    \* memory as load() left it

driverVars == <<vars, image>>

DriverInit == Init /\ image = mem

\* A panic in tick() ends the process.
DriverTick ==
  /\ cycle < Cycles
  /\ Next
  /\ UNCHANGED image

Finished == cycle = Cycles /\ UNCHANGED driverVars

DriverNext == DriverTick \/ Finished

DriverSpec == DriverInit /\ [][DriverNext]_driverVars

-----------------------------------------------------------------------------
(* The reference: registers and memory after the first words of the image. *)

\* What the instruction i at address a computes in the state s, and the state after it.
Computed(s, i, a) == Compute(i.op, a, s.regs[i.rs1], s.regs[i.rs2], i.imm)

After(s, i, a) ==
  LET result == Computed(s, i, a)
  IN [regs |-> IF WritesRd(FormatOf(i.op)) /\ i.rd # 0
                 THEN [s.regs EXCEPT ![i.rd] = IF IsLoad(i.op) THEN s.mem[result] ELSE result]
                 ELSE s.regs,
      mem  |-> IF IsStore(i.op) THEN [s.mem EXCEPT ![result] = s.regs[i.rs2]] ELSE s.mem]

Sequential[n \in 0 .. MemSize] ==
  IF n = 0 THEN [regs |-> [r \in Reg |-> 0], mem |-> image]
  ELSE IF Decode[image[n - 1]] = {} THEN Sequential[n - 1]
  ELSE After(Sequential[n - 1], The(Decode[image[n - 1]]), n - 1)

\* "Correct only when the caller inserts sufficient NOPs manually, or forwarding
\* covers all cases" (src/src/five_stage/hazard.rs:17-18): whenever the pipeline is
\* empty of its program, registers and memory are those of the sequential execution
\* of the words fetched so far.
MatchesSequential ==
  Drained => regs = Sequential[pc].regs /\ mem = Sequential[pc].mem

-----------------------------------------------------------------------------
(* The spacing that is enough.  Words are in the pipeline a cycle apart. *)

Reads(i) == {i.rs1, i.rs2}

\* The second instruction may follow the first at this distance in words:
\*   1      the ALU is still busy with the first and refuses it
\*   2, 3   the first one's result is forwarded, to one operand; a load's comes from
\*          its latch only at 3, at 2 that holds the address; and what is forwarded
\*          is the rd field, a destination or not
\*   4      the first one's result is nowhere: written in the cycle the second one
\*          has read its registers
\*   more   the register file has it
MayFollow(i, j, distance) ==
  \/ /\ distance \in {2, 3}
     /\ i.rd # 0 /\ i.rd \in Reads(j) =>
          /\ j.rs1 # j.rs2
          /\ WritesRd(FormatOf(i.op))
          /\ distance = 2 => ~IsLoad(i.op)
  \/ distance = 4 /\ (i.rd # 0 /\ WritesRd(FormatOf(i.op)) => i.rd \notin Reads(j))
  \/ distance > 4

WellSpaced(m, forwarding) ==
  \A a, b \in Addr : a < b =>
    \A i \in Decode[m[a]], j \in Decode[m[b]] :
      IF forwarding = "FullForwarding" THEN MayFollow(i, j, b - a)
      ELSE b - a > 1 /\ (b - a < 5 /\ WritesRd(FormatOf(i.op)) /\ i.rd # 0 => i.rd \notin Reads(j))

\* No word behind a load names its destination where an instruction would have rs1
\* and rs2: should_stall() looks at words that encode nothing, too, and a stall takes
\* the instructions behind it a cycle further apart.
NeverStalls(m) ==
  \A a, b \in Addr : b = a + 1 =>
    \A i \in Decode[m[a]] : IsLoad(i.op) /\ i.rd # 0 => i.rd \notin WordRegs[m[b]]

\* Of the words fetched, none was stored into by the words before it.
RunsItsImage ==
  \A a \in 0 .. pc - 1 : \A n \in 0 .. a : Sequential[n].mem[a] = image[a]

Spaced ==
  /\ WellSpaced(image, policy.forwarding)
  /\ policy.hazard = "StallOnLoad" => NeverStalls(image)
  /\ RunsItsImage

\* A program so spaced, that does not overwrite what it is still to execute, runs as
\* if sequentially.
WellSpacedIsSequential == Spaced => MatchesSequential
=============================================================================
