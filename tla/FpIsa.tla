--------------------------------- MODULE FpIsa ---------------------------------
(***************************************************************************)
(* The instruction-set view of the floating-point extension: instructions  *)
(* arrive one at a time and each is executed exactly once, atomically, on  *)
(* the register contents at that moment.                                   *)
(***************************************************************************)
EXTENDS FpInstr

VARIABLES
  program,       \* the program loaded
  instr,         \* the instruction in the ID stage
  instr_valid,   \* FALSE: a bubble, instr is a stale instruction
  frf, xrf,      \* the floating-point and the integer register file
  minstret       \* the retired-instruction counter

vars == <<program, instr, instr_valid, frf, xrf, minstret>>

Init ==
  /\ program \in Programs /\ instr \in program /\ instr_valid = FALSE
  /\ frf = FReset
  /\ xrf = [r \in Regs |-> Zero]
  /\ minstret = 0

\* What the instruction fetch may put into the ID stage.
Fetch ==
  /\ program' = program
  /\ \/ /\ instr_valid' = FALSE /\ instr' = instr
     \/ /\ instr_valid' = TRUE
        /\ instr' \in program
        /\ instr_valid => <<instr.op, instr'.op>> \in Adjacent

\* The effect of instruction i on the register files. What a load brings and
\* what an integer instruction computes is arbitrary here.
Effect(i) ==
  \/ /\ i.op \in UnitOps
     /\ frf' = Write(frf, i.rd, UnitResult(i, frf, xrf)) /\ xrf' = xrf
  \/ /\ i.op = "FADD"
     /\ frf' = Write(frf, i.rd, Add(frf[i.rs1], frf[i.rs2])) /\ xrf' = xrf
  \/ /\ i.op = "INT"
     /\ \E v \in Values : xrf' = Write(xrf, i.rd, v)
     /\ frf' = frf
  \/ /\ i.op = "FLW"
     /\ \E v \in Values : frf' = Write(frf, i.rd, v)
     /\ xrf' = xrf
  \/ /\ i.op = "FSW"
     /\ frf' = frf /\ xrf' = xrf

Arrive ==
  /\ ~instr_valid /\ Fetch
  /\ UNCHANGED <<frf, xrf, minstret>>

Execute ==
  /\ instr_valid /\ Effect(instr) /\ Fetch
  /\ minstret' = (minstret + 1) % MinstretSpan

Reset ==
  /\ instr_valid' = FALSE /\ UNCHANGED <<program, instr>>
  /\ frf' = FReset /\ xrf' = [r \in Regs |-> Zero] /\ minstret' = 0

Next == Arrive \/ Execute \/ Reset

Spec     == Init /\ [][Next]_vars
FairSpec == Spec /\ WF_vars(Execute)
================================================================================
