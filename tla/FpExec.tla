-------------------------------- MODULE FpExec ---------------------------------
(***************************************************************************)
(* Execution of the floating-point extension in the ID/EX stage, clock     *)
(* cycle by clock cycle: the ID-stage state machine (two-stage pipeline,   *)
(* WritebackStage = 0), the two dividers and the integer-to-float          *)
(* converter of the EX block, and the write to the register file.          *)
(*                                                                         *)
(* Both dividers listen to the one enable fdiv_en; ex_valid listens to the *)
(* unit that the instruction in ID selects, and nothing resets a unit when *)
(* an instruction leaves.                                                  *)
(***************************************************************************)
EXTENDS FpInstr

CONSTANTS
  DivCycles,     \* the numbers of cycles a divider may work
  CvtCycles      \* the numbers of cycles the converter may work

ASSUME CyclesAssumption ==
  /\ DivCycles # {} /\ DivCycles \subseteq Nat \ {0}
  /\ CvtCycles # {} /\ CvtCycles \subseteq Nat \ {0}

VARIABLES
  program,       \* the program loaded
  instr,         \* instr_rdata_id: the instruction in the ID stage
  instr_valid,   \* instr_valid_id: FALSE is a bubble
  id_fsm,        \* id_fsm_q
  i0, i1,        \* fdivider_i0 (FDIV) and fdivider_i1 (FADDDIV)
  cvt,           \* int2float_i
  frf, xrf,      \* the floating-point and the integer register file
  minstret       \* the retired-instruction counter

vars == <<program, instr, instr_valid, id_fsm, i0, i1, cvt, frf, xrf, minstret>>

Div0 == INSTANCE DividerUnit WITH u <- i0, WorkCycles <- DivCycles
Div1 == INSTANCE DividerUnit WITH u <- i1, WorkCycles <- DivCycles
Conv == INSTANCE ConverterUnit WITH u <- cvt, Words <- Values, WorkCycles <- CvtCycles
Arch == INSTANCE FpIsa

TypeOK ==
  /\ program \in Programs /\ instr \in program /\ instr_valid \in BOOLEAN
  /\ id_fsm \in {"FIRST_CYCLE", "MULTI_CYCLE"}
  /\ i0 \in Div0!UnitType /\ i1 \in Div1!UnitType /\ cvt \in Conv!UnitType
  /\ frf \in [Regs -> Values] /\ xrf \in [Regs -> Values]
  /\ minstret \in 0 .. MinstretSpan - 1

Init ==
  /\ Arch!Init
  /\ id_fsm = "FIRST_CYCLE"
  /\ Div0!Init /\ Div1!Init /\ Conv!Init

--------------------------------------------------------------------------------
(* The combinational paths from the ID stage to the units and back.        *)

\* Broken: the operand-A multiplexer lacks the float select of FDIV.
OperandAOfFdivIsInteger == IF instr.op \in {"FADDDIV", "FADD"}
                             THEN frf[instr.rs1] ELSE xrf[instr.rs1]

\* Operands, as the multiplexers of the ID stage select them: floating-point
\* registers where the instruction names them, integer registers by default.
OperandA == IF instr.op \in {"FDIV", "FADDDIV", "FADD"}
              THEN frf[instr.rs1] ELSE xrf[instr.rs1]
OperandB == IF instr.op \in {"FDIV", "FADDDIV", "FADD", "FCVT"}
              THEN frf[instr.rs2] ELSE xrf[instr.rs2]
OperandC == IF instr.op = "FADDDIV" THEN frf[instr.rs3] ELSE xrf[instr.rs3]

\* The ALU's result multiplexer: the FPU's sum, and 0 for the multi-cycle
\* operators, which are none of its cases.
AluResult == IF instr.op \in {"FADDDIV", "FADD"} THEN Add(OperandA, OperandB) ELSE Zero

FdivEn    == instr_valid /\ instr.op \in {"FDIV", "FADDDIV"}
ConvertEn == instr_valid /\ instr.op = "FCVT"

\* arithmetic_sel: the unit ex_valid and result_ex come from.
ExValid == \/ instr.op = "FDIV" /\ i0.valid
           \/ instr.op = "FADDDIV" /\ i1.valid
           \/ instr.op = "FCVT" /\ cvt.valid

ResultEx == CASE instr.op = "FDIV"    -> i0.out
              [] instr.op = "FADDDIV" -> i1.out
              [] instr.op = "FCVT"    -> cvt.out

--------------------------------------------------------------------------------
(* One clock edge: every unit takes its step, and the ID stage one of the  *)
(* steps below.                                                            *)

Units ==
  /\ Div0!Step(FdivEn, OperandA, OperandB)
  /\ Div1!Step(FdivEn, AluResult, OperandC)
  /\ Conv!Step(ConvertEn, OperandA)

\* No valid instruction: only the fetch stage may bring one.
Bubble ==
  /\ Arch!Arrive
  /\ UNCHANGED id_fsm

\* The instruction may complete in this cycle. (A load or a store completes by
\* the bus's answer instead: see RetireMem.)
Completes == instr.op \in SingleOps \/ (instr.op \in UnitOps /\ ExValid)

\* Broken: an instruction is counted when it stalls, and again when it retires.
FirstCycleCounts ==
  /\ instr_valid /\ id_fsm = "FIRST_CYCLE"
  /\ ~Completes
  /\ id_fsm' = "MULTI_CYCLE"
  /\ minstret' = (minstret + 1) % MinstretSpan
  /\ UNCHANGED <<program, instr, instr_valid, frf, xrf>>

\* The first cycle of an instruction that does not complete in it. A load or a
\* store never does; a unit operation does if ex_valid is already high.
FirstCycle ==
  /\ instr_valid /\ id_fsm = "FIRST_CYCLE"
  /\ ~Completes
  /\ id_fsm' = "MULTI_CYCLE"
  /\ UNCHANGED <<program, instr, instr_valid, frf, xrf, minstret>>

\* Waiting for the unit, or for lsu_resp_valid.
MultiCycle ==
  /\ instr_valid /\ id_fsm = "MULTI_CYCLE"
  /\ ~Completes
  /\ UNCHANGED <<id_fsm, program, instr, instr_valid, frf, xrf, minstret>>

\* Broken: the counter has no width; the state machine stays in MULTI_CYCLE.
RetireUncapped ==
  /\ id_fsm' = "FIRST_CYCLE"
  /\ minstret' = minstret + 1
  /\ Arch!Fetch

RetireStaysMultiCycle ==
  /\ id_fsm' = id_fsm
  /\ minstret' = (minstret + 1) % MinstretSpan
  /\ Arch!Fetch

\* What every completing instruction does besides its write.
Retire ==
  /\ id_fsm' = "FIRST_CYCLE"
  /\ minstret' = (minstret + 1) % MinstretSpan
  /\ Arch!Fetch

RetireUnit ==
  /\ instr_valid /\ instr.op \in UnitOps /\ ExValid
  /\ frf' = Write(frf, instr.rd, ResultEx)
  /\ xrf' = xrf
  /\ Retire

RetireFAdd ==
  /\ instr_valid /\ id_fsm = "FIRST_CYCLE" /\ instr.op = "FADD"
  /\ frf' = Write(frf, instr.rd, AluResult)
  /\ xrf' = xrf
  /\ Retire

RetireInt ==
  /\ instr_valid /\ id_fsm = "FIRST_CYCLE" /\ instr.op = "INT"
  /\ \E v \in Values : xrf' = Write(xrf, instr.rd, v)
  /\ frf' = frf
  /\ Retire

\* lsu_resp_valid is high: the data bus answered.
RetireMem ==
  /\ instr_valid /\ id_fsm = "MULTI_CYCLE" /\ instr.op \in MemOps
  /\ IF instr.op = "FLW"
       THEN \E v \in Values : frf' = Write(frf, instr.rd, v)
       ELSE frf' = frf
  /\ xrf' = xrf
  /\ Retire

Clock ==
  /\ Units
  /\ \/ Bubble \/ FirstCycle \/ MultiCycle
     \/ RetireUnit \/ RetireFAdd \/ RetireInt \/ RetireMem

\* The asynchronous reset of the core.
Reset ==
  /\ Div0!Reset(FdivEn, OperandA, OperandB)
  /\ Div1!Reset(FdivEn, AluResult, OperandC)
  /\ Conv!Reset(ConvertEn, OperandA)
  /\ id_fsm' = "FIRST_CYCLE"
  /\ Arch!Reset

Next == Clock \/ Reset

Spec == Init /\ [][Next]_vars

\* The clock runs, and the data bus answers every load and store in the end.
Fairness == WF_vars(Clock) /\ SF_vars(Units /\ RetireMem)

FairSpec == Spec /\ Fairness

--------------------------------------------------------------------------------
(* Why the units serve a program of the right order: the inductive         *)
(* invariant of the proofs.                                                *)

Uses(op) == \E i \in program : i.op = op

\* The ID stage waits for the unit of op.
Waits(op) == instr_valid /\ id_fsm = "MULTI_CYCLE" /\ instr.op = op

\* The selected divider and the converter never hold anything but the work of
\* the instruction in the ID stage. (The divider that no instruction of the
\* program selects runs too, and is not spoken of.)
UnitsServe ==
  /\ Uses("FDIV") =>
       Div0!Serves(i0, Waits("FDIV"), frf[instr.rs1], frf[instr.rs2])
  /\ Uses("FADDDIV") =>
       Div1!Serves(i1, Waits("FADDDIV"),
                   Add(frf[instr.rs1], frf[instr.rs2]), frf[instr.rs3])
  /\ Conv!Serves(cvt, Waits("FCVT"), ConvertEn, xrf[instr.rs1])

--------------------------------------------------------------------------------
(* Properties                                                              *)

\* The order of instructions the units can cope with: no program uses both
\* dividers, and no two conversions follow each other in consecutive cycles.
SafeProgram ==
  /\ \A p \in Programs : \A i, j \in p : ~(i.op = "FDIV" /\ j.op = "FADDDIV")
  /\ <<"FCVT", "FCVT">> \notin Adjacent

\* ibex_ex_block raises ex_valid_o for a divide or a conversion only when the
\* result it shows is that of the instruction now in the ID stage, computed
\* from its own operands, not what a unit still holds from an earlier one.
ExValidIsOwn ==
  instr_valid /\ instr.op \in UnitOps /\ ExValid
    => ResultEx = UnitResult(instr, frf, xrf)

\* The pipeline executes every instruction exactly once and with the effect the
\* instruction set gives it: the clocked ID/EX stage implements FpIsa.
ImplementsIsa == Arch!Spec

\* The same with progress: under a running clock and an answering data bus,
\* every instruction that enters the ID stage leaves it.
ImplementsFairIsa == Arch!FairSpec
================================================================================
