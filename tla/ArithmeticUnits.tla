---------------------------- MODULE ArithmeticUnits ----------------------------
(***************************************************************************)
(* The three floating-point units, one looked at at a time: the sequential *)
(* divider and the converter, each under its clients, and the combination- *)
(* al unit under any operation. The units not looked at stay in their      *)
(* initial state.                                                          *)
(***************************************************************************)
EXTENDS FloatDivider, Fpu

CONSTANTS
  W, PowerUpWords,      \* the converter's
  FpuInputs             \* the operations with their operands

VARIABLES unit, c, cvtHolds, cvtX

Cvt == INSTANCE Int2Float WITH holds <- cvtHolds, x <- cvtX

ASSUME UnitsAssumption == Cvt!ConverterAssumption
\* The operations asked of the combinational unit are its own, on floats.
ASSUME InputsAssumption == FpuInputs \subseteq [op : FpuOps, a : Float, b : Float, c : Float]

divVars == <<d, holds, x, y, events>>
cvtVars == <<c, cvtHolds, cvtX>>
fpuVars == <<in, out>>
vars    == <<unit, divVars, cvtVars, fpuVars>>

UnitsInit ==
  /\ unit \in {"divider", "int2float", "fpu"}
  /\ IF unit = "divider" THEN ClientInit ELSE Quiet
  /\ IF unit = "int2float" THEN Cvt!ClientInit ELSE Cvt!Quiet
  /\ in \in (IF unit = "fpu" THEN FpuInputs ELSE {Standby})
  /\ out = NoResult

DividerHolds    == unit = "divider" /\ Hold /\ UNCHANGED <<unit, cvtVars, fpuVars>>
DividerChanges  == unit = "divider" /\ Change /\ UNCHANGED <<unit, cvtVars, fpuVars>>
ConverterHolds  == unit = "int2float" /\ Cvt!Hold /\ UNCHANGED <<unit, divVars, fpuVars>>
ConverterChanges == unit = "int2float" /\ Cvt!Change /\ UNCHANGED <<unit, divVars, fpuVars>>
FpuComputes     == unit = "fpu" /\ Execute /\ UNCHANGED <<unit, divVars, cvtVars>>

UnitsNext ==
  DividerHolds \/ DividerChanges \/ ConverterHolds \/ ConverterChanges \/ FpuComputes

\* The clock of the sequential units runs.
UnitsSpec ==
  UnitsInit /\ [][UnitsNext]_vars /\ WF_vars(DividerHolds) /\ WF_vars(ConverterHolds)

--------------------------------------------------------------------------------
\* Every register of the units stays within its width.
UnitsTypeOK == TypeOK /\ Cvt!TypeOK /\ FpuTypeOK

\* A result that a patient client is shown is that of its own operands, rounded:
\* the quotient (ibex_float_divider.sv) or the integer (ibex_int2float.sv).
ResultsAreRounded == EveryResultIsRounded /\ Cvt!EveryResultIsRounded

\* A client of the divider or the converter that keeps its request is answered,
\* again and again: nothing sends their loops round for ever.
RequestsAreAnswered == AnswersForEver /\ Cvt!AnswersForEver

\* Divider and converter implement the units the core's model is built from,
\* whatever their clients do meanwhile.
UnitsImplemented == ImplementsUnit /\ Cvt!ImplementsUnit

\* Long division and shifting lose nothing on their way.
LoopsKeepTheValue == DivisionInvariant /\ Cvt!ShiftInvariant
================================================================================
