-------------------------------- MODULE FpInstr --------------------------------
(***************************************************************************)
(* The floating-point instructions that the execution model distinguishes, *)
(* by how the pipeline treats them, and what each one computes.            *)
(***************************************************************************)
EXTENDS Integers

CONSTANTS
  Regs,          \* register numbers, of both register files
  RegZero,       \* register 0: reads as Zero, writes are ignored
  Values, Zero,  \* register contents, and the content of register 0
  PowerUp,       \* what an unreset register may hold after power-up
  FReset,        \* the floating-point register file after reset
  Programs,      \* the programs, each the set of the instructions it is made of
  Adjacent,      \* the pairs <<op1, op2>> such that op2 may enter the ID
                 \* stage at the clock edge that op1 leaves it
  MinstretSpan,  \* the retired-instruction counter counts modulo this number
  Div(_, _),     \* the quotient ibex_float_divider computes
  Add(_, _),     \* the sum the combinational FPU computes
  Cvt(_)         \* the float ibex_int2float computes

\* Instruction classes. "FADD" stands for the single-cycle FPU operations, "INT"
\* for the integer instructions that take one cycle.
UnitOps   == {"FDIV", "FADDDIV", "FCVT"}
MemOps    == {"FLW", "FSW"}
SingleOps == {"FADD", "INT"}
Ops       == UnitOps \cup MemOps \cup SingleOps

Instr == [op : Ops, rd : Regs, rs1 : Regs, rs2 : Regs, rs3 : Regs]

ASSUME InstrAssumption ==
  /\ RegZero \in Regs /\ Zero \in Values /\ PowerUp \subseteq Values
  /\ FReset \in [Regs -> Values] /\ FReset[RegZero] = Zero
  /\ Programs # {} /\ \A p \in Programs : p # {} /\ p \subseteq Instr
  /\ Adjacent \subseteq Ops \X Ops
  /\ MinstretSpan \in Nat \ {0, 1}
  /\ \A x, y \in Values : Div(x, y) \in Values /\ Add(x, y) \in Values
  /\ \A x \in Values : Cvt(x) \in Values

\* A register file after a write to register r.
Write(rf, r, v) == IF r = RegZero THEN rf ELSE [rf EXCEPT ![r] = v]

\* The value a unit instruction i owes to its destination, from the floating-
\* point registers f and the integer registers x.
UnitResult(i, f, x) ==
  CASE i.op = "FDIV"    -> Div(f[i.rs1], f[i.rs2])
    [] i.op = "FADDDIV" -> Div(Add(f[i.rs1], f[i.rs2]), f[i.rs3])
    [] i.op = "FCVT"    -> Cvt(x[i.rs1])
================================================================================
