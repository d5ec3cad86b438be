------------------------------- MODULE MCFpExec --------------------------------
(***************************************************************************)
(* FpExec on a small instance: two values, two floating-point registers    *)
(* besides f0, and "arithmetic" that tells every operand and operator      *)
(* apart.                                                                  *)
(***************************************************************************)
EXTENDS FpExec

MCValues    == {0, 1}
MCPowerUp   == {1}
MCDiv(x, y) == x * (1 - y)
MCAdd(x, y) == (x + y) % 2
MCCvt(x)    == 1 - x

MCRegs   == 0 .. 2
MCFReset == [r \in MCRegs |-> r % 2]

I(op, rd, rs1, rs2, rs3) == [op |-> op, rd |-> rd, rs1 |-> rs1, rs2 |-> rs2, rs3 |-> rs3]

\* Programs: the destination is also a source, so that a second execution or a
\* late operand would show; MCFdiv and MCFadddiv keep to SafeProgram, MCMixed
\* uses both dividers.
MCFdiv    == {I("FDIV", 1, 1, 2, 0), I("FDIV", 2, 1, 2, 0), I("FCVT", 2, 1, 0, 0),
              I("INT", 1, 0, 0, 0)}
MCFadddiv == {I("FADDDIV", 1, 1, 2, 2), I("FCVT", 2, 1, 0, 0), I("FADD", 2, 1, 2, 0),
              I("FLW", 1, 0, 0, 0), I("FSW", 0, 1, 2, 0)}
MCMixed   == {I("FDIV", 1, 1, 2, 0), I("FADDDIV", 2, 1, 2, 1), I("FLW", 1, 0, 0, 0)}
MCConvert == {I("FCVT", 1, 1, 0, 0), I("FCVT", 2, 2, 0, 0), I("INT", 1, 0, 0, 0)}

MCSafePrograms    == {MCFdiv, MCFadddiv}
MCMixedPrograms   == {MCMixed}
MCConvertPrograms == {MCConvert}

\* Every succession of instructions; and all but two conversions in a row.
AnyOrder  == Ops \X Ops
SafeOrder == AnyOrder \ {<<"FCVT", "FCVT">>}
================================================================================
