----------------------------- MODULE FpExec_proofs -----------------------------
(***************************************************************************)
(* Proofs about FpExec, for all register files, values, arithmetic and     *)
(* latencies: type correctness, and for programs that satisfy SafeProgram  *)
(* the service invariant, the validity of ex_valid and the implementation  *)
(* of the instruction-set view.                                            *)
(***************************************************************************)
EXTENDS FpExec, TLAPS

--------------------------------------------------------------------------------
(* One clock edge of each unit: its types, and the service of its client.  *)

\* A clock edge and a reset keep the types of a divider. While its client waits
\* with stable operands it keeps serving it; a client may leave, or be replaced,
\* in the cycle that valid is raised. wn, xn and yn describe the client after the
\* edge. A reset divider serves any client.
LEMMA Divider0 ==
  ASSUME NEW en \in BOOLEAN, NEW x \in Values, NEW y \in Values, i0 \in Div0!UnitType
  PROVE  /\ Div0!Step(en, x, y) \/ Div0!Reset(en, x, y) => i0' \in Div0!UnitType
         /\ \A w, wn \in BOOLEAN, xn, yn \in Values :
              /\ Div0!Step(en, x, y) /\ Div0!Serves(i0, w, x, y)
              /\ (w \/ en) /\ ~i0.valid => wn /\ xn = x /\ yn = y
              => Div0!Serves(i0', wn, xn, yn)
         /\ \A wn \in BOOLEAN, xn, yn \in Values :
              Div0!Reset(en, x, y) => Div0!Serves(i0', wn, xn, yn)
  <1> USE DEF Div0!UnitType, Div0!UnitStates
  <1>1. ASSUME Div0!Step(en, x, y) \/ Div0!Reset(en, x, y)  PROVE i0' \in Div0!UnitType
    <2>1. CASE Div0!GetA(en, x)
      BY <2>1 DEF Div0!GetA
    <2>2. CASE Div0!GetB(y)
      BY <2>2 DEF Div0!GetB
    <2>3. CASE Div0!Work
      BY <2>3, CyclesAssumption DEF Div0!Work
    <2>4. CASE Div0!Finish
      BY <2>4, InstrAssumption DEF Div0!Finish
    <2>5. CASE Div0!PutZ /\ i0.stb
      BY <2>5 DEF Div0!PutZ
    <2>6. CASE Div0!PutZ /\ ~i0.stb
      BY <2>6 DEF Div0!PutZ
    <2>7. CASE Div0!Reset(en, x, y)
      <3> DEFINE na == Div0!TakenA(en, x)
      <3> DEFINE nb == Div0!TakenB(y)
      <3> DEFINE no == IF i0.st = "put_z" THEN i0.z ELSE i0.out
      <3>1. PICK nz \in IF i0.st = "work" THEN {i0.z, Div(i0.a, i0.b)} ELSE {i0.z} :
              i0' = [i0 EXCEPT !.st = "get_a", !.ack_a = FALSE, !.ack_b = FALSE,
                               !.stb = FALSE, !.valid = FALSE, !.age = 0,
                               !.a = na, !.b = nb, !.z = nz, !.out = no]
        BY <2>7 DEF Div0!Reset, Div0!ResetWith
      <3>2. na \in Values /\ nb \in Values /\ nz \in Values /\ no \in Values
        BY InstrAssumption DEF Div0!TakenA, Div0!TakenB
      <3> HIDE DEF na, nb, no
      <3>3. QED
        BY <3>1, <3>2
    <2>8. QED
      BY <1>1, <2>1, <2>2, <2>3, <2>4, <2>5, <2>6, <2>7 DEF Div0!Step, Div0!PutZ
  <1>2. ASSUME NEW w \in BOOLEAN, NEW wn \in BOOLEAN, NEW xn \in Values, NEW yn \in Values,
               Div0!Step(en, x, y), Div0!Serves(i0, w, x, y),
               (w \/ en) /\ ~i0.valid => wn /\ xn = x /\ yn = y
        PROVE  Div0!Serves(i0', wn, xn, yn)
    <2> USE DEF Div0!Serves
    <2>1. CASE Div0!GetA(en, x) /\ i0.ack_a /\ en
      BY <1>2, <2>1 DEF Div0!GetA
    <2>2. CASE Div0!GetA(en, x) /\ ~(i0.ack_a /\ en)
      BY <1>2, <2>2 DEF Div0!GetA
    <2>3. CASE Div0!GetB(y) /\ i0.ack_b
      BY <1>2, <2>3 DEF Div0!GetB
    <2>4. CASE Div0!GetB(y) /\ ~i0.ack_b
      BY <1>2, <2>4 DEF Div0!GetB
    <2>5. CASE Div0!Work
      BY <1>2, <2>5 DEF Div0!Work
    <2>6. CASE Div0!Finish
      BY <1>2, <2>6 DEF Div0!Finish
    <2>7. CASE Div0!PutZ /\ i0.stb
      BY <1>2, <2>7 DEF Div0!PutZ
    <2>8. CASE Div0!PutZ /\ ~i0.stb
      BY <1>2, <2>8 DEF Div0!PutZ
    <2>9. QED
      BY <1>2, <2>1, <2>2, <2>3, <2>4, <2>5, <2>6, <2>7, <2>8 DEF Div0!Step
  <1>3. ASSUME NEW wn \in BOOLEAN, NEW xn \in Values, NEW yn \in Values, Div0!Reset(en, x, y)
        PROVE  Div0!Serves(i0', wn, xn, yn)
    <2>1. i0'.st = "get_a" /\ i0'.valid = FALSE /\ i0'.stb = FALSE
      BY <1>3 DEF Div0!Reset, Div0!ResetWith
    <2>2. QED
      BY <2>1 DEF Div0!Serves
  <1>4. QED
    BY <1>1, <1>2, <1>3

\* The same for the other divider.
LEMMA Divider1 ==
  ASSUME NEW en \in BOOLEAN, NEW x \in Values, NEW y \in Values, i1 \in Div1!UnitType
  PROVE  /\ Div1!Step(en, x, y) \/ Div1!Reset(en, x, y) => i1' \in Div1!UnitType
         /\ \A w, wn \in BOOLEAN, xn, yn \in Values :
              /\ Div1!Step(en, x, y) /\ Div1!Serves(i1, w, x, y)
              /\ (w \/ en) /\ ~i1.valid => wn /\ xn = x /\ yn = y
              => Div1!Serves(i1', wn, xn, yn)
         /\ \A wn \in BOOLEAN, xn, yn \in Values :
              Div1!Reset(en, x, y) => Div1!Serves(i1', wn, xn, yn)
  <1> USE DEF Div1!UnitType, Div1!UnitStates
  <1>1. ASSUME Div1!Step(en, x, y) \/ Div1!Reset(en, x, y)  PROVE i1' \in Div1!UnitType
    <2>1. CASE Div1!GetA(en, x)
      BY <2>1 DEF Div1!GetA
    <2>2. CASE Div1!GetB(y)
      BY <2>2 DEF Div1!GetB
    <2>3. CASE Div1!Work
      BY <2>3, CyclesAssumption DEF Div1!Work
    <2>4. CASE Div1!Finish
      BY <2>4, InstrAssumption DEF Div1!Finish
    <2>5. CASE Div1!PutZ /\ i1.stb
      BY <2>5 DEF Div1!PutZ
    <2>6. CASE Div1!PutZ /\ ~i1.stb
      BY <2>6 DEF Div1!PutZ
    <2>7. CASE Div1!Reset(en, x, y)
      <3> DEFINE na == Div1!TakenA(en, x)
      <3> DEFINE nb == Div1!TakenB(y)
      <3> DEFINE no == IF i1.st = "put_z" THEN i1.z ELSE i1.out
      <3>1. PICK nz \in IF i1.st = "work" THEN {i1.z, Div(i1.a, i1.b)} ELSE {i1.z} :
              i1' = [i1 EXCEPT !.st = "get_a", !.ack_a = FALSE, !.ack_b = FALSE,
                               !.stb = FALSE, !.valid = FALSE, !.age = 0,
                               !.a = na, !.b = nb, !.z = nz, !.out = no]
        BY <2>7 DEF Div1!Reset, Div1!ResetWith
      <3>2. na \in Values /\ nb \in Values /\ nz \in Values /\ no \in Values
        BY InstrAssumption DEF Div1!TakenA, Div1!TakenB
      <3> HIDE DEF na, nb, no
      <3>3. QED
        BY <3>1, <3>2
    <2>8. QED
      BY <1>1, <2>1, <2>2, <2>3, <2>4, <2>5, <2>6, <2>7 DEF Div1!Step, Div1!PutZ
  <1>2. ASSUME NEW w \in BOOLEAN, NEW wn \in BOOLEAN, NEW xn \in Values, NEW yn \in Values,
               Div1!Step(en, x, y), Div1!Serves(i1, w, x, y),
               (w \/ en) /\ ~i1.valid => wn /\ xn = x /\ yn = y
        PROVE  Div1!Serves(i1', wn, xn, yn)
    <2> USE DEF Div1!Serves
    <2>1. CASE Div1!GetA(en, x) /\ i1.ack_a /\ en
      BY <1>2, <2>1 DEF Div1!GetA
    <2>2. CASE Div1!GetA(en, x) /\ ~(i1.ack_a /\ en)
      BY <1>2, <2>2 DEF Div1!GetA
    <2>3. CASE Div1!GetB(y) /\ i1.ack_b
      BY <1>2, <2>3 DEF Div1!GetB
    <2>4. CASE Div1!GetB(y) /\ ~i1.ack_b
      BY <1>2, <2>4 DEF Div1!GetB
    <2>5. CASE Div1!Work
      BY <1>2, <2>5 DEF Div1!Work
    <2>6. CASE Div1!Finish
      BY <1>2, <2>6 DEF Div1!Finish
    <2>7. CASE Div1!PutZ /\ i1.stb
      BY <1>2, <2>7 DEF Div1!PutZ
    <2>8. CASE Div1!PutZ /\ ~i1.stb
      BY <1>2, <2>8 DEF Div1!PutZ
    <2>9. QED
      BY <1>2, <2>1, <2>2, <2>3, <2>4, <2>5, <2>6, <2>7, <2>8 DEF Div1!Step
  <1>3. ASSUME NEW wn \in BOOLEAN, NEW xn \in Values, NEW yn \in Values, Div1!Reset(en, x, y)
        PROVE  Div1!Serves(i1', wn, xn, yn)
    <2>1. i1'.st = "get_a" /\ i1'.valid = FALSE /\ i1'.stb = FALSE
      BY <1>3 DEF Div1!Reset, Div1!ResetWith
    <2>2. QED
      BY <2>1 DEF Div1!Serves
  <1>4. QED
    BY <1>1, <1>2, <1>3

\* The same for the converter: its client may leave in the second of the cycles
\* that valid is high, and the next one may not be present in the third.
LEMMA Converter ==
  ASSUME NEW p \in BOOLEAN, NEW x \in Values, cvt \in Conv!UnitType
  PROVE  /\ Conv!Step(p, x) \/ Conv!Reset(p, x) => cvt' \in Conv!UnitType
         /\ \A w, wn, pn \in BOOLEAN, xn \in Values :
              /\ Conv!Step(p, x) /\ Conv!Serves(cvt, w, p, x)
              /\ w => p
              /\ p /\ ~cvt.valid => wn /\ xn = x
              /\ p /\ cvt.valid => ~pn
              => Conv!Serves(cvt', wn, pn, xn)
         /\ \A wn, pn \in BOOLEAN, xn \in Values :
              Conv!Reset(p, x) => Conv!Serves(cvt', wn, pn, xn)
  <1> USE DEF Conv!UnitType, Conv!UnitStates
  <1>1. ASSUME Conv!Step(p, x) \/ Conv!Reset(p, x)  PROVE cvt' \in Conv!UnitType
    <2>1. CASE Conv!GetA(p, x)
      BY <2>1 DEF Conv!GetA
    <2>2. CASE Conv!Work
      BY <2>2, CyclesAssumption DEF Conv!Work
    <2>3. CASE Conv!Finish
      BY <2>3, InstrAssumption DEF Conv!Finish
    <2>4. CASE Conv!PutZ /\ cvt.stb
      BY <2>4 DEF Conv!PutZ
    <2>5. CASE Conv!PutZ /\ ~cvt.stb
      BY <2>5 DEF Conv!PutZ
    <2>6. CASE Conv!Reset(p, x)
      <3> DEFINE na == Conv!TakenA(p, x)
      <3> DEFINE no == IF cvt.st = "put_z" THEN cvt.z ELSE cvt.out
      <3>1. PICK nz \in IF cvt.st = "work" THEN {cvt.z, Cvt(cvt.a)} ELSE {cvt.z} :
              cvt' = [cvt EXCEPT !.st = "get_a", !.ack_a = FALSE, !.stb = FALSE,
                                 !.valid = FALSE, !.age = 0,
                                 !.a = na, !.z = nz, !.out = no]
        BY <2>6 DEF Conv!Reset, Conv!ResetWith
      <3>2. na \in Values /\ nz \in Values /\ no \in Values
        BY InstrAssumption DEF Conv!TakenA
      <3> HIDE DEF na, no
      <3>3. QED
        BY <3>1, <3>2
    <2>7. QED
      BY <1>1, <2>1, <2>2, <2>3, <2>4, <2>5, <2>6 DEF Conv!Step, Conv!PutZ
  <1>2. ASSUME NEW w \in BOOLEAN, NEW wn \in BOOLEAN, NEW pn \in BOOLEAN, NEW xn \in Values,
               Conv!Step(p, x), Conv!Serves(cvt, w, p, x),
               w => p,
               p /\ ~cvt.valid => wn /\ xn = x,
               p /\ cvt.valid => ~pn
        PROVE  Conv!Serves(cvt', wn, pn, xn)
    <2> USE DEF Conv!Serves
    <2>1. CASE Conv!GetA(p, x) /\ cvt.ack_a /\ p
      BY <1>2, <2>1 DEF Conv!GetA
    <2>2. CASE Conv!GetA(p, x) /\ ~(cvt.ack_a /\ p)
      BY <1>2, <2>2 DEF Conv!GetA
    <2>3. CASE Conv!Work
      BY <1>2, <2>3 DEF Conv!Work
    <2>4. CASE Conv!Finish
      BY <1>2, <2>4 DEF Conv!Finish
    <2>5. CASE Conv!PutZ /\ cvt.stb
      BY <1>2, <2>5 DEF Conv!PutZ
    <2>6. CASE Conv!PutZ /\ ~cvt.stb
      BY <1>2, <2>6 DEF Conv!PutZ
    <2>7. QED
      BY <1>2, <2>1, <2>2, <2>3, <2>4, <2>5, <2>6 DEF Conv!Step
  <1>3. ASSUME NEW wn \in BOOLEAN, NEW pn \in BOOLEAN, NEW xn \in Values, Conv!Reset(p, x)
        PROVE  Conv!Serves(cvt', wn, pn, xn)
    <2>1. cvt'.st = "get_a" /\ cvt'.valid = FALSE /\ cvt'.stb = FALSE
      BY <1>3 DEF Conv!Reset, Conv!ResetWith
    <2>2. QED
      BY <2>1 DEF Conv!Serves
  <1>4. QED
    BY <1>1, <1>2, <1>3

--------------------------------------------------------------------------------
(* Type correctness                                                        *)

\* A register write keeps the type of the file.
LEMMA WriteType ==
  ASSUME NEW rf \in [Regs -> Values], NEW r \in Regs, NEW v \in Values
  PROVE  Write(rf, r, v) \in [Regs -> Values]
  BY DEF Write

\* What the ID stage hands to the units has its type.
LEMMA OperandTypes ==
  ASSUME TypeOK
  PROVE  /\ instr \in Instr
         /\ OperandA \in Values /\ OperandB \in Values /\ OperandC \in Values
         /\ AluResult \in Values
         /\ FdivEn \in BOOLEAN /\ ConvertEn \in BOOLEAN
  <1>1. instr \in Instr
    BY InstrAssumption DEF TypeOK
  <1>2. /\ OperandA \in Values /\ OperandB \in Values /\ OperandC \in Values
    BY <1>1 DEF TypeOK, Instr, OperandA, OperandB, OperandC
  <1>3. AluResult \in Values
    BY <1>2, InstrAssumption DEF AluResult
  <1>4. FdivEn \in BOOLEAN /\ ConvertEn \in BOOLEAN
    BY DEF FdivEn, ConvertEn, TypeOK
  <1>5. QED
    BY <1>1, <1>2, <1>3, <1>4

\* The three units keep their types, in a clock cycle and in a reset.
LEMMA UnitTypes ==
  ASSUME TypeOK, Clock \/ Reset
  PROVE  i0' \in Div0!UnitType /\ i1' \in Div1!UnitType /\ cvt' \in Conv!UnitType
  <1>1. /\ Div0!Step(FdivEn, OperandA, OperandB) \/ Div0!Reset(FdivEn, OperandA, OperandB)
        /\ Div1!Step(FdivEn, AluResult, OperandC) \/ Div1!Reset(FdivEn, AluResult, OperandC)
        /\ Conv!Step(ConvertEn, OperandA) \/ Conv!Reset(ConvertEn, OperandA)
    BY DEF Clock, Units, Reset
  <1>2. i0 \in Div0!UnitType /\ i1 \in Div1!UnitType /\ cvt \in Conv!UnitType
    BY DEF TypeOK
  <1>3. i0' \in Div0!UnitType
    BY <1>1, <1>2, OperandTypes, Divider0
  <1>4. i1' \in Div1!UnitType
    BY <1>1, <1>2, OperandTypes, Divider1
  <1>5. cvt' \in Conv!UnitType
    BY <1>1, <1>2, OperandTypes, Converter
  <1>6. QED
    BY <1>3, <1>4, <1>5

\* What a fetch and the retired-instruction counter leave behind.
LEMMA FetchType ==
  ASSUME TypeOK, Arch!Fetch
  PROVE  /\ program' = program /\ instr' \in program
         /\ instr_valid' \in BOOLEAN
  BY DEF TypeOK, Arch!Fetch

\* What a reset writes has its type.
LEMMA ResetTypes ==
  /\ FReset \in [Regs -> Values] /\ [r \in Regs |-> Zero] \in [Regs -> Values]
  /\ 0 \in 0 .. MinstretSpan - 1
  <1>1. Zero \in Values /\ FReset \in [Regs -> Values] /\ MinstretSpan \in Nat \ {0, 1}
    BY InstrAssumption
  <1>2. QED
    BY <1>1

\* The retired-instruction counter wraps inside its width.
LEMMA CounterType ==
  ASSUME TypeOK
  PROVE  (minstret + 1) % MinstretSpan \in 0 .. MinstretSpan - 1
  BY InstrAssumption DEF TypeOK

\* A result of a unit is a value, in the stage and in the architecture.
LEMMA ResultType ==
  ASSUME TypeOK, instr.op \in UnitOps
  PROVE  ResultEx \in Values /\ UnitResult(instr, frf, xrf) \in Values
  <1>1. instr \in Instr
    BY OperandTypes
  <1>2. /\ frf[instr.rs1] \in Values /\ frf[instr.rs2] \in Values
        /\ frf[instr.rs3] \in Values /\ xrf[instr.rs1] \in Values
    BY <1>1 DEF TypeOK, Instr
  <1>3. i0.out \in Values /\ i1.out \in Values /\ cvt.out \in Values
    BY DEF TypeOK, Div0!UnitType, Div1!UnitType, Conv!UnitType
  <1>4. ResultEx \in Values
    BY <1>3 DEF ResultEx, UnitOps
  <1>5. UnitResult(instr, frf, xrf) \in Values
    BY <1>2, InstrAssumption DEF UnitResult, UnitOps
  <1>6. QED
    BY <1>4, <1>5

\* The two register files, the state machine and the counter stay what they are:
\* every register and value the ID stage handles is one, for programs of any kind.
THEOREM TypeCorrect == Spec => []TypeOK
  <1>1. Init => TypeOK
    <2> SUFFICES ASSUME Init
                 PROVE  TypeOK
      OBVIOUS
    <2>1. /\ program \in Programs /\ instr \in program /\ instr_valid \in BOOLEAN
          /\ frf \in [Regs -> Values] /\ xrf \in [Regs -> Values]
          /\ minstret \in 0 .. MinstretSpan - 1
      BY ResetTypes, InstrAssumption DEF Init, Arch!Init
    <2>2. i0 \in Div0!UnitType
      BY InstrAssumption DEF Init, Div0!Init, Div0!UnitType, Div0!UnitStates
    <2>3. i1 \in Div1!UnitType
      BY InstrAssumption DEF Init, Div1!Init, Div1!UnitType, Div1!UnitStates
    <2>4. cvt \in Conv!UnitType
      BY InstrAssumption DEF Init, Conv!Init, Conv!UnitType, Conv!UnitStates
    <2>5. QED
      BY <2>1, <2>2, <2>3, <2>4 DEF Init, TypeOK
  <1>2. TypeOK /\ [Next]_vars => TypeOK'
    <2> SUFFICES ASSUME TypeOK, [Next]_vars
                 PROVE  TypeOK'
      OBVIOUS
    <2>1. CASE Units /\ Bubble
      <3>1. i0' \in Div0!UnitType /\ i1' \in Div1!UnitType /\ cvt' \in Conv!UnitType
        BY <2>1, UnitTypes DEF Clock
      <3>2. QED
        BY <2>1, <3>1, FetchType DEF Bubble, Arch!Arrive, TypeOK
    <2>2. CASE Units /\ (FirstCycle \/ MultiCycle)
      <3>1. i0' \in Div0!UnitType /\ i1' \in Div1!UnitType /\ cvt' \in Conv!UnitType
        BY <2>2, UnitTypes DEF Clock
      <3>2. QED
        BY <2>2, <3>1 DEF FirstCycle, MultiCycle, TypeOK
    <2>3. ASSUME Units /\ (RetireUnit \/ RetireFAdd \/ RetireInt \/ RetireMem)
          PROVE  TypeOK'
      <3>1. i0' \in Div0!UnitType /\ i1' \in Div1!UnitType /\ cvt' \in Conv!UnitType
        BY <2>3, UnitTypes DEF Clock
      <3>2. /\ program' = program /\ instr' \in program /\ instr_valid' \in BOOLEAN
            /\ id_fsm' \in {"FIRST_CYCLE", "MULTI_CYCLE"}
            /\ minstret' \in 0 .. MinstretSpan - 1
        BY <2>3, FetchType, CounterType
        DEF RetireUnit, RetireFAdd, RetireInt, RetireMem, Retire
      <3>3. instr.rd \in Regs
        BY OperandTypes DEF Instr
      <3>4. frf' \in [Regs -> Values] /\ xrf' \in [Regs -> Values]
        <4>1. frf \in [Regs -> Values] /\ xrf \in [Regs -> Values]
          BY DEF TypeOK
        <4>2. CASE RetireUnit
          BY <4>1, <4>2, <3>3, WriteType, ResultType DEF RetireUnit
        <4>3. CASE RetireFAdd
          BY <4>1, <4>3, <3>3, WriteType, OperandTypes DEF RetireFAdd
        <4>4. CASE RetireInt
          <5>1. PICK v \in Values : xrf' = Write(xrf, instr.rd, v)
            BY <4>4 DEF RetireInt
          <5>2. Write(xrf, instr.rd, v) \in [Regs -> Values]
            BY <4>1, <3>3, WriteType
          <5>3. QED
            BY <4>1, <4>4, <5>1, <5>2 DEF RetireInt
        <4>5. CASE RetireMem
          BY <4>1, <4>5, <3>3, WriteType DEF RetireMem
        <4>6. QED
          BY <2>3, <4>2, <4>3, <4>4, <4>5
      <3>5. QED
        BY <3>1, <3>2, <3>4 DEF TypeOK
    <2>4. CASE Reset
      <3>1. i0' \in Div0!UnitType /\ i1' \in Div1!UnitType /\ cvt' \in Conv!UnitType
        BY <2>4, UnitTypes
      <3>2. QED
        BY <2>4, <3>1, ResetTypes DEF Reset, Arch!Reset, TypeOK
    <2>5. CASE UNCHANGED vars
      BY <2>5 DEF vars, TypeOK
    <2>6. QED
      BY <2>1, <2>2, <2>3, <2>4, <2>5 DEF Next, Clock
  <1>3. QED
    BY <1>1, <1>2, PTL DEF Spec

--------------------------------------------------------------------------------
(* The service invariant                                                   *)

\* The operands of an instruction are register contents.
LEMMA SourceTypes ==
  ASSUME TypeOK
  PROVE  /\ frf[instr.rs1] \in Values /\ frf[instr.rs2] \in Values
         /\ frf[instr.rs3] \in Values /\ xrf[instr.rs1] \in Values
         /\ Add(frf[instr.rs1], frf[instr.rs2]) \in Values
  <1>1. /\ frf[instr.rs1] \in Values /\ frf[instr.rs2] \in Values
        /\ frf[instr.rs3] \in Values /\ xrf[instr.rs1] \in Values
    BY OperandTypes DEF TypeOK, Instr
  <1>2. QED
    BY <1>1, InstrAssumption

\* The sources of the next instruction are values.
LEMMA NextSourceTypes ==
  ASSUME TypeOK'
  PROVE  (/\ frf[instr.rs1] \in Values /\ frf[instr.rs2] \in Values
          /\ frf[instr.rs3] \in Values /\ xrf[instr.rs1] \in Values
          /\ Add(frf[instr.rs1], frf[instr.rs2]) \in Values)'
  <1>1. instr' \in Instr
    BY InstrAssumption DEF TypeOK
  <1>2. (/\ frf[instr.rs1] \in Values /\ frf[instr.rs2] \in Values
         /\ frf[instr.rs3] \in Values /\ xrf[instr.rs1] \in Values)'
    BY <1>1 DEF TypeOK, Instr
  <1>3. QED
    BY <1>2, InstrAssumption

\* No step loads another program.
LEMMA ProgramStays ==
  ASSUME Clock \/ Reset
  PROVE  program' = program
  BY DEF Clock, Reset, Arch!Reset, Bubble, Arch!Arrive, FirstCycle, MultiCycle, RetireUnit,
         RetireFAdd, RetireInt, RetireMem, Retire, Arch!Fetch

\* A unit instruction stays in ID with its operands until ex_valid.
LEMMA UnitInstrWaits ==
  ASSUME Clock, instr_valid, instr.op \in UnitOps, ~ExValid
  PROVE  /\ id_fsm' = "MULTI_CYCLE"
         /\ UNCHANGED <<instr, instr_valid, frf, xrf>>
  BY DEF Clock, Bubble, Arch!Arrive, FirstCycle, MultiCycle, RetireUnit, RetireFAdd,
         RetireInt, RetireMem, UnitOps, MemOps

\* The divider of FDIV.S serves the instruction that waits for it.
LEMMA Serves0 ==
  ASSUME TypeOK, TypeOK', UnitsServe, Clock, SafeProgram, Uses("FDIV")
  PROVE  Div0!Serves(i0, Waits("FDIV"), frf[instr.rs1], frf[instr.rs2])'
  <1> DEFINE w == Waits("FDIV")
             x == frf[instr.rs1]
             y == frf[instr.rs2]
  <1>1. instr.op # "FADDDIV"
    BY DEF SafeProgram, Uses, TypeOK
  <1>2. /\ Div0!Step(FdivEn, OperandA, OperandB)
        /\ i0 \in Div0!UnitType
        /\ FdivEn \in BOOLEAN /\ OperandA \in Values /\ OperandB \in Values
    BY OperandTypes DEF Clock, Units, TypeOK
  <1>3. Div0!Serves(i0, w, OperandA, OperandB)
    <2>1. CASE instr.op = "FDIV"
      <3>1. OperandA = x /\ OperandB = y
        BY <2>1 DEF OperandA, OperandB
      <3>2. QED
        BY <3>1 DEF UnitsServe
    <2>2. CASE instr.op # "FDIV"
      <3>1. ~w
        BY <2>2 DEF Waits
      <3>2. QED
        BY <3>1 DEF UnitsServe, Div0!Serves
    <2>3. QED
      BY <2>1, <2>2
  <1>4. (w \/ FdivEn) /\ ~i0.valid => w' /\ x' = OperandA /\ y' = OperandB
    <2> SUFFICES ASSUME w \/ FdivEn, ~i0.valid
                 PROVE  w' /\ x' = OperandA /\ y' = OperandB
      OBVIOUS
    <2>1. instr_valid /\ instr.op = "FDIV"
      BY <1>1 DEF FdivEn, Waits
    <2>2. instr.op \in UnitOps /\ ~ExValid
      BY <2>1 DEF UnitOps, ExValid
    <2>3. QED
      BY <2>1, <2>2, UnitInstrWaits DEF Waits, OperandA, OperandB
  <1>5. w \in BOOLEAN /\ w' \in BOOLEAN
    BY DEF Waits
  <1>6. x' \in Values /\ y' \in Values
    BY NextSourceTypes DEF x, y
  <1> HIDE DEF w, x, y
  <1>7. Div0!Serves(i0', w', x', y')
    BY <1>2, <1>3, <1>4, <1>5, <1>6, Divider0
  <1>8. QED
    BY <1>7 DEF Div0!Serves, w, x, y

\* The divider of FADDDIV serves the instruction that waits for it.
LEMMA Serves1 ==
  ASSUME TypeOK, TypeOK', UnitsServe, Clock, SafeProgram, Uses("FADDDIV")
  PROVE  Div1!Serves(i1, Waits("FADDDIV"),
                     Add(frf[instr.rs1], frf[instr.rs2]), frf[instr.rs3])'
  <1> DEFINE w == Waits("FADDDIV")
             x == Add(frf[instr.rs1], frf[instr.rs2])
             y == frf[instr.rs3]
  <1>1. instr.op # "FDIV"
    BY DEF SafeProgram, Uses, TypeOK
  <1>2. /\ Div1!Step(FdivEn, AluResult, OperandC)
        /\ i1 \in Div1!UnitType
        /\ FdivEn \in BOOLEAN /\ AluResult \in Values /\ OperandC \in Values
    BY OperandTypes DEF Clock, Units, TypeOK
  <1>3. instr.op = "FADDDIV" => AluResult = x /\ OperandC = y
    BY DEF AluResult, OperandA, OperandB, OperandC
  <1>4. Div1!Serves(i1, w, AluResult, OperandC)
    <2>1. CASE instr.op = "FADDDIV"
      BY <2>1, <1>3 DEF UnitsServe
    <2>2. CASE instr.op # "FADDDIV"
      <3>1. ~w
        BY <2>2 DEF Waits
      <3>2. QED
        BY <3>1 DEF UnitsServe, Div1!Serves
    <2>3. QED
      BY <2>1, <2>2
  <1>5. (w \/ FdivEn) /\ ~i1.valid => w' /\ x' = AluResult /\ y' = OperandC
    <2> SUFFICES ASSUME w \/ FdivEn, ~i1.valid
                 PROVE  w' /\ x' = AluResult /\ y' = OperandC
      OBVIOUS
    <2>1. instr_valid /\ instr.op = "FADDDIV"
      BY <1>1 DEF FdivEn, Waits
    <2>2. instr.op \in UnitOps /\ ~ExValid
      BY <2>1 DEF UnitOps, ExValid
    <2>3. QED
      BY <2>1, <2>2, <1>3, UnitInstrWaits DEF Waits
  <1>6. w \in BOOLEAN /\ w' \in BOOLEAN
    BY DEF Waits
  <1>7. x' \in Values /\ y' \in Values
    BY NextSourceTypes DEF x, y
  <1> HIDE DEF w, x, y
  <1>8. Div1!Serves(i1', w', x', y')
    BY <1>2, <1>4, <1>5, <1>6, <1>7, Divider1
  <1>9. QED
    BY <1>8 DEF Div1!Serves, w, x, y

\* The converter serves the instruction that waits for it.
LEMMA ServesC ==
  ASSUME TypeOK, TypeOK', UnitsServe, Clock, SafeProgram
  PROVE  Conv!Serves(cvt, Waits("FCVT"), ConvertEn, xrf[instr.rs1])'
  <1> DEFINE w == Waits("FCVT")
             p == ConvertEn
             x == xrf[instr.rs1]
  <1>1. /\ Conv!Step(p, OperandA)
        /\ cvt \in Conv!UnitType
        /\ p \in BOOLEAN /\ OperandA \in Values
    BY OperandTypes DEF Clock, Units, TypeOK
  <1>2. w => p
    BY DEF Waits, ConvertEn
  <1>3. p => OperandA = x
    BY DEF ConvertEn, OperandA
  <1>4. Conv!Serves(cvt, w, p, OperandA)
    BY <1>2, <1>3 DEF UnitsServe, Conv!Serves
  <1>5. p => instr_valid /\ instr.op = "FCVT" /\ instr.op \in UnitOps
    BY DEF ConvertEn, UnitOps
  <1>6. p /\ ~cvt.valid => w' /\ x' = OperandA
    BY <1>3, <1>5, UnitInstrWaits DEF Waits, ExValid
  <1>7. p /\ cvt.valid => ~p'
    <2> SUFFICES ASSUME p, cvt.valid
                 PROVE  ~p'
      OBVIOUS
    <2>1. ExValid
      BY <1>5 DEF ExValid
    <2>2. Arch!Fetch
      BY <1>5, <2>1 DEF Clock, Bubble, Arch!Arrive, FirstCycle, MultiCycle, Completes, RetireUnit,
                    RetireFAdd, RetireInt, RetireMem, Retire
    <2>3. QED
      BY <1>5, <2>2 DEF Arch!Fetch, ConvertEn, SafeProgram
  <1>8. w \in BOOLEAN /\ w' \in BOOLEAN /\ p' \in BOOLEAN
    BY DEF Waits, ConvertEn
  <1>9. x' \in Values
    BY NextSourceTypes DEF x
  <1> HIDE DEF w, p, x
  <1>10. Conv!Serves(cvt', w', p', x')
    BY <1>1, <1>2, <1>4, <1>6, <1>7, <1>8, <1>9, Converter
  <1>11. QED
    BY <1>10 DEF Conv!Serves, w, p, x

\* After a reset no unit holds an answer for anyone.
LEMMA ResetUnitsServe ==
  ASSUME TypeOK, TypeOK', Reset
  PROVE  UnitsServe'
  <1> DEFINE w0 == Waits("FDIV")
             w1 == Waits("FADDDIV")
             wc == Waits("FCVT")
             x0 == frf[instr.rs1]
             y0 == frf[instr.rs2]
             x1 == Add(frf[instr.rs1], frf[instr.rs2])
             y1 == frf[instr.rs3]
             pc == ConvertEn
             xc == xrf[instr.rs1]
  <1>1. /\ w0' \in BOOLEAN /\ w1' \in BOOLEAN /\ wc' \in BOOLEAN /\ pc' \in BOOLEAN
        /\ x0' \in Values /\ y0' \in Values /\ x1' \in Values /\ y1' \in Values
        /\ xc' \in Values
    BY NextSourceTypes DEF Waits, ConvertEn
  <1> HIDE DEF w0, w1, wc, x0, y0, x1, y1, pc, xc
  <1>2. /\ Div0!Reset(FdivEn, OperandA, OperandB) /\ i0 \in Div0!UnitType
        /\ Div1!Reset(FdivEn, AluResult, OperandC) /\ i1 \in Div1!UnitType
        /\ Conv!Reset(ConvertEn, OperandA) /\ cvt \in Conv!UnitType
        /\ FdivEn \in BOOLEAN /\ ConvertEn \in BOOLEAN /\ AluResult \in Values
        /\ OperandA \in Values /\ OperandB \in Values /\ OperandC \in Values
    BY OperandTypes DEF Reset, TypeOK
  <1>3. Div0!Serves(i0', w0', x0', y0')
    <2>1. \A wn \in BOOLEAN, xn, yn \in Values :
            Div0!Reset(FdivEn, OperandA, OperandB) => Div0!Serves(i0', wn, xn, yn)
      BY <1>2, Divider0
    <2>2. QED
      BY <1>1, <1>2, <2>1
  <1>4. Div1!Serves(i1', w1', x1', y1')
    <2>1. \A wn \in BOOLEAN, xn, yn \in Values :
            Div1!Reset(FdivEn, AluResult, OperandC) => Div1!Serves(i1', wn, xn, yn)
      BY <1>2, Divider1
    <2>2. QED
      BY <1>1, <1>2, <2>1
  <1>5. Conv!Serves(cvt', wc', pc', xc')
    <2>1. \A wn, pn \in BOOLEAN, xn \in Values :
            Conv!Reset(ConvertEn, OperandA) => Conv!Serves(cvt', wn, pn, xn)
      BY <1>2, Converter
    <2>2. QED
      BY <1>1, <1>2, <2>1
  <1>6. Div0!Serves(i0, Waits("FDIV"), frf[instr.rs1], frf[instr.rs2])'
    BY <1>3 DEF Div0!Serves, w0, x0, y0
  <1>7. Div1!Serves(i1, Waits("FADDDIV"), Add(frf[instr.rs1], frf[instr.rs2]),
                    frf[instr.rs3])'
    BY <1>4 DEF Div1!Serves, w1, x1, y1
  <1>8. Conv!Serves(cvt, Waits("FCVT"), ConvertEn, xrf[instr.rs1])'
    BY <1>5 DEF Conv!Serves, wc, pc, xc
  <1>9. QED
    BY <1>6, <1>7, <1>8 DEF UnitsServe

\* In a program that keeps to SafeProgram, the divider it uses and the converter
\* only ever work for the instruction in the ID stage: nothing of an earlier
\* instruction is left in them when the next one arrives.
THEOREM UnitsServeCorrect ==
  ASSUME SafeProgram
  PROVE  Spec => []UnitsServe
  <1>1. Init => UnitsServe
    BY DEF Init, Div0!Init, Div1!Init, Conv!Init, UnitsServe,
           Div0!Serves, Div1!Serves, Conv!Serves
  <1>2. TypeOK /\ TypeOK' /\ UnitsServe /\ [Next]_vars => UnitsServe'
    <2> SUFFICES ASSUME TypeOK, TypeOK', UnitsServe, [Next]_vars
                 PROVE  UnitsServe'
      OBVIOUS
    <2>1. CASE Clock
      BY <2>1, ProgramStays, Serves0, Serves1, ServesC DEF UnitsServe, Uses
    <2>2. CASE Reset
      BY <2>2, ResetUnitsServe
    <2>3. CASE UNCHANGED vars
      BY <2>3 DEF vars, UnitsServe, Waits, ConvertEn, Div0!Serves, Div1!Serves, Conv!Serves, Uses
    <2>4. QED
      BY <2>1, <2>2, <2>3 DEF Next
  <1>3. QED
    BY <1>1, <1>2, TypeCorrect, PTL DEF Spec

--------------------------------------------------------------------------------
(* The validity of ex_valid, and the instruction-set view                  *)

\* A result that is valid is the result of the instruction in the stage.
LEMMA ServedResult ==
  ASSUME TypeOK, UnitsServe, instr_valid, instr.op \in UnitOps, ExValid
  PROVE  ResultEx = UnitResult(instr, frf, xrf)
  <1>1. instr \in program
    BY DEF TypeOK
  <1>2. CASE instr.op = "FDIV"
    <2>1. i0.valid
      BY <1>2 DEF ExValid
    <2>2. i0.out = Div(frf[instr.rs1], frf[instr.rs2])
      BY <1>1, <1>2, <2>1 DEF UnitsServe, Uses, Div0!Serves
    <2>3. QED
      BY <1>2, <2>2 DEF ResultEx, UnitResult
  <1>3. CASE instr.op = "FADDDIV"
    <2>1. i1.valid
      BY <1>3 DEF ExValid
    <2>2. i1.out = Div(Add(frf[instr.rs1], frf[instr.rs2]), frf[instr.rs3])
      BY <1>1, <1>3, <2>1 DEF UnitsServe, Uses, Div1!Serves
    <2>3. QED
      BY <1>3, <2>2 DEF ResultEx, UnitResult
  <1>4. CASE instr.op = "FCVT"
    <2>1. cvt.valid /\ ConvertEn
      BY <1>4 DEF ExValid, ConvertEn
    <2>2. cvt.out = Cvt(xrf[instr.rs1])
      BY <2>1 DEF UnitsServe, Conv!Serves
    <2>3. QED
      BY <1>4, <2>2 DEF ResultEx, UnitResult
  <1>5. QED
    BY <1>2, <1>3, <1>4 DEF UnitOps

\* Whenever ex_valid is high for a unit instruction, the result shown belongs to
\* that instruction: the promise of the port, for programs that keep to
\* SafeProgram.
THEOREM ExValidCorrect ==
  ASSUME SafeProgram
  PROVE  Spec => []ExValidIsOwn
  <1>1. TypeOK /\ UnitsServe => ExValidIsOwn
    BY ServedResult DEF ExValidIsOwn
  <1>2. QED
    BY <1>1, TypeCorrect, UnitsServeCorrect, PTL

\* The clocked ID/EX stage implements the instruction-set view: it executes each
\* instruction once and with the effect the instruction has there.
THEOREM Implementation ==
  ASSUME SafeProgram
  PROVE  Spec => ImplementsIsa
  <1>1. Init => Arch!Init
    BY DEF Init
  <1>2. TypeOK /\ UnitsServe /\ [Next]_vars => [Arch!Next]_(Arch!vars)
    <2> SUFFICES ASSUME TypeOK, UnitsServe, [Next]_vars
                 PROVE  Arch!Next \/ UNCHANGED Arch!vars
      OBVIOUS
    <2> USE DEF Arch!Next
    <2>1. CASE Bubble
      BY <2>1 DEF Bubble
    <2>2. CASE FirstCycle \/ MultiCycle
      BY <2>2 DEF FirstCycle, MultiCycle, Arch!vars
    <2>3. CASE RetireUnit
      <3>1. ResultEx = UnitResult(instr, frf, xrf)
        BY <2>3, ServedResult DEF RetireUnit
      <3>2. Arch!Effect(instr)
        BY <2>3, <3>1 DEF RetireUnit, Arch!Effect, UnitOps, Arch!UnitOps, UnitResult,
                      Arch!UnitResult, Write, Arch!Write
      <3>3. QED
        BY <2>3, <3>2 DEF RetireUnit, Retire, Arch!Execute
    <2>4. CASE RetireFAdd
      <3>1. AluResult = Add(frf[instr.rs1], frf[instr.rs2])
        BY <2>4 DEF RetireFAdd, AluResult, OperandA, OperandB
      <3>2. Arch!Effect(instr)
        BY <2>4, <3>1 DEF RetireFAdd, Arch!Effect, Write, Arch!Write
      <3>3. QED
        BY <2>4, <3>2 DEF RetireFAdd, Retire, Arch!Execute
    <2>5. CASE RetireInt
      <3>1. Arch!Effect(instr)
        BY <2>5 DEF RetireInt, Arch!Effect, Write, Arch!Write
      <3>2. QED
        BY <2>5, <3>1 DEF RetireInt, Retire, Arch!Execute
    <2>6. CASE RetireMem
      <3>1. Arch!Effect(instr)
        BY <2>6 DEF RetireMem, MemOps, Arch!Effect, Write, Arch!Write
      <3>2. QED
        BY <2>6, <3>1 DEF RetireMem, Retire, Arch!Execute
    <2>7. CASE Reset
      BY <2>7 DEF Reset
    <2>8. CASE UNCHANGED vars
      BY <2>8 DEF vars, Arch!vars
    <2>9. QED
      BY <2>1, <2>2, <2>3, <2>4, <2>5, <2>6, <2>7, <2>8 DEF Next, Clock
  <1>3. QED
    BY <1>1, <1>2, TypeCorrect, UnitsServeCorrect, PTL DEF Spec, ImplementsIsa, Arch!Spec
================================================================================
