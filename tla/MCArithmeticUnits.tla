--------------------------- MODULE MCArithmeticUnits ---------------------------
(***************************************************************************)
(* ArithmeticUnits on a format of 7 bits: sign, 4 exponent and 2 fraction  *)
(* bits. Divider: every dividend, and divisors of both ends and the middle *)
(* of the range; converter: every word of 8 bits; combinational unit: the  *)
(* operands of both ends and the middle of the range, with all fractions   *)
(* except for the fused operations, which take the least and the largest.  *)
(***************************************************************************)
EXTENDS ArithmeticUnits

MCPowerUp      == {Zero(1)}
MCPowerUpWords == {0}
MCHeld         == {Zero(0), Infinity(0)}

MCDivisors ==
  {v \in Float : v.s = 0 /\ v.e \in {0, 1, Bias, EMax - 1}}
    \cup {Zero(1), Infinity(1), DefaultNaN}

MCOperands == {v \in Float : v.e \in {0, 1, Bias - 4, Bias - 2, Bias, Bias + 1, EMax - 1, EMax}}
MCFactors  == {v \in Float : v.f \in {0, 3} /\ v.e \in {0, Bias, Bias + 1}}
MCAddends  == {v \in Float : v.f \in {0, 3} /\ v.e \notin {1, 2, 12, 13}}

MCInputs ==
       [op : {"ADD", "SUB", "SUBABS", "MUL", "EQ", "LT"},
        a : MCOperands, b : MCOperands, c : {Zero(0)}]
  \cup [op : {"MADD", "MSUB", "NMADD", "NMSUB"},
        a : MCFactors, b : MCFactors, c : MCAddends]
================================================================================
