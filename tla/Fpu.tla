---------------------------------- MODULE Fpu ----------------------------------
(***************************************************************************)
(* ibex_fpu, the combinational unit, for any width: special cases, adder,  *)
(* multiplier, multiply-add and comparison. Every operator is the set of   *)
(* the outcomes possible: the normalisers assign no output for an operand  *)
(* whose leading one lies too low, and are latches then.                   *)
(***************************************************************************)
EXTENDS FloatFormat

CONSTANTS
  AddShifts,    \* how far the adder's normaliser can shift (20 for F = 23)
  MulShifts,    \* the same for the multiplier's (5)
  Held,         \* the results that a latch may hold
  NoResult      \* out before the unit has computed

VARIABLES in, out   \* the operation with its operands; the result, once computed

ASSUME FpuAssumption ==
  /\ AddShifts \in 1 .. F - 1 /\ MulShifts \in 1 .. 2 * F
  /\ Held # {} /\ Held \subseteq Float

Sums  == {"ADD", "SUB", "SUBABS"}         \* ADD stands for FADDDIV's sum too
Fused == {"MADD", "MSUB", "NMADD", "NMSUB"}
Comparisons == {"EQ", "LT"}
FpuOps == Sums \cup {"MUL"} \cup Fused \cup Comparisons

Standby == [op |-> "ADD", a |-> Zero(0), b |-> Zero(0), c |-> Zero(0)]

Negated(x) == [x EXCEPT !.s = 1 - @]

\* Exponent and mantissa inside the adder and the multiplier.
Exponent(x) == IF x.e = 0 THEN 1 ELSE x.e
Mantissa(x) == IF x.e = 0 THEN x.f ELSE Pow2[F] + x.f

\* The special cases look at a mantissa that always has its hidden bit.
LooksNaN(x)  == x.e = EMax /\ Pow2[F] + x.f # 0
LooksZero(x) == x.e = 0 /\ Pow2[F] + x.f = 0

\* The exponent wraps; low is the number of mantissa bits below the fraction.
Packed(s, e, m, low) == [s |-> s, e |-> e % Pow2[EB], f |-> (m \div Pow2[low]) % Pow2[F]]

\* A mantissa with low bits below the fraction: shifted right after a carry, or
\* left by at most max to its leading one.
Normalised(s, e, m, low, max) ==
  LET top == low + F
  IN  IF m >= Pow2[top + 1] THEN {Packed(s, e + 1, m \div 2, low)}
      ELSE IF m >= Pow2[top] \/ e % Pow2[EB] = 0 THEN {Packed(s, e, m, low)}
      ELSE IF m >= Pow2[top - max]
        THEN {Packed(s, e - k, m * Pow2[k], low) :
                k \in {i \in 1 .. max : Pow2[top - i] <= m /\ m < Pow2[top - i + 1]}}
      ELSE {[h EXCEPT !.s = s] : h \in Held}

\* Broken: the smaller operand is not aligned.
AdderUnaligned(a, b) ==
  LET big   == IF Exponent(a) >= Exponent(b) THEN a ELSE b
      small == IF Exponent(a) >= Exponent(b) THEN b ELSE a
  IN  Normalised(big.s, Exponent(big),
                 IF a.s = b.s THEN Mantissa(big) + Mantissa(small)
                              ELSE (Mantissa(big) - Mantissa(small)) % Pow2[F + 2], 0, AddShifts)

\* The bits of the smaller operand that alignment shifts out are lost. A sum of
\* equal exponents is taken to carry.
Adder(a, b) ==
  LET equal == Exponent(a) = Exponent(b)
      big   == IF IF equal THEN Mantissa(a) > Mantissa(b) ELSE Exponent(a) > Exponent(b)
                 THEN a ELSE b
      small == IF big = a THEN b ELSE a
      tmp   == Mantissa(small) \div Pow2[Exponent(big) - Exponent(small)]
      sum   == Mantissa(big) + tmp
      carry == IF equal /\ sum < Pow2[F + 1] THEN Pow2[F + 1] ELSE 0
  IN  Normalised(big.s, Exponent(big),
                 IF a.s = b.s THEN sum + carry ELSE Mantissa(big) - tmp, 0, AddShifts)

\* Broken: the carry of the product is not normalised.
MultiplierKeepsCarry(a, b) ==
  {Packed(Xor(a.s, b.s), Exponent(a) + Exponent(b) - Bias, Mantissa(a) * Mantissa(b), F)}

Multiplier(a, b) ==
  Normalised(Xor(a.s, b.s), (Exponent(a) + Exponent(b) - Bias) % Pow2[EB],
             Mantissa(a) * Mantissa(b), F, MulShifts)

--------------------------------------------------------------------------------
(* The results, special cases first, in the order of the source.           *)

Sum(op, a, b) ==
  IF LooksNaN(a) \/ LooksZero(b) THEN {a}
  ELSE IF LooksNaN(b) \/ LooksZero(a) THEN {b}
  ELSE IF a.e = EMax \/ b.e = EMax THEN {Infinity(Xor(a.s, b.s))}
  ELSE IF op # "ADD" /\ a = b THEN {Zero(0)}
  ELSE Adder(a, IF op = "ADD" THEN b ELSE Negated(b))

Product(a, b) ==
  IF LooksNaN(a) THEN {a}
  ELSE IF LooksNaN(b) THEN {b}
  ELSE IF LooksZero(a) \/ LooksZero(b) THEN {Zero(Xor(a.s, b.s))}
  ELSE IF a.e = EMax \/ b.e = EMax THEN {Infinity(a.s)}
  ELSE Multiplier(a, b)

\* Broken: the subtracting forms add.
AddendUnchanged(op, c) == c

Addend(op, c) == IF op \in {"MSUB", "NMSUB"} THEN Negated(c) ELSE c

\* Only the last case negates.
MultiplyAdd(op, a, b, c) ==
  LET sums == UNION {Adder(p, Addend(op, c)) : p \in Multiplier(a, b)}
  IN  IF LooksNaN(a) THEN {a}
      ELSE IF LooksNaN(b) THEN {b}
      ELSE IF LooksZero(c) THEN Multiplier(a, b)
      ELSE IF LooksZero(a) \/ LooksZero(b) \/ LooksNaN(c) THEN {c}
      ELSE IF a.e = EMax THEN {Infinity(Xor(a.s, c.s))}
      ELSE IF b.e = EMax THEN {Infinity(Xor(b.s, c.s))}
      ELSE IF c.e = EMax THEN {Infinity(Xor(p.s, c.s)) : p \in Multiplier(a, b)}
      ELSE IF op \in {"NMADD", "NMSUB"} THEN {Negated(r) : r \in sums}
      ELSE sums

\* Broken: the order of two negative numbers is that of their magnitudes.
LessMagnitude(a, b) ==
  LET m(x) == x.e * Pow2[F] + x.f
  IN  IF a.s # b.s THEN a.s = 1 /\ ~(a = Zero(1) /\ b = Zero(0)) ELSE m(a) < m(b)

Less(a, b) ==
  IF a = Zero(1) /\ b = Zero(0) THEN FALSE
  ELSE \/ a.s = 1 /\ b.s = 0
       \/ a.s = 1 /\ b.s = 1 /\ (a.e > b.e \/ (a.e = b.e /\ a.f > b.f))
       \/ a.s = 0 /\ b.s = 0 /\ (a.e < b.e \/ (a.e = b.e /\ a.f < b.f))

Equal(a, b) == a = b \/ {a, b} = {Zero(0), Zero(1)}

\* comparison_result_o; a NaN raises the exception flag and compares false.
Holds(op, a, b) ==
  /\ ~LooksNaN(a) /\ ~LooksNaN(b)
  /\ IF op = "EQ" THEN Equal(a, b) ELSE Less(a, b)

Outcomes(op, a, b, c) ==
  CASE op \in {"ADD", "SUB"}  -> Sum(op, a, b)
    [] op = "SUBABS"          -> {[r EXCEPT !.s = 0] : r \in Sum(op, a, b)}
    [] op = "MUL"             -> Product(a, b)
    [] op \in Fused           -> MultiplyAdd(op, a, b, c)
    [] op \in Comparisons     -> {Holds(op, a, b)}

\* The unit computes while its inputs stand still.
Execute ==
  /\ out' \in Outcomes(in.op, in.a, in.b, in.c)
  /\ UNCHANGED in

FpuTypeOK ==
  /\ in.op \in FpuOps /\ {in.a, in.b, in.c} \subseteq Float
  /\ out = NoResult \/ out \in IF in.op \in Comparisons THEN BOOLEAN ELSE Float

--------------------------------------------------------------------------------
(* Properties of what the unit has computed. Values are counted in units   *)
(* of the least subnormal number.                                          *)

Magnitude(x) == Units(x.e * Pow2[F] + x.f)
Value(x)     == IF x.s = 1 THEN -Magnitude(x) ELSE Magnitude(x)
Ulp(e)       == IF e = 0 THEN 1 ELSE Pow2[e - 1]
Apart(p, q)    == IF p < q THEN q - p ELSE p - q
Larger(p, q)   == IF p < q THEN q ELSE p

\* Far enough from both ends for no shift to leave the exponent's range.
Computed(ops) == out # NoResult /\ in.op \in ops

Central(x) == AddShifts < x.e /\ x.e < EMax - 1

SignedB == IF in.op = "ADD" THEN Value(in.b) ELSE -Value(in.b)
ExactSum == Value(in.a) + SignedB

\* The sum or difference (adder, ibex_fpu.sv:427) of two numbers in the middle of the
\* range is less than a unit in the last place off, alignment, carry and
\* cancellation included, unless so much cancels that the normaliser does not
\* find the leading one.
SumsAreClose ==
  LET e == Larger(in.a.e, in.b.e)
      wanted == IF in.op = "SUBABS" THEN Apart(ExactSum, 0) ELSE ExactSum
      found  == Apart(ExactSum, 0) >= Ulp(e) * Pow2[F - AddShifts + 1]
  IN  Computed(Sums) /\ Central(in.a) /\ Central(in.b) /\ found =>
        Apart(Value(out), wanted) < Ulp(Larger(e, out.e))

\* The product of two normal numbers (multiplier, ibex_fpu.sv:532) that is in range is
\* truncated towards zero to the last place, with the product's sign.
ProductsTruncate ==
  LET e     == in.a.e + in.b.e - Bias
      exact == Magnitude(in.a) * Magnitude(in.b)
  IN  Computed({"MUL"}) /\ in.a.e \in 1 .. EMax - 1 /\ in.b.e \in 1 .. EMax - 1
        /\ e \in 1 .. EMax - 2 =>
        /\ out.s = Xor(in.a.s, in.b.s)
        /\ Magnitude(out) * One <= exact /\ exact < (Magnitude(out) + Ulp(out.e)) * One

\* A multiply-add whose product, addend and result lie in the middle of the range
\* is off by less than a last place of its product and one of its larger part.
FusedIsClose ==
  LET e      == in.a.e + in.b.e - Bias
      factor == IF in.op \in {"NMADD", "NMSUB"} THEN -1 ELSE 1
      addend == IF in.op \in {"MSUB", "NMSUB"} THEN -Value(in.c) ELSE Value(in.c)
      exact  == factor * (Value(in.a) * Value(in.b) + addend * One)
      larger == Larger(e + 1, in.c.e)
      found  == Apart(exact, 0) >= Ulp(larger) * Pow2[F - AddShifts + 1] * One
  IN  Computed(Fused) /\ in.a.e \in 1 .. EMax - 1 /\ in.b.e \in 1 .. EMax - 1
        /\ AddShifts < e /\ e < EMax - 2 /\ Central(in.c) /\ found =>
        Apart(Value(out) * One, exact) < (Ulp(e + 1) + Ulp(Larger(larger, out.e))) * One

\* FEQ and FLT (ibex_fpu.sv:400-421) agree with the order of the numbers, the two
\* zeros and subnormal numbers included.
ComparisonsOrder ==
  Computed(Comparisons) /\ in.a.e # EMax /\ in.b.e # EMax =>
    out = IF in.op = "EQ" THEN Value(in.a) = Value(in.b) ELSE Value(in.a) < Value(in.b)

\* "b is zero return a" for the sum (ibex_fpu.sv:123), "If a or b is 0 return 0"
\* for the product (ibex_fpu.sv:183).
ZerosAreSeen ==
  /\ Computed({"ADD"}) /\ IsZero(in.b) /\ ~IsNaN(in.a) => Value(out) = Value(in.a)
  /\ Computed({"MUL"}) /\ (IsZero(in.a) \/ IsZero(in.b)) /\ ~IsNaN(in.a) /\ ~IsNaN(in.b)
       => IsZero(out)
================================================================================
