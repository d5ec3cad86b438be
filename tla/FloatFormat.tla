------------------------------ MODULE FloatFormat ------------------------------
(***************************************************************************)
(* Floating-point numbers of any width, and what IEEE 754 says of the      *)
(* quotient of two of them and of the conversion of an integer: the        *)
(* reference the arithmetic units are compared with. The units of the core *)
(* are the case F = 23, EB = 8.                                            *)
(***************************************************************************)
EXTENDS Integers

CONSTANTS
  F,     \* bits of the fraction field
  EB     \* bits of the exponent field

ASSUME FormatAssumption == F \in Nat \ {0} /\ EB \in Nat \ {0, 1}

\* The weight of bit n of a word.
Pow2[n \in Nat] == IF n = 0 THEN 1 ELSE 2 * Pow2[n - 1]

Bias == Pow2[EB - 1] - 1
EMax == Pow2[EB] - 1              \* the exponent field of infinities and NaNs

\* Sign bit, exponent field and fraction field.
Float == [s : {0, 1}, e : 0 .. EMax, f : 0 .. Pow2[F] - 1]

Xor(s, t) == (s + t) % 2

Zero(s)     == [s |-> s, e |-> 0, f |-> 0]
Infinity(s) == [s |-> s, e |-> EMax, f |-> 0]
\* The NaN the hardware returns: negative and quiet.
DefaultNaN  == [s |-> 1, e |-> EMax, f |-> Pow2[F - 1]]

IsNaN(x)  == x.e = EMax /\ x.f # 0
IsInf(x)  == x.e = EMax /\ x.f = 0
IsZero(x) == x.e = 0 /\ x.f = 0

--------------------------------------------------------------------------------
(***************************************************************************)
(* Rounding to nearest, ties to even, stated without an algorithm. The     *)
(* magnitudes are numbered in increasing order: number m has exponent      *)
(* field m \div Pow2[F] and fraction m % Pow2[F], and number InfMag, which *)
(* would be the next binade, stands for infinity.                          *)
(***************************************************************************)
InfMag == EMax * Pow2[F]

\* The value of magnitude m, in units of the least subnormal number.
Units(m) ==
  IF m < Pow2[F] THEN m ELSE (Pow2[F] + (m % Pow2[F])) * Pow2[m \div Pow2[F] - 1]

\* The weight of 1.0 in those units.
One == Pow2[Bias + F - 1]

\* The magnitude nearest to num / den, of which an even one wins a tie: nearer than
\* its two neighbours, for the magnitudes are in order.
Nearest(num, den) ==
  LET Distance(m) == IF Units(m) * den >= One * num
                       THEN Units(m) * den - One * num
                       ELSE One * num - Units(m) * den
  IN  CHOOSE m \in 0 .. InfMag :
        \A n \in {m - 1, m + 1} \cap 0 .. InfMag :
          \/ Distance(m) < Distance(n)
          \/ Distance(m) = Distance(n) /\ m % 2 = 0

Round(s, num, den) ==
  LET m == Nearest(num, den) IN [s |-> s, e |-> m \div Pow2[F], f |-> m % Pow2[F]]

\* The quotient of x by y, as IEEE 754 has it. A comment in the divider has an
\* infinity divided by zero otherwise: FloatDivider!InfinityByZeroIsNaN.
Quotient(x, y) ==
  LET s == Xor(x.s, y.s)
      UnitsOf(v) == Units(v.e * Pow2[F] + v.f)
      undefined == \/ IsNaN(x) \/ IsNaN(y)
                   \/ IsInf(x) /\ IsInf(y)
                   \/ IsZero(x) /\ IsZero(y)
  IN  IF undefined THEN DefaultNaN
      ELSE IF IsInf(x) \/ IsZero(y) THEN Infinity(s)
      ELSE IF IsInf(y) \/ IsZero(x) THEN Zero(s)
      ELSE Round(s, UnitsOf(x), UnitsOf(y))

\* The integer n, rounded; zero is positive.
OfInteger(n) == IF n < 0 THEN Round(1, -n, 1) ELSE Round(0, n, 1)
================================================================================
