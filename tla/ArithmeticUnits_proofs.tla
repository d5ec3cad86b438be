------------------------ MODULE ArithmeticUnits_proofs -------------------------
(***************************************************************************)
(* Proofs about the arithmetic units, for every format, word width, client *)
(* and set of operands: every quotient and every conversion is rounded     *)
(* correctly, nothing is lost in the loops, comparisons order the values,  *)
(* products are cut off below the exact ones, and the sequential units     *)
(* implement what the execute stage sees of them.                          *)
(***************************************************************************)
EXTENDS ArithmeticUnits, WellFoundedInduction, TLAPS

--------------------------------------------------------------------------------
(* Numbers and powers of two.                                               *)

\* A set of numbers that is not empty has a least one.
LEMMA Least ==
  ASSUME NEW T, T \subseteq Nat, T # {}
  PROVE  \E n \in T : \A k \in T : n <= k
<1>1. IsWellFoundedOn(OpToRel(<, Nat), Nat)
  BY NatLessThanWellFounded
<1>2. PICK n \in T : \A k \in T : ~(<<k, n>> \in OpToRel(<, Nat))
  BY <1>1, WFMin
<1>3. \A k \in T : ~(k < n)
  BY <1>2 DEF OpToRel
<1>4. QED
  BY <1>3

\* Induction, for a set instead of a predicate.
LEMMA InductionSet ==
  ASSUME NEW T, T \subseteq Nat, 0 \in T, \A n \in Nat : n \in T => n + 1 \in T
  PROVE  T = Nat
<1>1. SUFFICES ASSUME T # Nat PROVE FALSE
  OBVIOUS
<1>2. PICK n \in Nat \ T : \A k \in Nat \ T : n <= k
  BY <1>1, Least, Nat \ T # {}
<1>3. QED
  BY <1>2, n - 1 \in Nat, n - 1 + 1 = n

\* The recurrence of the powers of two.
LEMMA PowStep ==
  /\ Pow2[0] = 1
  /\ \A n \in Nat : Pow2[n + 1] = 2 * Pow2[n]
<1>1. Pow2 = [n \in Nat |-> IF n = 0 THEN 1 ELSE 2 * Pow2[n - 1]]
  BY DEF Pow2
<1>2. QED
  BY <1>1

\* A power of two is a positive natural number.
LEMMA PowNat ==
  \A n \in Nat : Pow2[n] \in Nat \ {0}
<1> DEFINE T == {n \in Nat : Pow2[n] \in Nat \ {0}}
<1>1. 0 \in T
  BY PowStep
<1>2. ASSUME NEW n \in Nat, n \in T PROVE n + 1 \in T
  BY <1>2, PowStep
<1>3. T = Nat
  <2> HIDE DEF T
  <2> QED BY <1>1, <1>2, InductionSet, T \subseteq Nat DEF T
<1>4. QED
  BY <1>3

\* A sum of exponents is a product of powers.
LEMMA PowSum ==
  ASSUME NEW m \in Nat, NEW n \in Nat
  PROVE  Pow2[m + n] = Pow2[m] * Pow2[n]
<1> DEFINE T == {k \in Nat : Pow2[m + k] = Pow2[m] * Pow2[k]}
<1>1. 0 \in T
  BY PowStep, PowNat
<1>2. ASSUME NEW k \in Nat, k \in T PROVE k + 1 \in T
  <2>1. Pow2[m + (k + 1)] = 2 * Pow2[m + k]
    BY PowStep, m + k \in Nat, m + (k + 1) = (m + k) + 1
  <2>2. QED
    BY <1>2, <2>1, PowStep, PowNat
<1>3. T = Nat
  <2> HIDE DEF T
  <2> QED BY <1>1, <1>2, InductionSet, T \subseteq Nat DEF T
<1>4. QED
  BY <1>3

\* Larger exponents give larger powers.
LEMMA PowOrder ==
  ASSUME NEW m \in Nat, NEW n \in Nat
  PROVE  /\ m <= n => Pow2[m] <= Pow2[n]
         /\ m < n => 2 * Pow2[m] <= Pow2[n]
         /\ n < Pow2[n]
<1>1. ASSUME NEW k \in Nat PROVE Pow2[m] <= Pow2[m + k]
  <2>1. Pow2[m + k] = Pow2[m] * Pow2[k]
    BY PowSum
  <2>2. ASSUME NEW p \in Nat \ {0}, NEW q \in Nat \ {0} PROVE p <= p * q
    BY <2>2
  <2>3. QED
    BY <2>1, <2>2, PowNat
<1>2. m <= n => Pow2[m] <= Pow2[n]
  BY <1>1, m <= n => n - m \in Nat, m + (n - m) = n
<1>3. m < n => 2 * Pow2[m] <= Pow2[n]
  <2>1. SUFFICES ASSUME m < n PROVE 2 * Pow2[m] <= Pow2[n]
    OBVIOUS
  <2>2. PICK k \in Nat : n = m + (k + 1)
    BY <2>1, n - m - 1 \in Nat
  <2>3. Pow2[n] = 2 * Pow2[m + k]
    BY <2>2, PowStep, m + k \in Nat, m + (k + 1) = (m + k) + 1
  <2>4. Pow2[m] \in Nat /\ Pow2[m + k] \in Nat /\ Pow2[m] <= Pow2[m + k]
    BY <1>1, PowNat, m + k \in Nat
  <2>5. QED
    BY <2>3, <2>4
<1>4. n < Pow2[n]
  <2> DEFINE T == {k \in Nat : k < Pow2[k]}
  <2>1. 0 \in T
    BY PowStep
  <2>2. ASSUME NEW k \in Nat, k \in T PROVE k + 1 \in T
    BY <2>2, PowStep, PowNat
  <2>3. T = Nat
    <3> HIDE DEF T
    <3> QED BY <2>1, <2>2, InductionSet, T \subseteq Nat DEF T
  <2>4. QED
    BY <2>3
<1>5. QED
  BY <1>2, <1>3, <1>4

\* Quotient and remainder, and the number they make.
LEMMA Division ==
  ASSUME NEW n \in Int, NEW k \in Nat \ {0}
  PROVE  /\ n \div k \in Int /\ n % k \in 0 .. k - 1
         /\ n = (k * (n \div k)) + (n % k)
         /\ n \in Nat => n \div k \in Nat
OBVIOUS

\* A number is divided once it is written as quotient and remainder.
LEMMA DivisionIs ==
  ASSUME NEW k \in Nat \ {0}, NEW q \in Int, NEW r \in 0 .. k - 1, NEW n, n = k * q + r
  PROVE  n \in Int /\ n \div k = q /\ n % k = r
<1>1. n \in Int
  OBVIOUS
<1>2. n = (k * (n \div k)) + (n % k) /\ n \div k \in Int /\ n % k \in 0 .. k - 1
  BY <1>1, Division
<1>3. ASSUME NEW p \in Int, NEW s \in 0 .. k - 1, k * q + r = k * p + s PROVE p = q /\ s = r
  <2>1. CASE p < q
    <3>1. k * (q - p) >= k
      BY <2>1, q - p >= 1
    <3>2. QED
      BY <1>3, <3>1, k * (q - p) = k * q - k * p
  <2>2. CASE p > q
    <3>1. k * (p - q) >= k
      BY <2>2, p - q >= 1
    <3>2. QED
      BY <1>3, <3>1, k * (p - q) = k * p - k * q
  <2>3. QED
    BY <1>3, <2>1, <2>2
<1>4. QED
  BY <1>1, <1>2, <1>3
\* A multiple of the divisor.
LEMMA Multiple ==
  ASSUME NEW k \in Nat \ {0}, NEW q \in Int
  PROVE  (k * q) \div k = q /\ (k * q) % k = 0
<1> DEFINE n == k * q
<1>1. n = k * q + 0 /\ 0 \in 0 .. k - 1
  OBVIOUS
<1> HIDE DEF n
<1>2. n \div k = q /\ n % k = 0
  BY <1>1, DivisionIs
<1>3. QED
  BY <1>2 DEF n

\* Dividing what is less than the divisor,
LEMMA Small ==
  ASSUME NEW k \in Nat \ {0}, NEW n \in 0 .. k - 1
  PROVE  n \div k = 0 /\ n % k = n
<1>1. n \in Int /\ n < k
  OBVIOUS
<1>2. n = (k * (n \div k)) + (n % k) /\ n \div k \in Int /\ n % k \in 0 .. k - 1
  BY <1>1, Division
<1>3. ASSUME NEW q \in Int, NEW r \in 0 .. k - 1, n = k * q + r PROVE q = 0
  <2>1. q >= 1 => k * q >= k
    OBVIOUS
  <2>2. q <= -1 => k * q <= -k
    OBVIOUS
  <2>3. QED
    BY <1>1, <1>3, <2>1, <2>2
<1>4. n \div k = 0
  BY <1>2, <1>3
<1>5. QED
  BY <1>2, <1>4

\* and what holds the divisor once.
LEMMA Once ==
  ASSUME NEW k \in Nat \ {0}, NEW n \in k .. 2 * k - 1
  PROVE  n \div k = 1 /\ n % k = n - k
<1> DEFINE r == n - k
<1>1. n = k * 1 + r /\ r \in 0 .. k - 1 /\ 1 \in Int
  OBVIOUS
<1> HIDE DEF r
<1>2. n \div k = 1 /\ n % k = r
  BY <1>1, DivisionIs
<1>3. QED
  BY <1>2 DEF r

\* Borrowing one from the upper digit.
LEMMA Borrow ==
  ASSUME NEW i \in Int, NEW j \in Int, NEW p \in Int
  PROVE  i * p + j = (i - 1) * p + (j + p)
OBVIOUS

\* The widths of the format in terms of Bias and of the weight of the hidden bit.
LEMMA FormatWidths ==
  /\ F \in Nat \ {0} /\ Bias \in Nat \ {0} /\ Pow2[F] \in Nat \ {0, 1}
  /\ Pow2[EB] = 2 * Bias + 2 /\ EMax = 2 * Bias + 1 /\ EMax \in Nat
  /\ Pow2[F] = 2 * Pow2[F - 1] /\ Pow2[F + 1] = 2 * Pow2[F]
  /\ Pow2[F - 1] \in Nat \ {0}
<1>1. F \in Nat \ {0} /\ F - 1 \in Nat /\ EB - 1 \in Nat \ {0} /\ EB - 2 \in Nat
  BY FormatAssumption
<1>2. /\ Pow2[EB] = 2 * Pow2[EB - 1] /\ Pow2[EB - 1] = 2 * Pow2[EB - 2]
      /\ Pow2[F] = 2 * Pow2[F - 1] /\ Pow2[F + 1] = 2 * Pow2[F]
  <2>1. F - 1 + 1 = F /\ EB - 1 + 1 = EB /\ EB - 2 + 1 = EB - 1
    BY FormatAssumption
  <2>2. QED
    BY <1>1, <2>1, PowStep
<1>3. /\ Pow2[EB - 2] \in Nat \ {0} /\ Pow2[F - 1] \in Nat \ {0}
  BY <1>1, PowNat
<1>4. QED
  BY <1>1, <1>2, <1>3 DEF Bias, EMax

\* A magnitude is its mantissa, hidden bit included, times the weight of its last place.
LEMMA UnitsOfMantissa ==
  ASSUME NEW E \in Nat \ {0}, NEW M \in 0 .. 2 * Pow2[F], M >= Pow2[F] \/ E = 1
  PROVE  /\ (E - 1) * Pow2[F] + M \in Nat
         /\ Units((E - 1) * Pow2[F] + M) = M * Pow2[E - 1]
<1> DEFINE P == Pow2[F]
           m == (E - 1) * P + M
<1>1. P \in Nat \ {0}
  BY FormatWidths
<1>2. m \in Nat
  <2>1. ASSUME NEW i \in Nat, NEW j \in Nat PROVE i * j \in Nat
    OBVIOUS
  <2>2. QED
    BY <1>1, <2>1
<1>3. CASE M < P
  <2>1. E = 1 /\ m = M
    BY <1>1, <1>3
  <2>2. QED
    BY <1>2, <1>3, <2>1, PowStep DEF Units
<1>4. CASE M >= P /\ M < 2 * P
  <2>1. m = P * E + (M - P) /\ M - P \in 0 .. P - 1 /\ E \in Int
    BY <1>1, <1>4
  <2>2. m \div P = E /\ m % P = M - P
    <3> DEFINE r == M - P
    <3>1. m = P * E + r /\ r \in 0 .. P - 1 /\ E \in Int
      BY <2>1
    <3> HIDE DEF m, P, r
    <3>2. m \div P = E /\ m % P = r
      BY <1>1, <3>1, DivisionIs
    <3>3. QED
      BY <3>2 DEF r
  <2>3. ~(m < P)
    <3>1. P * E >= P
      BY <1>1
    <3>2. QED
      <4> HIDE DEF m, P
      <4> QED BY <1>1, <2>1, <3>1
  <2>4. Units(m) = (P + (M - P)) * Pow2[E - 1]
    BY <2>2, <2>3 DEF Units
  <2>5. QED
    BY <1>1, <1>2, <2>4
<1>5. CASE M = 2 * P
  <2>1. m = P * (E + 1) + 0 /\ 0 \in 0 .. P - 1 /\ E + 1 \in Int
    BY <1>1, <1>5
  <2>2. m \div P = E + 1 /\ m % P = 0
    <3> DEFINE q == E + 1
    <3>1. m = P * q + 0 /\ 0 \in 0 .. P - 1 /\ q \in Int
      BY <2>1
    <3> HIDE DEF m, P, q
    <3>2. m \div P = q /\ m % P = 0
      BY <1>1, <3>1, DivisionIs
    <3>3. QED
      BY <3>2, Zenon DEF q
  <2>3. ~(m < P)
    <3>1. P * (E + 1) >= P
      BY <1>1
    <3>2. QED
      <4> HIDE DEF m, P
      <4> QED BY <1>1, <2>1, <3>1
  <2>4. Units(m) = (P + 0) * Pow2[E + 1 - 1]
    BY <2>2, <2>3 DEF Units
  <2>5. Pow2[E + 1 - 1] = 2 * Pow2[E - 1] /\ Pow2[E - 1] \in Nat
    BY PowStep, PowNat, E - 1 \in Nat, E - 1 + 1 = E + 1 - 1
  <2>6. QED
    BY <1>1, <1>2, <1>5, <2>4, <2>5
<1>6. QED
  BY <1>1, <1>3, <1>4, <1>5

\* Every magnitude has such a mantissa.
LEMMA MantissaOf ==
  ASSUME NEW m \in Nat
  PROVE  \E E \in Nat \ {0}, M \in 0 .. 2 * Pow2[F] - 1 :
           /\ M >= Pow2[F] \/ E = 1
           /\ m = (E - 1) * Pow2[F] + M
<1> DEFINE P == Pow2[F]
<1>1. P \in Nat \ {0}
  BY FormatWidths
<1>2. CASE m < P
  BY <1>1, <1>2, m = (1 - 1) * P + m, 1 \in Nat \ {0}
<1>3. CASE m >= P
  <2>0. m \in Int
    OBVIOUS
  <2>1. /\ m \div P \in Nat /\ m % P \in 0 .. P - 1
        /\ m = (P * (m \div P)) + (m % P)
    <3> HIDE DEF P
    <3> QED BY <1>1, <2>0, Division, Zenon
  <2>2. m \div P # 0
    BY <1>1, <1>3, <2>1
  <2>3. m = (m \div P - 1) * P + (P + (m % P))
    BY <1>1, <2>1
  <2>4. QED
    <3>1. P + (m % P) >= P /\ P + (m % P) \in 0 .. 2 * P - 1
      <4> HIDE DEF P
      <4> QED BY <1>1, <2>1
    <3>2. QED
      BY <1>1, <2>1, <2>2, <2>3, <3>1
<1>4. QED
  BY <1>1, <1>2, <1>3

\* The magnitudes are in order.
LEMMA UnitsGrow ==
  ASSUME NEW m \in Nat
  PROVE  /\ Units(m) \in Nat /\ Units(m) < Units(m + 1)
         /\ Units(0) = 0
<1> DEFINE P == Pow2[F]
<1>1. P \in Nat \ {0}
  BY FormatWidths
<1>2. PICK E \in Nat \ {0}, M \in 0 .. 2 * P - 1 :
        (M >= P \/ E = 1) /\ m = (E - 1) * P + M
  BY MantissaOf
<1>3. Pow2[E - 1] \in Nat \ {0}
  BY PowNat
<1>4. Units(m) = M * Pow2[E - 1]
  BY <1>1, <1>2, UnitsOfMantissa
<1>5. Units(m + 1) = (M + 1) * Pow2[E - 1]
  <2>1. m + 1 = (E - 1) * P + (M + 1) /\ M + 1 \in 0 .. 2 * P /\ (M + 1 >= P \/ E = 1)
    BY <1>1, <1>2
  <2>2. QED
    BY <2>1, UnitsOfMantissa
<1>6. Units(0) = 0
  BY <1>1 DEF Units
<1>7. QED
  BY <1>3, <1>4, <1>5, <1>6

\* The value of a float, counted in subnormals, grows with its magnitude.
LEMMA UnitsOrder ==
  ASSUME NEW m \in Nat, NEW n \in Nat
  PROVE  /\ m <= n => Units(m) <= Units(n)
         /\ m < n => Units(m) < Units(n)
<1>1. ASSUME NEW k \in Nat PROVE Units(m) <= Units(m + k)
  <2> DEFINE T == {i \in Nat : Units(m) <= Units(m + i)}
  <2>1. 0 \in T
    BY UnitsGrow
  <2>2. ASSUME NEW i \in Nat, i \in T PROVE i + 1 \in T
    <3>1. Units(m + i) < Units((m + i) + 1) /\ Units(m + i) \in Nat
      BY UnitsGrow, m + i \in Nat
    <3>2. Units((m + i) + 1) \in Nat /\ Units(m) \in Nat
      BY UnitsGrow, m + i + 1 \in Nat
    <3>3. Units(m) <= Units((m + i) + 1) /\ (m + i) + 1 = m + (i + 1)
      BY <2>2, <3>1, <3>2
    <3>4. QED
      BY <3>3
  <2>3. T = Nat
    <3> HIDE DEF T
    <3> QED BY <2>1, <2>2, InductionSet, T \subseteq Nat DEF T
  <2>4. QED
    BY <2>3
<1>2. ASSUME m <= n PROVE Units(m) <= Units(n)
  BY <1>1, <1>2, n - m \in Nat, m + (n - m) = n
<1>3. ASSUME m < n PROVE Units(m) < Units(n)
  <2>1. Units(m) <= Units(n - 1)
    BY <1>1, <1>3, n - 1 - m \in Nat, m + (n - 1 - m) = n - 1
  <2>2. Units(n - 1) < Units(n - 1 + 1) /\ n - 1 + 1 = n
    BY <1>3, UnitsGrow, n - 1 \in Nat
  <2>3. Units(m) \in Nat /\ Units(n) \in Nat /\ Units(n - 1) \in Nat
    BY <1>3, UnitsGrow, n - 1 \in Nat
  <2>4. QED
    BY <2>1, <2>2, <2>3
<1>4. QED
  BY <1>2, <1>3

--------------------------------------------------------------------------------
(* The float nearest to a number.                                           *)

\* The distance of the value U / One to num / den, as Nearest measures it.
DistanceTo(u, num, den) ==
  IF u * den >= One * num THEN u * den - One * num ELSE One * num - u * den

\* The range of the magnitudes; infinity's magnitude is even.
LEMMA FormatRange ==
  /\ InfMag \in Nat \ {0} /\ One \in Nat \ {0}
  /\ InfMag = EMax * Pow2[F] /\ InfMag % 2 = 0
<1>1. /\ EMax \in Nat \ {0} /\ Pow2[F] \in Nat \ {0} /\ Bias + F - 1 \in Nat
      /\ Pow2[F - 1] \in Nat /\ Pow2[F] = 2 * Pow2[F - 1]
  BY FormatWidths
<1>2. InfMag \in Nat \ {0}
  BY <1>1 DEF InfMag
<1>3. One \in Nat \ {0}
  BY <1>1, PowNat DEF One
<1>4. InfMag = 2 * (EMax * Pow2[F - 1])
  BY <1>1 DEF InfMag
<1>5. EMax * Pow2[F - 1] \in Nat
  BY <1>1
<1>6. QED
  BY <1>2, <1>3, <1>4, <1>5 DEF InfMag

\* What makes m the nearest magnitude: the number is not beyond the middle between m
\* and either neighbour, and in the middle only if m is even.
Middle(m, num, den) ==
  /\ m > 0 => LET s == (Units(m) + Units(m - 1)) * den
              IN  s < 2 * (One * num) \/ (s = 2 * (One * num) /\ m % 2 = 0)
  /\ m < InfMag => LET s == (Units(m) + Units(m + 1)) * den
                   IN  2 * (One * num) < s \/ (s = 2 * (One * num) /\ m % 2 = 0)

\* Of a pair of values p < q, the lower is nearer to val below their middle.
LEMMA NearerThan ==
  ASSUME NEW p \in Nat, NEW q \in Nat, p < q, NEW num \in Nat, NEW den \in Nat \ {0}
  PROVE  LET s == (p + q) * den
             val == 2 * (One * num)
             dp == DistanceTo(p, num, den)
             dq == DistanceTo(q, num, den)
         IN  /\ (val < s <=> dp < dq) /\ (s < val <=> dq < dp)
             /\ (val = s <=> dp = dq) /\ (val = s <=> dq = dp)
             /\ s \in Nat /\ val \in Nat
<1>1. One * num \in Nat
  BY FormatRange
<1>2. p * den \in Nat /\ q * den \in Nat /\ p * den < q * den
      /\ (p + q) * den = p * den + q * den
  OBVIOUS
<1>3. QED
  BY <1>1, <1>2 DEF DistanceTo

\* The middle decides: a magnitude within both middles is the one that Nearest chooses.
LEMMA NearestIs ==
  ASSUME NEW num \in Nat, NEW den \in Nat \ {0}, NEW m \in 0 .. InfMag, Middle(m, num, den)
  PROVE  Nearest(num, den) = m
<1> DEFINE D(n) == DistanceTo(Units(n), num, den)
           Wins(k) == \A n \in {k - 1, k + 1} \cap 0 .. InfMag :
                        D(k) < D(n) \/ (D(k) = D(n) /\ k % 2 = 0)
           val == 2 * (One * num)
           s(k) == (Units(k) + Units(k + 1)) * den
<1>1. InfMag \in Nat
  BY FormatRange
<1>2. ASSUME NEW k \in Nat
      PROVE  /\ s(k) \in Nat /\ val \in Nat
             /\ val < s(k) <=> D(k) < D(k + 1)
             /\ s(k) < val <=> D(k + 1) < D(k)
             /\ val = s(k) <=> D(k) = D(k + 1)
             /\ val = s(k) <=> D(k + 1) = D(k)
  <2> DEFINE p == Units(k)
             q == Units(k + 1)
             t == (p + q) * den
             dp == DistanceTo(p, num, den)
             dq == DistanceTo(q, num, den)
  <2>1. p \in Nat /\ q \in Nat /\ p < q
    BY UnitsGrow, k + 1 \in Nat
  <2>2. /\ t \in Nat /\ val \in Nat
        /\ (val < t <=> dp < dq) /\ (t < val <=> dq < dp)
        /\ (val = t <=> dp = dq) /\ (val = t <=> dq = dp)
    <3> HIDE DEF p, q
    <3> QED BY <2>1, NearerThan
  <2>3. QED
    BY <2>2
<1>3. ASSUME NEW k \in 0 .. InfMag
      PROVE  Wins(k) <=>
               /\ k > 0 => s(k - 1) < val \/ (s(k - 1) = val /\ k % 2 = 0)
               /\ k < InfMag => val < s(k) \/ (s(k) = val /\ k % 2 = 0)
  <2>1. CASE k > 0 /\ k < InfMag
    <3>1. {k - 1, k + 1} \cap 0 .. InfMag = {k - 1, k + 1} /\ k - 1 \in Nat /\ k \in Nat
          /\ k - 1 + 1 = k
      BY <1>1, <2>1
    <3> HIDE DEF D, s, val
    <3>2. QED
      BY <2>1, <3>1, <1>2
  <2>2. CASE k > 0 /\ k = InfMag
    <3>1. {k - 1, k + 1} \cap 0 .. InfMag = {k - 1} /\ k - 1 \in Nat /\ k - 1 + 1 = k
          /\ k \in Nat
      BY <1>1, <2>2
    <3> HIDE DEF D, s, val
    <3>2. QED
      BY <1>1, <2>2, <3>1, <1>2
  <2>3. CASE k = 0
    <3>1. {k - 1, k + 1} \cap 0 .. InfMag = {1} /\ 0 \in Nat /\ 0 < InfMag /\ 0 + 1 = 1
      BY <1>1, <2>3, FormatRange
    <3> HIDE DEF D, s, val
    <3>2. QED
      BY <2>3, <3>1, <1>2
  <2>4. QED
    BY <1>1, <2>1, <2>2, <2>3
<1>4. Wins(m)
  <2>1. m - 1 + 1 = m
    BY <1>1
  <2>2. m > 0 => s(m - 1) = (Units(m) + Units(m - 1)) * den
    <3>1. m > 0 => Units(m) \in Nat /\ Units(m - 1) \in Nat
      BY <1>1, UnitsGrow, m \in Nat, m > 0 => m - 1 \in Nat
    <3>2. QED
      BY <2>1, <3>1
  <2>3. QED
    BY <1>3, <2>2 DEF Middle
<1>5. ASSUME NEW k \in 0 .. InfMag, NEW n \in 0 .. InfMag, k < n, Wins(k), Wins(n)
      PROVE  FALSE
  <2>1. /\ n - 1 \in Nat /\ k \in Nat /\ k <= n - 1 /\ n > 0 /\ k < InfMag
        /\ n - 1 + 1 = n /\ n \in Nat /\ k + 1 \in Nat
    BY <1>1, <1>5
  <2>2. s(n - 1) < val \/ (s(n - 1) = val /\ n % 2 = 0)
    BY <1>3, <1>5, <2>1
  <2>3. val < s(k) \/ (s(k) = val /\ k % 2 = 0)
    BY <1>3, <1>5, <2>1
  <2>4. s(k) \in Nat /\ s(n - 1) \in Nat /\ val \in Nat
    BY <1>2, <2>1
  <2>5. CASE k = n - 1
    <3>1. s(k) = s(n - 1)
      BY <2>5
    <3>2. k % 2 = 0 /\ (k + 1) % 2 = 0
      <4> HIDE DEF s, val
      <4> QED BY <2>1, <2>2, <2>3, <2>4, <3>1, <2>5
    <3>3. QED
      BY <2>1, <3>2
  <2>6. CASE k < n - 1
    <3>1. /\ Units(k) < Units(n - 1) /\ Units(k + 1) < Units(n)
          /\ Units(k) \in Nat /\ Units(k + 1) \in Nat
          /\ Units(n - 1) \in Nat /\ Units(n) \in Nat
      BY <2>1, <2>6, UnitsOrder, UnitsGrow, k + 1 < n
    <3>2. ASSUME NEW p \in Nat, NEW q \in Nat, p < q PROVE p * den < q * den
      BY <3>2
    <3>3. s(k) < s(n - 1)
      BY <2>1, <3>1, <3>2, Units(k) + Units(k + 1) < Units(n - 1) + Units(n)
    <3>4. QED
      <4> HIDE DEF s, val
      <4> QED BY <2>2, <2>3, <2>4, <3>3
  <2>7. QED
    BY <2>1, <2>5, <2>6
<1>6. Nearest(num, den) = CHOOSE k \in 0 .. InfMag : Wins(k)
  BY DEF Nearest, DistanceTo
<1>7. \A k \in 0 .. InfMag : Wins(k) => k = m
  <2> HIDE DEF Wins
  <2> QED BY <1>1, <1>4, <1>5
<1>8. QED
  <2> HIDE DEF Wins
  <2> QED BY <1>4, <1>6, <1>7

--------------------------------------------------------------------------------
(* Rounding by guard, round and sticky bit.                                 *)

\* A number bracketed by two magnitudes rounds to the lower or to the upper one.
LEMMA NearestOfTwo ==
  ASSUME NEW num \in Nat, NEW den \in Nat \ {0}, NEW m \in Nat, m < InfMag,
         NEW up \in BOOLEAN,
         Units(m) * den <= One * num, One * num < Units(m + 1) * den,
         up => (Units(m) + Units(m + 1)) * den <= 2 * (One * num),
         ~up => 2 * (One * num) <= (Units(m) + Units(m + 1)) * den,
         2 * (One * num) = (Units(m) + Units(m + 1)) * den => (up <=> m % 2 = 1)
  PROVE  Nearest(num, den) = IF up THEN m + 1 ELSE m
<1> DEFINE val == One * num
           U(n) == Units(n) * den
<1>1. val \in Nat /\ InfMag \in Nat
  BY FormatRange
<1>2. ASSUME NEW n \in Nat PROVE U(n) \in Nat /\ U(n) < U(n + 1)
  BY UnitsGrow, n + 1 \in Nat
<1>3. ASSUME NEW n \in Nat
      PROVE  /\ (Units(n) + Units(n + 1)) * den = U(n) + U(n + 1)
             /\ (Units(n + 1) + Units(n)) * den = U(n) + U(n + 1)
  BY UnitsGrow, n + 1 \in Nat
<1>4. CASE up
  <2>1. m + 1 \in 0 .. InfMag /\ m + 1 \in Nat /\ m + 1 > 0 /\ m + 1 - 1 = m
    BY <1>1
  <2>2. U(m) + U(m + 1) <= 2 * val /\ val < U(m + 1)
        /\ (2 * val = U(m) + U(m + 1) => (m + 1) % 2 = 0)
    BY <1>3, <1>4
  <2>3. U(m + 1) \in Nat /\ U(m + 2) \in Nat /\ U(m + 1) < U(m + 2) /\ U(m) \in Nat
    BY <1>2, m + 1 + 1 = m + 2, m + 1 \in Nat, m + 2 \in Nat
  <2>4. (Units(m + 1) + Units(m + 1 + 1)) * den = U(m + 1) + U(m + 2)
    BY <1>3, <2>1, m + 1 + 1 = m + 2
  <2>5. Middle(m + 1, num, den)
    <3>1. (Units(m + 1) + Units(m + 1 - 1)) * den = U(m) + U(m + 1)
      BY <1>3, <2>1
    <3>2. \/ U(m) + U(m + 1) < 2 * val
          \/ U(m) + U(m + 1) = 2 * val /\ (m + 1) % 2 = 0
      <4> HIDE DEF val, U
      <4> QED BY <1>1, <2>2, <2>3
    <3>3. 2 * val < U(m + 1) + U(m + 2)
      <4> HIDE DEF val, U
      <4> QED BY <1>1, <2>2, <2>3
    <3> HIDE DEF U
    <3>4. QED
      BY <2>4, <3>1, <3>2, <3>3 DEF Middle
  <2>6. QED
    BY <1>4, <2>1, <2>5, NearestIs
<1>5. CASE ~up
  <2>1. m \in 0 .. InfMag
    BY <1>1
  <2>2. /\ 2 * val <= U(m) + U(m + 1) /\ U(m) <= val
        /\ 2 * val = U(m) + U(m + 1) => m % 2 = 0
    BY <1>3, <1>5
  <2>3. (Units(m) + Units(m + 1)) * den = U(m) + U(m + 1)
    BY <1>3
  <2>4. m > 0 => /\ (Units(m) + Units(m - 1)) * den = U(m - 1) + U(m)
                 /\ U(m - 1) \in Nat /\ U(m - 1) < U(m)
    <3>1. m > 0 => m - 1 \in Nat /\ m - 1 + 1 = m
      OBVIOUS
    <3>2. QED
      BY <1>2, <1>3, <3>1
  <2>5. Middle(m, num, den)
    <3>1. m > 0 => U(m - 1) + U(m) < 2 * val
      <4> HIDE DEF val, U
      <4> QED BY <1>1, <1>2, <2>2, <2>4
    <3>2. \/ 2 * val < U(m) + U(m + 1)
          \/ U(m) + U(m + 1) = 2 * val /\ m % 2 = 0
      <4>1. U(m) \in Nat /\ U(m + 1) \in Nat
        BY <1>2, m + 1 \in Nat
      <4> HIDE DEF val, U
      <4>2. QED
        BY <1>1, <2>2, <4>1
    <3> HIDE DEF U
    <3>3. QED
      BY <2>3, <2>4, <3>1, <3>2 DEF Middle
  <2>6. QED
    BY <1>5, <2>1, <2>5, NearestIs
<1>6. QED
  BY <1>4, <1>5

\* What is not below the next binade rounds to infinity.
LEMMA NearestOverflow ==
  ASSUME NEW num \in Nat, NEW den \in Nat \ {0}, Units(InfMag) * den <= One * num
  PROVE  Nearest(num, den) = InfMag
<1>1. /\ InfMag \in Nat /\ InfMag > 0 /\ InfMag - 1 \in Nat /\ InfMag - 1 + 1 = InfMag
      /\ One * num \in Nat /\ InfMag \in 0 .. InfMag
  BY FormatRange
<1>2. /\ Units(InfMag) \in Nat /\ Units(InfMag - 1) \in Nat
      /\ Units(InfMag - 1) < Units(InfMag)
  BY <1>1, UnitsGrow
<1>3. /\ (Units(InfMag) + Units(InfMag - 1)) * den
           = Units(InfMag) * den + Units(InfMag - 1) * den
      /\ Units(InfMag - 1) * den < Units(InfMag) * den
      /\ Units(InfMag - 1) * den \in Nat /\ Units(InfMag) * den \in Nat
  BY <1>2
<1>4. (Units(InfMag) + Units(InfMag - 1)) * den < 2 * (One * num)
  BY <1>1, <1>3
<1>5. Middle(InfMag, num, den)
  BY <1>1, <1>4 DEF Middle
<1>6. QED
  BY <1>1, <1>5, NearestIs

\* What guard, round and sticky bit say of the number between two mantissas.
\* V counts quarters of a last place, A is the last place and val the number, both in
\* some common unit.
Between(val, A, M, g, r, t) ==
  LET V == 4 * M + 2 * g + r
  IN  V * A <= 4 * val /\ 4 * val < (V + 2 - r) * A /\ (t = 0 <=> V * A = 4 * val)

\* A bracketed number, with the ranges of all that Between relates.
Bracket(v, A, z, g, r, t) ==
  /\ v \in Nat /\ A \in Nat \ {0} /\ z \in Nat
  /\ g \in {0, 1} /\ r \in {0, 1} /\ t \in {0, 1}
  /\ Between(v, A, z, g, r, t)

\* When the guard bits ask for the upper of the two.
Upwards(M, g, r, t) == g = 1 /\ (r = 1 \/ t = 1 \/ M % 2 = 1)

\* What the guard bits ask for is on the right side of the middle, ties going to even.
LEMMA GuardBits ==
  ASSUME NEW val, NEW A, NEW M, NEW g, NEW r, NEW t, Bracket(val, A, M, g, r, t)
  PROVE  /\ M * A <= val /\ val < (M + 1) * A
         /\ Upwards(M, g, r, t) => M * A + (M + 1) * A <= 2 * val
         /\ ~Upwards(M, g, r, t) => 2 * val <= M * A + (M + 1) * A
         /\ 2 * val = M * A + (M + 1) * A => (Upwards(M, g, r, t) <=> M % 2 = 1)
<1> SUFFICES ASSUME val \in Nat, A \in Nat \ {0}, M \in Nat,
                    g \in {0, 1}, r \in {0, 1}, t \in {0, 1}, Between(val, A, M, g, r, t)
             PROVE  /\ M * A <= val /\ val < (M + 1) * A
                    /\ Upwards(M, g, r, t) => M * A + (M + 1) * A <= 2 * val
                    /\ ~Upwards(M, g, r, t) => 2 * val <= M * A + (M + 1) * A
                    /\ 2 * val = M * A + (M + 1) * A => (Upwards(M, g, r, t) <=> M % 2 = 1)
  BY DEF Bracket
<1> DEFINE B == M * A
<1>1. B \in Nat /\ (M + 1) * A = B + A
  OBVIOUS
<1> SUFFICES /\ B <= val /\ val < B + A
             /\ Upwards(M, g, r, t) => B + B + A <= 2 * val
             /\ ~Upwards(M, g, r, t) => 2 * val <= B + B + A
             /\ 2 * val = B + B + A => (Upwards(M, g, r, t) <=> M % 2 = 1)
  BY <1>1
<1>2. CASE g = 0 /\ r = 0
  <2>1. /\ (4 * M + 2 * g + r) * A = 4 * B
        /\ (4 * M + 2 * g + r + 2 - r) * A = 4 * B + 2 * A
    BY <1>2
  <2>2. 4 * B <= 4 * val /\ 4 * val < 4 * B + 2 * A /\ (t = 0 <=> 4 * B = 4 * val)
    BY <2>1 DEF Between
  <2> HIDE DEF B
  <2>3. QED
    BY <1>1, <1>2, <2>2 DEF Upwards
<1>3. CASE g = 0 /\ r = 1
  <2>1. /\ (4 * M + 2 * g + r) * A = 4 * B + A
        /\ (4 * M + 2 * g + r + 2 - r) * A = 4 * B + 2 * A
    BY <1>3
  <2>2. 4 * B + A <= 4 * val /\ 4 * val < 4 * B + 2 * A /\ (t = 0 <=> 4 * B + A = 4 * val)
    BY <2>1 DEF Between
  <2> HIDE DEF B
  <2>3. QED
    BY <1>1, <1>3, <2>2 DEF Upwards
<1>4. CASE g = 1 /\ r = 0
  <2>1. /\ (4 * M + 2 * g + r) * A = 4 * B + 2 * A
        /\ (4 * M + 2 * g + r + 2 - r) * A = 4 * B + 4 * A
    BY <1>4
  <2>2. 4 * B + 2 * A <= 4 * val /\ 4 * val < 4 * B + 4 * A /\ (t = 0 <=> 4 * B + 2 * A = 4 * val)
    BY <2>1 DEF Between
  <2> HIDE DEF B
  <2>3. QED
    BY <1>1, <1>4, <2>2 DEF Upwards
<1>5. CASE g = 1 /\ r = 1
  <2>1. /\ (4 * M + 2 * g + r) * A = 4 * B + 3 * A
        /\ (4 * M + 2 * g + r + 2 - r) * A = 4 * B + 4 * A
    BY <1>5
  <2>2. 4 * B + 3 * A <= 4 * val /\ 4 * val < 4 * B + 4 * A /\ (t = 0 <=> 4 * B + 3 * A = 4 * val)
    BY <2>1 DEF Between
  <2> HIDE DEF B
  <2>3. QED
    BY <1>1, <1>5, <2>2 DEF Upwards
<1>6. QED
  BY <1>2, <1>3, <1>4, <1>5

\* A number num / den of which guard bits are known, with the ranges of all that they
\* relate: M is a mantissa with exponent field E, or a subnormal one with E = 1, the
\* last place is worth Pow2[E - 1], and N is the mantissa that the guard bits ask for.
Guarded(num, den, E, M, g, r, t, N) ==
  /\ num \in Nat /\ den \in Nat \ {0} /\ E \in Nat \ {0}
  /\ M \in 0 .. 2 * Pow2[F] - 1 /\ (M >= Pow2[F] \/ E = 1)
  /\ g \in {0, 1} /\ r \in {0, 1} /\ t \in {0, 1}
  /\ Between(One * num, Pow2[E - 1] * den, M, g, r, t)
  /\ N = IF Upwards(M, g, r, t) THEN M + 1 ELSE M

\* Rounding by guard bits yields the nearest float.
LEMMA RoundsTo ==
  ASSUME NEW s, NEW num, NEW den, NEW E, NEW M, NEW g, NEW r, NEW t, NEW N,
         Guarded(num, den, E, M, g, r, t, N), E < EMax
  PROVE  /\ N = 2 * Pow2[F] => Round(s, num, den) = [s |-> s, e |-> E + 1, f |-> 0]
         /\ N \in Pow2[F] .. 2 * Pow2[F] - 1 =>
              Round(s, num, den) = [s |-> s, e |-> E, f |-> N - Pow2[F]]
         /\ N < Pow2[F] => Round(s, num, den) = [s |-> s, e |-> 0, f |-> N]
<1> SUFFICES ASSUME num \in Nat, den \in Nat \ {0}, E \in Nat \ {0},
                    M \in 0 .. 2 * Pow2[F] - 1, M >= Pow2[F] \/ E = 1,
                    g \in {0, 1}, r \in {0, 1}, t \in {0, 1},
                    Between(One * num, Pow2[E - 1] * den, M, g, r, t),
                    N = IF Upwards(M, g, r, t) THEN M + 1 ELSE M
             PROVE
         /\ N = 2 * Pow2[F] => Round(s, num, den) = [s |-> s, e |-> E + 1, f |-> 0]
         /\ N \in Pow2[F] .. 2 * Pow2[F] - 1 =>
              Round(s, num, den) = [s |-> s, e |-> E, f |-> N - Pow2[F]]
         /\ N < Pow2[F] => Round(s, num, den) = [s |-> s, e |-> 0, f |-> N]
  BY DEF Guarded
<1> DEFINE P == Pow2[F]
           w == Pow2[E - 1]
           A == w * den
           val == One * num
           m == (E - 1) * P + M
           up == Upwards(M, g, r, t)
<1>1. /\ P \in Nat \ {0, 1} /\ w \in Nat \ {0} /\ val \in Nat /\ M \in Nat
      /\ EMax \in Nat /\ InfMag = EMax * P /\ P = 2 * Pow2[F - 1] /\ Pow2[F - 1] \in Nat
  BY FormatWidths, FormatRange, PowNat
<1>2. A \in Nat \ {0}
  BY <1>1
<1>3. /\ m \in Nat /\ Units(m) = M * w /\ Units(m + 1) = (M + 1) * w
  <2>1. /\ m + 1 = (E - 1) * P + (M + 1) /\ M + 1 \in 0 .. 2 * P /\ M \in 0 .. 2 * P
        /\ M + 1 >= P \/ E = 1
    BY <1>1
  <2>2. QED
    BY <2>1, UnitsOfMantissa
<1>4. /\ Units(m) * den = M * A /\ Units(m + 1) * den = (M + 1) * A
      /\ (Units(m) + Units(m + 1)) * den = M * A + (M + 1) * A
  BY <1>1, <1>3
<1>5. /\ M * A <= val /\ val < (M + 1) * A
      /\ up => M * A + (M + 1) * A <= 2 * val
      /\ ~up => 2 * val <= M * A + (M + 1) * A
      /\ 2 * val = M * A + (M + 1) * A => (up <=> M % 2 = 1)
  <2>1. Between(val, A, M, g, r, t)
    OBVIOUS
  <2> HIDE DEF A, val, P, w, m, up
  <2>2. Bracket(val, A, M, g, r, t)
    BY <1>1, <1>2, <2>1 DEF Bracket
  <2>3. QED
    BY <2>2, GuardBits DEF up
<1>6. m < InfMag
  <2>1. (E + 1) * P <= EMax * P /\ m < (E + 1) * P
    <3>1. ASSUME NEW i \in Nat, i <= EMax PROVE i * P <= EMax * P
      BY <1>1, <3>1
    <3>2. (E + 1) * P = (E - 1) * P + 2 * P
      BY <1>1
    <3>3. QED
      BY <1>1, <3>1, <3>2, E + 1 \in Nat, E + 1 <= EMax
  <2>2. QED
    BY <1>1, <1>3, <2>1
<1>7. m % 2 = 1 <=> M % 2 = 1
  <2>1. m = 2 * ((E - 1) * Pow2[F - 1]) + M /\ (E - 1) * Pow2[F - 1] \in Nat
    BY <1>1
  <2> HIDE DEF m
  <2>2. QED
    BY <1>1, <2>1
<1>8. Nearest(num, den) = IF up THEN m + 1 ELSE m
  <2>1. up \in BOOLEAN
    BY DEF Upwards
  <2>2. /\ Units(m) * den <= val /\ val < Units(m + 1) * den
        /\ up => (Units(m) + Units(m + 1)) * den <= 2 * val
        /\ ~up => 2 * val <= (Units(m) + Units(m + 1)) * den
        /\ 2 * val = (Units(m) + Units(m + 1)) * den => (up <=> m % 2 = 1)
    <3> HIDE DEF m, val, A, up
    <3> QED BY <1>4, <1>5, <1>7
  <2>3. QED
    <3> HIDE DEF m, up
    <3> QED BY <1>3, <1>6, <2>1, <2>2, NearestOfTwo
<1>9. Nearest(num, den) = (E - 1) * P + N /\ N \in 0 .. 2 * P
  BY <1>1, <1>8
<1>10. \A q \in Int, k \in 0 .. P - 1 :
         (E - 1) * P + N = P * q + k
           => Round(s, num, den) = [s |-> s, e |-> q, f |-> k]
  <2>1. ASSUME NEW q \in Int, NEW k \in 0 .. P - 1, Nearest(num, den) = P * q + k
        PROVE  Nearest(num, den) \div P = q /\ Nearest(num, den) % P = k
    <3> DEFINE n == Nearest(num, den)
    <3>1. n = P * q + k /\ P \in Nat \ {0}
      BY <1>1, <2>1
    <3> HIDE DEF P, n
    <3>2. n \div P = q /\ n % P = k
      BY <3>1, DivisionIs
    <3>3. QED
      BY <3>2 DEF n
  <2>2. QED
    BY <1>9, <2>1 DEF Round
<1>11. CASE N = 2 * P
  <2>1. (E - 1) * P + 2 * P = P * (E + 1) + 0 /\ 0 \in 0 .. P - 1 /\ E + 1 \in Int
    <3> HIDE DEF P
    <3> QED BY <1>1
  <2>2. N # 2 * P - 1 /\ ~(N < P)
    BY <1>1, <1>11
  <2>3. QED
    BY <1>10, <1>11, <2>1, <2>2
<1>12. CASE N \in P .. 2 * P - 1
  BY <1>1, <1>10, <1>12, (E - 1) * P + N = P * E + (N - P), N - P \in 0 .. P - 1
<1>13. CASE N < P
  <2>1. E = 1
    BY <1>1, <1>13
  <2>2. QED
    BY <1>1, <1>9, <1>10, <1>13, <2>1, (E - 1) * P + N = P * 0 + N, N \in 0 .. P - 1
<1>14. QED
  <2> HIDE DEF P
  <2> QED BY <1>1, <1>9, <1>11, <1>12, <1>13 DEF P

\* A number past the largest exponent rounds to infinity (the pack state of
\* ibex_float_divider.sv).
LEMMA RoundsToInfinity ==
  ASSUME NEW s, NEW num \in Nat, NEW den \in Nat \ {0},
         NEW E \in Nat \ {0}, E >= EMax, NEW M \in Pow2[F] .. 2 * Pow2[F] - 1,
         M * (Pow2[E - 1] * den) <= One * num
  PROVE  Round(s, num, den) = Infinity(s)
<1> DEFINE P == Pow2[F]
           m == (E - 1) * P + M
<1>1. /\ P \in Nat \ {0, 1} /\ Pow2[E - 1] \in Nat \ {0} /\ One * num \in Nat
      /\ EMax \in Nat /\ InfMag = EMax * P /\ InfMag \in Nat
  BY FormatWidths, FormatRange, PowNat
<1>2. m \in Nat /\ Units(m) = M * Pow2[E - 1]
  BY <1>1, UnitsOfMantissa, M \in 0 .. 2 * P
<1>3. InfMag <= m
  <2>1. m >= E * P
    BY <1>1
  <2>2. E * P >= EMax * P
    <3>1. ASSUME NEW i \in Nat, i >= EMax PROVE i * P >= EMax * P
      BY <1>1, <3>1
    <3>2. QED
      BY <3>1
  <2>3. QED
    BY <1>1, <1>2, <2>1, <2>2
<1>4. Units(InfMag) * den <= One * num
  <2>1. Units(InfMag) <= Units(m) /\ Units(InfMag) \in Nat /\ Units(m) \in Nat
    <3> HIDE DEF m
    <3> QED BY <1>1, <1>2, <1>3, UnitsOrder, UnitsGrow
  <2>2. Units(InfMag) * den <= Units(m) * den
    BY <2>1
  <2>3. Units(m) * den = M * (Pow2[E - 1] * den)
    BY <1>1, <1>2
  <2>4. QED
    BY <1>1, <2>1, <2>2, <2>3
<1>5. InfMag \div P = EMax /\ InfMag % P = 0
  <2> HIDE DEF P
  <2>1. InfMag = P * EMax /\ EMax \in Int /\ P \in Nat \ {0}
    BY <1>1
  <2>2. (P * EMax) \div P = EMax /\ (P * EMax) % P = 0
    BY <2>1, Multiple
  <2>3. QED
    BY <2>1, <2>2
<1>6. QED
  BY <1>4, <1>5, NearestOverflow DEF Round, Infinity

--------------------------------------------------------------------------------
(* The invariant of the divider.                                            *)

\* The weight of the hidden bit.
P == Pow2[F]

\* The positions that an operand with exponent e has been shifted.
Positions(e) == IF e < 1 - Bias THEN 1 - Bias - e ELSE 0

\* Mantissa m and exponent e are those of v, a number that is not zero; the exponent
\* of the weight is counted from the least place a mantissa can be shifted from.
Scaled(v, m, e) ==
  /\ v.e # EMax /\ ~IsZero(v)
  /\ e \in 1 - Bias - F .. Bias /\ m \in Pow2[Positions(e)] .. 2 * P - 1
  /\ m * Pow2[e + Bias - 1 + F] = Magnitude(v) * P
  /\ m < P => e <= 1 - Bias

\* The positions both operands have been shifted, those the result has, and how many.
Shifts == Positions(d.a_e) + Positions(d.b_e)
Net    == d.z_e - d.a_e + d.b_e
Moves  == IF Net < 0 THEN 0 - Net ELSE Net

\* The states of the divider by what has been done.
Dividing     == {"divide_1", "divide_2", "divide_3"}
Finishing    == {"normalise_1", "normalise_2", "round"}
AfterB       == {"divide_0", "pack"} \cup Dividing \cup Finishing
AfterA       == {"normalise_b"} \cup AfterB
AfterSpecial == {"normalise_a"} \cup AfterA

\* The operands split in their fields.
Unpacked ==
  /\ d.a_m = d.a.f /\ d.a_e = d.a.e - Bias /\ d.a_s = d.a.s
  /\ d.b_m = d.b.f /\ d.b_e = d.b.e - Bias /\ d.b_s = d.b.s

\* Mantissa and exponent of each operand are those of the operand.
OperandsKept ==
  /\ d.state \in AfterSpecial =>
       /\ Scaled(d.a, d.a_m, d.a_e) /\ d.a_s = d.a.s
       /\ Scaled(d.b, d.b_m, d.b_e) /\ d.b_s = d.b.s
  /\ d.state = "normalise_a" => d.b_e >= 1 - Bias
  /\ d.state \in AfterA => d.a_m >= P
  /\ d.state \in AfterB => d.b_m >= P

\* The bits taken from the dividend so far are the quotient and the remainder.
Taken(am, bm, n, q, r, w) ==
  am * Pow2[F + 4] * Pow2[n] = (q * bm + r) * Pow2[DivBits] + w

\* The long division, between and within its two steps, loses nothing.
DividesExactly ==
  d.state \in Dividing =>
    /\ d.z_e = d.a_e - d.b_e /\ d.z_s = Xor(d.a_s, d.b_s) /\ d.divisor = d.b_m
    /\ d.state = "divide_1" =>
         /\ Taken(d.a_m, d.b_m, d.count, d.quotient, d.remainder, d.dividend)
         /\ d.quotient < Pow2[d.count] /\ d.remainder < d.b_m
    /\ d.state = "divide_2" =>
         /\ Taken(d.a_m, d.b_m, d.count + 1, d.quotient, d.remainder, d.dividend)
         /\ d.quotient + 1 < Pow2[d.count + 1]
         /\ d.remainder < 2 * d.b_m /\ d.quotient % 2 = 0
    /\ d.state = "divide_3" =>
         /\ Taken(d.a_m, d.b_m, Loops, d.quotient, d.remainder, d.dividend)
         /\ d.quotient < Pow2[Loops] /\ d.remainder < d.b_m

\* The bits of the result, in quarters of its last place, and what they leave out.
Quarters == 4 * d.z_m + 2 * d.guard + d.round_bit
ResultKept ==
  d.state \in Finishing =>
    /\ d.z_s = Xor(d.a_s, d.b_s) /\ Net >= -1
    /\ Between(2 * P * d.a_m, d.b_m * Pow2[Net + 1], d.z_m, d.guard, d.round_bit, d.sticky)
    /\ Net = -1 => d.z_m >= P /\ d.z_e >= 1 - Bias
    /\ d.state = "normalise_1" =>
         /\ Net \in {-1, 0}
         /\ Net = 0 => 8 * P * d.a_m < (Quarters + 1) * (2 * d.b_m) /\ 2 * P <= Quarters
    /\ d.state # "normalise_1" => d.z_m >= P \/ d.z_e <= 1 - Bias
    /\ Net > 0 => d.z_e <= 1 - Bias
    /\ d.state = "round" => d.z_e >= 1 - Bias

\* Packing yields the quotient.
ResultIsQuotient ==
  /\ d.state = "pack" => PackedZ = Quotient(d.a, d.b)
  /\ d.state = "put_z" => d.z = Quotient(d.a, d.b)

\* The cycles spent, by what had to be shifted.
AgeIs ==
  /\ d.state \notin Working \/ d.state = "unpack" => d.age = 0
  /\ d.state = "special_cases" => d.age = 1
  /\ d.state = "normalise_a" => d.age = 2 + Shifts
  /\ d.state = "normalise_b" => d.age = 3 + Shifts
  /\ d.state = "divide_0"    => d.age = 4 + Shifts
  /\ d.state = "divide_1"    => d.age = 5 + Shifts + 2 * d.count
  /\ d.state = "divide_2"    => d.age = 6 + Shifts + 2 * d.count
  /\ d.state = "divide_3"    => d.age = 4 * F + 13 + Shifts
  /\ d.state = "normalise_1" => d.age = 4 * F + 14 + Shifts + Moves
  /\ d.state = "normalise_2" => d.age = 4 * F + 15 + Shifts + Moves
  /\ d.state = "round"       => d.age = 4 * F + 16 + Shifts + Moves
  /\ d.state = "pack"        => d.age \in 4 * F + 17 .. 6 * F + 17 + Bias

\* The inductive invariant of the divider.
DivInv ==
  /\ TypeOK
  /\ d.state = "special_cases" => Unpacked
  /\ OperandsKept /\ DividesExactly /\ ResultKept /\ ResultIsQuotient /\ AgeIs

--------------------------------------------------------------------------------
(* Its registers.                                                           *)

\* The widths of the divider's registers in terms of P and the bias.
LEMMA DividerWidths ==
  /\ F \in Nat \ {0} /\ Bias \in Nat \ {0} /\ P \in Nat \ {0, 1} /\ F <= 2 * Bias
  /\ EMax = 2 * Bias + 1 /\ Pow2[EB] = 2 * Bias + 2
  /\ ManBits = F + 1 /\ DivBits = 2 * F + 5 /\ Loops = 2 * F + 4
  /\ Pow2[F] = P /\ Pow2[ManBits] = 2 * P
  /\ Pow2[ExpBits] = 8 * Bias + 8 /\ Pow2[ExpBits - 1] = 4 * Bias + 4
<1>1. /\ F \in Nat \ {0} /\ Bias \in Nat \ {0} /\ P \in Nat \ {0, 1}
      /\ EMax = 2 * Bias + 1 /\ Pow2[EB] = 2 * Bias + 2 /\ Pow2[F + 1] = 2 * P
  BY FormatWidths DEF P
<1>2. EB \in Nat /\ EB + 1 \in Nat /\ EB + 1 + 1 = EB + 2 /\ EB + 2 - 1 = EB + 1
  BY FormatAssumption
<1>3. Pow2[EB + 1] = 2 * Pow2[EB] /\ Pow2[EB + 2] = 2 * Pow2[EB + 1]
  BY <1>2, PowStep
<1>4. QED
  BY <1>1, <1>2, <1>3, DividerAssumption DEF P, ManBits, DivBits, Loops, ExpBits

\* The exponents that occur fit their registers: reading one as signed changes nothing.
LEMMA SignedIs ==
  ASSUME NEW n \in Exponents
  PROVE  Signed(n) = n /\ n \in -(4 * Bias + 4) .. 4 * Bias + 3
<1>1. Bias \in Nat /\ Pow2[ExpBits] = 8 * Bias + 8 /\ Pow2[ExpBits - 1] = 4 * Bias + 4
  BY DividerWidths
<1>2. n \in -(4 * Bias + 4) .. 4 * Bias + 3
  BY <1>1 DEF Exponents
<1>3. (n + (4 * Bias + 4)) % (8 * Bias + 8) = n + (4 * Bias + 4)
  BY <1>1, <1>2
<1>4. QED
  BY <1>1, <1>2, <1>3 DEF Signed

\* The states of the divider.
States == Working \cup {"get_a", "get_b", "put_z"}

\* Assigning a register a value of its width keeps the type.
LEMMA AssignState ==
  ASSUME NEW r \in RegType
  PROVE  /\ \A v \in States : [r EXCEPT !.state = v] \in RegType
         /\ \A v \in 0 .. MaxLatency : [r EXCEPT !.age = v] \in RegType
BY DEF RegType, States

\* The handshake flags,
LEMMA AssignHandshake ==
  ASSUME NEW r \in RegType
  PROVE  /\ \A v \in BOOLEAN : [r EXCEPT !.s_input_a_ack = v] \in RegType
         /\ \A v \in BOOLEAN : [r EXCEPT !.s_input_b_ack = v] \in RegType
         /\ \A v \in BOOLEAN : [r EXCEPT !.s_output_z_stb = v] \in RegType
         /\ \A v \in BOOLEAN : [r EXCEPT !.fdiv_valid_o = v] \in RegType
BY DEF RegType, States

\* the words,
LEMMA AssignWords ==
  ASSUME NEW r \in RegType
  PROVE  /\ \A v \in Float : [r EXCEPT !.a = v] \in RegType
         /\ \A v \in Float : [r EXCEPT !.b = v] \in RegType
         /\ \A v \in Float : [r EXCEPT !.z = v] \in RegType
         /\ \A v \in Float : [r EXCEPT !.s_output_z = v] \in RegType
BY DEF RegType, States

\* the parts of the first operand,
LEMMA AssignA ==
  ASSUME NEW r \in RegType
  PROVE  /\ \A v \in Mantissas : [r EXCEPT !.a_m = v] \in RegType
         /\ \A v \in Exponents : [r EXCEPT !.a_e = v] \in RegType
         /\ \A v \in Bit : [r EXCEPT !.a_s = v] \in RegType
BY DEF RegType, States

\* and of the second,
LEMMA AssignB ==
  ASSUME NEW r \in RegType
  PROVE  /\ \A v \in Mantissas : [r EXCEPT !.b_m = v] \in RegType
         /\ \A v \in Exponents : [r EXCEPT !.b_e = v] \in RegType
         /\ \A v \in Bit : [r EXCEPT !.b_s = v] \in RegType
BY DEF RegType, States

\* the parts of the result,
LEMMA AssignZ ==
  ASSUME NEW r \in RegType
  PROVE  /\ \A v \in Mantissas : [r EXCEPT !.z_m = v] \in RegType
         /\ \A v \in Exponents : [r EXCEPT !.z_e = v] \in RegType
         /\ \A v \in Bit : [r EXCEPT !.z_s = v] \in RegType
BY DEF RegType, States

\* the guard bits,
LEMMA AssignBits ==
  ASSUME NEW r \in RegType
  PROVE  /\ \A v \in Bit : [r EXCEPT !.guard = v] \in RegType
         /\ \A v \in Bit : [r EXCEPT !.round_bit = v] \in RegType
         /\ \A v \in Bit : [r EXCEPT !.sticky = v] \in RegType
BY DEF RegType, States

\* and the registers of the long division.
LEMMA AssignDivision ==
  ASSUME NEW r \in RegType
  PROVE  /\ \A v \in DivideWords : [r EXCEPT !.quotient = v] \in RegType
         /\ \A v \in DivideWords : [r EXCEPT !.divisor = v] \in RegType
         /\ \A v \in DivideWords : [r EXCEPT !.dividend = v] \in RegType
         /\ \A v \in DivideWords : [r EXCEPT !.remainder = v] \in RegType
         /\ \A v \in 0 .. Loops - 1 : [r EXCEPT !.count = v] \in RegType
BY DEF RegType, States

\* unpack: the fields are split, the bias is taken off.
LEMMA UnpackKeeps ==
  ASSUME DivInv, Unpack
  PROVE  DivInv'
<1>1. /\ d.state = "unpack" /\ d \in RegType /\ d.age = 0
      /\ d.a \in Float /\ d.b \in Float
  BY DEF DivInv, Unpack, AgeIs, TypeOK, RegType
<1>2. /\ d.a.f \in Mantissas /\ d.b.f \in Mantissas
      /\ d.a.e - Bias \in Exponents /\ d.b.e - Bias \in Exponents
      /\ d.a.s \in Bit /\ d.b.s \in Bit
  BY <1>1, DividerWidths DEF Float, Mantissas, Exponents, Bit
<1>3. Aged = 1 /\ Aged \in 0 .. MaxLatency
  BY <1>1, DividerWidths DEF Aged, MaxLatency
<1>4. d' = [d EXCEPT !.a_m = d.a.f, !.a_e = d.a.e - Bias, !.a_s = d.a.s,
                    !.b_m = d.b.f, !.b_e = d.b.e - Bias, !.b_s = d.b.s,
                    !.state = "special_cases", !.age = Aged]
  BY DEF Unpack
<1>5. d' \in RegType
  <2>1. "special_cases" \in States
    BY DEF States, Working
  <2>2. QED
    BY <1>1, <1>2, <1>3, <1>4, <2>1, AssignState, AssignA, AssignB, Zenon
<1>6. /\ d'.state = "special_cases" /\ d'.age = 1 /\ Unpacked'
  BY <1>1, <1>3, <1>4 DEF RegType, Unpacked
<1>7. QED
  BY <1>5, <1>6 DEF DivInv, TypeOK, OperandsKept, DividesExactly, ResultKept, ResultIsQuotient,
     AgeIs, AfterSpecial, AfterA, AfterB, Dividing, Finishing, Working

--------------------------------------------------------------------------------
(* Its working states.                                                      *)

\* A positive factor does not change an order.
LEMMA Cancel ==
  ASSUME NEW p \in Int, NEW q \in Int, NEW k \in Nat \ {0}
  PROVE  /\ p * k <= q * k <=> p <= q
         /\ p * k < q * k <=> p < q
         /\ p * k = q * k <=> p = q
<1>1. ASSUME NEW i \in Int, NEW j \in Int, i < j PROVE i * k < j * k
  BY <1>1
<1>2. QED
  BY <1>1, p < q \/ p = q \/ q < p

\* Two units of the same number.
SameRatio(x1, A1, x2, A2) == x2 \in Nat /\ A2 \in Nat \ {0} /\ x1 * A2 = x2 * A1

\* Guard bits say the same in another unit.
LEMMA Rescale ==
  ASSUME NEW x1, NEW A1, NEW x2, NEW A2, NEW M, NEW g, NEW r, NEW t,
         Bracket(x1, A1, M, g, r, t), SameRatio(x1, A1, x2, A2)
  PROVE  Between(x2, A2, M, g, r, t)
<1> SUFFICES ASSUME x1 \in Nat, A1 \in Nat \ {0}, x2 \in Nat, A2 \in Nat \ {0}, M \in Nat,
                    g \in {0, 1}, r \in {0, 1}, t \in {0, 1},
                    Between(x1, A1, M, g, r, t), x1 * A2 = x2 * A1
             PROVE  Between(x2, A2, M, g, r, t)
  BY DEF Bracket, SameRatio
<1> DEFINE V == 4 * M + 2 * g + r
           U == V + 2 - r
<1>1. /\ V \in Nat /\ U \in Int
      /\ V * A1 <= 4 * x1 /\ 4 * x1 < U * A1 /\ (t = 0 <=> V * A1 = 4 * x1)
  BY DEF Between
<1>2. /\ (V * A2) * A1 = (V * A1) * A2 /\ (U * A2) * A1 = (U * A1) * A2
      /\ (4 * x2) * A1 = (4 * x1) * A2
  <2>1. ASSUME NEW k \in Int PROVE (k * A2) * A1 = (k * A1) * A2
    OBVIOUS
  <2>2. (4 * x2) * A1 = 4 * (x2 * A1) /\ (4 * x1) * A2 = 4 * (x1 * A2)
    OBVIOUS
  <2> HIDE DEF V, U
  <2>3. QED
    BY <1>1, <2>1, <2>2
<1>3. /\ V * A1 \in Int /\ 4 * x1 \in Int /\ U * A1 \in Int
      /\ V * A2 \in Int /\ 4 * x2 \in Int /\ U * A2 \in Int
  BY <1>1
<1>4. V * A2 <= 4 * x2 /\ 4 * x2 < U * A2 /\ (t = 0 <=> V * A2 = 4 * x2)
  <2> DEFINE p1 == V * A1
             p2 == V * A2
             q1 == U * A1
             q2 == U * A2
             y1 == 4 * x1
             y2 == 4 * x2
  <2>1. /\ p1 \in Int /\ p2 \in Int /\ q1 \in Int /\ q2 \in Int /\ y1 \in Int /\ y2 \in Int
        /\ p1 <= y1 /\ y1 < q1 /\ (t = 0 <=> p1 = y1)
        /\ p2 * A1 = p1 * A2 /\ q2 * A1 = q1 * A2 /\ y2 * A1 = y1 * A2
    BY <1>1, <1>2, <1>3
  <2>2. p2 <= y2 /\ y2 < q2 /\ (t = 0 <=> p2 = y2)
    <3> HIDE DEF p1, p2, q1, q2, y1, y2
    <3>1. p1 * A2 <= y1 * A2 /\ y1 * A2 < q1 * A2 /\ (p1 * A2 = y1 * A2 <=> p1 = y1)
      BY <2>1, Cancel
    <3>2. /\ p2 * A1 <= y2 * A1 <=> p2 <= y2
          /\ y2 * A1 < q2 * A1 <=> y2 < q2
          /\ p2 * A1 = y2 * A1 <=> p2 = y2
      BY <2>1, Cancel
    <3>3. QED
      BY <2>1, <3>1, <3>2
  <2>3. QED
    BY <2>2
<1>5. QED
  BY <1>4 DEF Between

\* One whose mantissa has a position to spare: the hidden bit p is clear, and the
\* round bit is the last that is not zero.
Spare(v, b, z, p, g, r, t) ==
  /\ Bracket(v, b * 2, z, g, r, t) /\ b \in Nat \ {0} /\ p \in Nat /\ z < p
  /\ 4 * v < (4 * z + 2 * g + r + 1) * (2 * b) /\ 2 * p <= 4 * z + 2 * g + r

\* Shifting the mantissa left moves the guard bits up; nothing is lost once.
LEMMA ShiftLeft ==
  ASSUME NEW x1, NEW b, NEW z, NEW p, NEW g, NEW r, NEW t, Spare(x1, b, z, p, g, r, t)
  PROVE  2 * z + g \in p .. 2 * p - 1 /\ Between(x1, b * 1, 2 * z + g, r, 0, t)
<1>0. /\ x1 \in Nat /\ b \in Nat \ {0} /\ z \in Nat /\ p \in Nat /\ z < p
      /\ g \in {0, 1} /\ r \in {0, 1} /\ t \in {0, 1}
      /\ Between(x1, b * 2, z, g, r, t)
      /\ 4 * x1 < (4 * z + 2 * g + r + 1) * (2 * b) /\ 2 * p <= 4 * z + 2 * g + r
  BY DEF Spare, Bracket
<1> DEFINE V == 4 * z + 2 * g + r
<1>1. V \in Nat /\ 2 * z + g \in p .. 2 * p - 1
  BY <1>0
<1>2. /\ V * (b * 2) <= 4 * x1 /\ 4 * x1 < (V + 1) * (2 * b)
      /\ (t = 0 <=> V * (b * 2) = 4 * x1)
  BY <1>0 DEF Between
<1>3. /\ V * (b * 2) = 2 * (V * b) /\ (V + 1) * (2 * b) = 2 * (V * b) + 2 * b
  <2> HIDE DEF V
  <2> QED BY <1>0, <1>1
<1>4. /\ (4 * (2 * z + g) + 2 * r + 0) * (b * 1) = 2 * (V * b)
      /\ (4 * (2 * z + g) + 2 * r + 0 + 2 - 0) * (b * 1) = 2 * (V * b) + 2 * b
  <2>1. 4 * (2 * z + g) + 2 * r + 0 = 2 * V /\ 4 * (2 * z + g) + 2 * r + 0 + 2 - 0 = 2 * V + 2
    BY <1>0
  <2> HIDE DEF V
  <2>2. QED
    BY <1>0, <1>1, <2>1
<1>5. QED
  BY <1>0, <1>1, <1>2, <1>3, <1>4 DEF Between

\* Shifting it right moves them down and keeps in the sticky bit what falls out.
LEMMA ShiftRight ==
  ASSUME NEW x1, NEW D, NEW z, NEW g, NEW r, NEW t, Bracket(x1, D, z, g, r, t)
  PROVE  /\ z \div 2 \in Nat /\ z % 2 \in {0, 1} /\ Or(t, r) \in {0, 1}
         /\ Between(x1, 2 * D, z \div 2, z % 2, g, Or(t, r))
<1> SUFFICES ASSUME x1 \in Nat, D \in Nat \ {0}, z \in Nat,
                    g \in {0, 1}, r \in {0, 1}, t \in {0, 1}, Between(x1, D, z, g, r, t)
             PROVE  /\ z \div 2 \in Nat /\ z % 2 \in {0, 1} /\ Or(t, r) \in {0, 1}
                    /\ Between(x1, 2 * D, z \div 2, z % 2, g, Or(t, r))
  BY DEF Bracket
<1> DEFINE V == 4 * z + 2 * g + r
           H == 2 * z + g
<1>1. /\ z \div 2 \in Nat /\ z % 2 \in {0, 1} /\ z = (2 * (z \div 2)) + (z % 2)
      /\ Or(t, r) \in {0, 1} /\ (Or(t, r) = 0 <=> t = 0 /\ r = 0)
  BY DEF Or
<1>2. /\ V * D <= 4 * x1 /\ 4 * x1 < (V + 2 - r) * D /\ (t = 0 <=> V * D = 4 * x1)
  BY DEF Between
<1>3. /\ H \in Nat /\ V * D = 2 * (H * D) + r * D /\ (V + 2 - r) * D = 2 * (H * D) + 2 * D
  <2>1. V = 2 * H + r /\ V + 2 - r = 2 * H + 2 /\ H \in Nat
    OBVIOUS
  <2> HIDE DEF V, H
  <2>2. QED
    BY <2>1
<1>4. r * D = IF r = 1 THEN D ELSE 0
  OBVIOUS
<1>5. /\ 4 * (z \div 2) + 2 * (z % 2) + g = H
      /\ H * (2 * D) = 2 * (H * D)
      /\ (H + 2 - g) * (2 * D) = 2 * (H * D) + 4 * D - 2 * (g * D)
      /\ g * D = IF g = 1 THEN D ELSE 0
  <2>1. 4 * (z \div 2) + 2 * (z % 2) + g = H
    BY <1>1
  <2> HIDE DEF H
  <2>2. QED
    BY <1>3, <2>1
<1>6. /\ H * (2 * D) <= 4 * x1 /\ 4 * x1 < (H + 2 - g) * (2 * D)
      /\ (Or(t, r) = 0 <=> H * (2 * D) = 4 * x1)
  <2> DEFINE h == H * D
  <2>1. h \in Nat
    BY <1>3
  <2>2. /\ V * D = 2 * h + r * D /\ (V + 2 - r) * D = 2 * h + 2 * D
        /\ H * (2 * D) = 2 * h /\ (H + 2 - g) * (2 * D) = 2 * h + 4 * D - 2 * (g * D)
    BY <1>3, <1>5
  <2> HIDE DEF h, V, H
  <2>3. QED
    BY <1>1, <1>2, <1>4, <1>5, <2>1, <2>2
<1>7. QED
  BY <1>1, <1>5, <1>6 DEF Between

\* One more bit of the dividend w is taken; H is the weight of its first bit.
LEMMA BitTaken ==
  ASSUME NEW X \in Nat, NEW q \in Nat, NEW b \in Nat, NEW r \in Nat, NEW H \in Nat \ {0},
         NEW w \in 0 .. 2 * H - 1, X = (q * b + r) * (2 * H) + w
  PROVE  LET bit == (w \div H) % 2
             v   == (2 * w) % (2 * H)
         IN  /\ bit \in {0, 1} /\ v \in 0 .. 2 * H - 1
             /\ X * 2 = ((2 * q) * b + (2 * r + bit)) * (2 * H) + v
<1>1. CASE w < H
  <2>1. w = H * 0 + w /\ 2 * w = (2 * H) * 0 + 2 * w
        /\ 2 * w \in 0 .. 2 * H - 1 /\ 2 * H \in Nat \ {0} /\ w \in 0 .. H - 1
    BY <1>1
  <2>2. w \div H = 0
    BY <2>1, DivisionIs
  <2>3. (2 * w) % (2 * H) = 2 * w
    <3> DEFINE n == 2 * w
               k == 2 * H
    <3>1. n = k * 0 + n /\ n \in 0 .. k - 1 /\ k \in Nat \ {0}
      BY <2>1
    <3> HIDE DEF n, k
    <3>2. n % k = n
      BY <3>1, DivisionIs
    <3>3. QED
      BY <3>2 DEF n, k
  <2>4. QED
    BY <2>1, <2>2, <2>3
<1>2. CASE w >= H
  <2>1. w \div H = 1
    <3> DEFINE k == w - H
    <3>1. w = H * 1 + k /\ k \in 0 .. H - 1
      BY <1>2
    <3> HIDE DEF k
    <3>2. QED
      BY <3>1, DivisionIs
  <2>2. (2 * w) % (2 * H) = 2 * w - 2 * H
    <3> DEFINE n == 2 * w
               k == 2 * H
               l == 2 * w - 2 * H
    <3>1. n = k * 1 + l /\ l \in 0 .. k - 1 /\ k \in Nat \ {0}
      BY <1>2
    <3> HIDE DEF n, k, l
    <3>2. n % k = l
      BY <3>1, DivisionIs
    <3>3. QED
      BY <3>2 DEF n, k, l
  <2>3. X * 2 = ((2 * q) * b + (2 * r + 1)) * (2 * H) + (2 * w - 2 * H)
    <3>1. ((2 * q) * b + (2 * r + 1)) = 2 * (q * b + r) + 1 /\ q * b + r \in Nat
      OBVIOUS
    <3>2. QED
      BY <3>1
  <2>4. QED
    BY <1>2, <2>1, <2>2, <2>3
<1>3. QED
  BY <1>1, <1>2

\* What has been taken is the quotient of the dividend's leading part.
LEMMA TakenPart ==
  ASSUME NEW D \in Nat, NEW T \in Nat, NEW p \in Nat \ {0}, NEW k \in Nat \ {0},
         NEW w \in 0 .. k * p - 1, D * p = T * (k * p) + w
  PROVE  D \div k = T
<1> DEFINE q == D \div k
           r == D % k
           kp == k * p
           n == D * p
           rp == r * p
<1>1. q \in Nat /\ r \in 0 .. k - 1 /\ D = k * q + r
  <2>1. D \in Int /\ D \in Nat /\ k \in Nat \ {0}
    OBVIOUS
  <2>2. D \div k \in Nat /\ D % k \in 0 .. k - 1 /\ D = (k * (D \div k)) + (D % k)
    BY <2>1, Division, Zenon
  <2>3. QED
    BY <2>2
<1>2. kp \in Nat \ {0} /\ n = kp * q + rp /\ n = kp * T + w
  <2> HIDE DEF q, r
  <2> QED BY <1>1
<1>3. rp \in 0 .. kp - 1
  <2> HIDE DEF q, r
  <2>1. r * p <= (k - 1) * p /\ r * p \in Nat
    BY <1>1
  <2>2. QED
    BY <1>1, <2>1
<1>4. w \in 0 .. kp - 1 /\ T \in Int /\ q \in Int
  BY <1>1
<1>5. q = T
  <2> HIDE DEF q, r, kp, n, rp
  <2>1. n \div kp = q
    BY <1>2, <1>3, <1>4, DivisionIs
  <2>2. n \div kp = T
    BY <1>2, <1>3, <1>4, DivisionIs
  <2>3. QED
    BY <2>1, <2>2
<1>6. QED
  BY <1>5

\* The special results are floats.
LEMMA SpecialValues ==
  /\ \A s, t \in {0, 1} : Xor(s, t) \in {0, 1}
  /\ \A s \in {0, 1} : Zero(s) \in Float /\ Infinity(s) \in Float
  /\ DefaultNaN \in Float
<1>1. /\ EMax \in Nat /\ Pow2[F] \in Nat \ {0, 1} /\ Pow2[F] = 2 * Pow2[F - 1]
      /\ Pow2[F - 1] \in Nat \ {0}
  BY FormatWidths
<1>2. DefaultNaN \in Float
  BY <1>1 DEF DefaultNaN, Float
<1>3. QED
  BY <1>1, <1>2 DEF Xor, Zero, Infinity, Float

\* The fields of a float, in terms of P and the bias.
LEMMA FloatParts ==
  ASSUME NEW v \in Float
  PROVE  /\ v.s \in {0, 1} /\ v.e \in 0 .. 2 * Bias + 1 /\ v.f \in 0 .. P - 1
         /\ Bias \in Nat \ {0} /\ P \in Nat \ {0, 1} /\ EMax = 2 * Bias + 1
BY DividerWidths DEF Float

\* What special_cases returns at once is the quotient.
LEMMA SpecialIsQuotient ==
  ASSUME d \in RegType, Unpacked
  PROVE  /\ IsSpecial => SpecialResult = Quotient(d.a, d.b) /\ SpecialResult \in Float
         /\ ~IsSpecial <=> /\ d.a.e # EMax /\ ~IsZero(d.a)
                           /\ d.b.e # EMax /\ ~IsZero(d.b)
<1>1. d.a \in Float /\ d.b \in Float
  BY DEF RegType
<1>2. /\ d.a.s \in {0, 1} /\ d.a.e \in 0 .. 2 * Bias + 1 /\ d.a.f \in 0 .. P - 1
      /\ d.b.s \in {0, 1} /\ d.b.e \in 0 .. 2 * Bias + 1 /\ d.b.f \in 0 .. P - 1
      /\ Bias \in Nat \ {0} /\ EMax = 2 * Bias + 1
  BY <1>1, FloatParts
<1>3. /\ AInf <=> d.a.e = EMax
      /\ BInf <=> d.b.e = EMax
      /\ AZero <=> IsZero(d.a)
      /\ BZero <=> IsZero(d.b)
  BY <1>2 DEF Unpacked, AInf, BInf, AZero, BZero, IsZero
<1>4. ~BZeroUnsigned
  <2>1. d.b_e \in Int /\ Pow2[ExpBits] = 8 * Bias + 8
    BY <1>2, DividerWidths DEF Unpacked
  <2>2. d.b_e % (8 * Bias + 8) \in Nat
    BY <1>2, <2>1
  <2>3. QED
    BY <1>2, <2>1, <2>2 DEF BZeroUnsigned
<1>5. d.a_m = d.a.f /\ d.b_m = d.b.f /\ d.a_s = d.a.s /\ d.b_s = d.b.s
  BY DEF Unpacked
<1>6. IsSpecial => SpecialResult = Quotient(d.a, d.b)
  BY <1>2, <1>3, <1>4, <1>5 DEF IsSpecial, SpecialResult, Quotient, IsNaN, IsInf, IsZero
<1>7. SpecialResult \in Float
  BY <1>2, <1>5, SpecialValues DEF SpecialResult
<1>8. QED
  BY <1>3, <1>6, <1>7 DEF IsSpecial

\* The hidden bit of a mantissa.
LEMMA MsbIs ==
  ASSUME NEW m \in Mantissas
  PROVE  /\ m \in 0 .. 2 * P - 1 /\ P \in Nat \ {0, 1}
         /\ Msb(m) <=> m >= P
<1>1. P \in Nat \ {0, 1} /\ Pow2[F] = P /\ m \in 0 .. 2 * P - 1
  BY DividerWidths DEF Mantissas
<1>2. m < P => m \div P = 0
  BY <1>1, Small
<1>3. m >= P => m \div P = 1
  <2>1. P \in Nat \ {0} /\ (m >= P => m \in P .. 2 * P - 1)
    BY <1>1
  <2>2. QED
    BY <2>1, Once
<1>4. QED
  BY <1>1, <1>2, <1>3 DEF Msb

\* Mantissa and exponent of an ordinary operand after its unpacking.
LEMMA OrdinaryScaled ==
  ASSUME NEW v \in Float, v.e # EMax, ~IsZero(v),
         NEW m, m = IF v.e - Bias = -Bias THEN v.f ELSE (v.f % P) + P,
         NEW e, e = IF v.e - Bias = -Bias THEN 1 - Bias ELSE v.e - Bias
  PROVE  /\ Scaled(v, m, e) /\ Positions(e) = 0 /\ e >= 1 - Bias
         /\ m \in Mantissas /\ e \in Exponents
<1>1. /\ v.e \in 0 .. 2 * Bias + 1 /\ v.f \in 0 .. P - 1 /\ Bias \in Nat \ {0}
      /\ P \in Nat \ {0, 1} /\ EMax = 2 * Bias + 1 /\ F \in Nat \ {0} /\ P = Pow2[F]
  BY FloatParts, DividerWidths DEF P
<1>2. v.f % P = v.f
  BY <1>1
<1>3. CASE v.e = 0
  <2>1. m = v.f /\ e = 1 - Bias /\ m \in 1 .. P - 1
    BY <1>1, <1>3 DEF IsZero
  <2>2. Magnitude(v) = m
    BY <1>1, <1>3, <2>1 DEF Magnitude, Units
  <2>3. e + Bias - 1 + F = F /\ Positions(e) = 0 /\ e \in 1 - Bias - F .. Bias
    BY <1>1, <2>1 DEF Positions
  <2>4. Pow2[0] = 1 /\ m * Pow2[e + Bias - 1 + F] = Magnitude(v) * P
    BY <1>1, <2>2, <2>3, PowStep
  <2>5. m \in Mantissas /\ e \in Exponents
    BY <1>1, <2>1, DividerWidths DEF Mantissas, Exponents
  <2>6. QED
    BY <1>1, <2>1, <2>3, <2>4, <2>5 DEF Scaled
<1>4. CASE v.e # 0
  <2>1. m = v.f + P /\ e = v.e - Bias /\ m \in P .. 2 * P - 1 /\ v.e \in 1 .. 2 * Bias
    BY <1>1, <1>2, <1>4
  <2>2. Magnitude(v) = m * Pow2[v.e - 1]
    <3>0. v.e \in Int /\ v.f \in Int /\ P \in Int
      BY <1>1
    <3>1. v.e * P + v.f = (v.e - 1) * P + m
      BY <2>1, <3>0, Borrow
    <3>2. Units((v.e - 1) * P + m) = m * Pow2[v.e - 1]
      BY <1>1, <2>1, UnitsOfMantissa
    <3>3. QED
      BY <1>1, <3>1, <3>2 DEF Magnitude
  <2>3. e + Bias - 1 + F = (v.e - 1) + F /\ Positions(e) = 0 /\ e \in 1 - Bias - F .. Bias
    BY <1>1, <2>1 DEF Positions
  <2>4. Pow2[(v.e - 1) + F] = Pow2[v.e - 1] * P /\ Pow2[v.e - 1] \in Nat
    <3> DEFINE k == v.e - 1
    <3>1. k \in Nat /\ F \in Nat
      BY <1>1, <2>1
    <3> HIDE DEF k
    <3>2. Pow2[k + F] = Pow2[k] * Pow2[F] /\ Pow2[k] \in Nat
      BY <3>1, PowSum, PowNat
    <3>3. QED
      BY <1>1, <3>2 DEF k
  <2>5. m * Pow2[e + Bias - 1 + F] = Magnitude(v) * P
    BY <1>1, <2>1, <2>2, <2>3, <2>4
  <2>6. QED
    BY <1>1, <2>1, <2>3, <2>5, PowStep, DividerWidths DEF Scaled, Mantissas, Exponents
<1>5. QED
  BY <1>3, <1>4

\* One position to the left, as long as the hidden bit is clear.
LEMMA ScaledShift ==
  ASSUME NEW v, NEW m \in Mantissas, NEW e \in Exponents, Scaled(v, m, e), m < P,
         Magnitude(v) \in Nat
  PROVE  /\ ShiftIn(m, 0) = 2 * m /\ 2 * m \in Mantissas
         /\ Signed(e - 1) = e - 1 /\ e - 1 \in Exponents
         /\ Scaled(v, 2 * m, e - 1) /\ Positions(e - 1) = Positions(e) + 1
<1>1. /\ F \in Nat \ {0} /\ Bias \in Nat \ {0} /\ P \in Nat \ {0, 1} /\ F <= 2 * Bias
      /\ Pow2[F] = P /\ Pow2[ManBits] = 2 * P /\ Pow2[ExpBits - 1] = 4 * Bias + 4
  BY DividerWidths
<1>2. /\ e \in 1 - Bias - F .. Bias /\ m \in Pow2[Positions(e)] .. 2 * P - 1
      /\ m * Pow2[e + Bias - 1 + F] = Magnitude(v) * P /\ e <= 1 - Bias
      /\ v.e # EMax /\ ~IsZero(v)
  BY DEF Scaled
<1>3. Positions(e) = 1 - Bias - e /\ Positions(e) \in Nat
  BY <1>1, <1>2 DEF Positions
<1>4. Positions(e) < F
  <2>1. Pow2[Positions(e)] \in Nat
    BY <1>3, PowNat
  <2>2. ~(Pow2[F] <= Pow2[Positions(e)])
    BY <1>1, <1>2, <2>1
  <2>3. QED
    BY <1>1, <1>3, <2>2, PowOrder
<1>5. e - 1 \in 1 - Bias - F .. Bias /\ Positions(e - 1) = Positions(e) + 1
  BY <1>1, <1>2, <1>3, <1>4 DEF Positions
<1>6. e - 1 \in Exponents /\ Signed(e - 1) = e - 1
  <2>1. e - 1 \in Exponents
    BY <1>1, <1>5 DEF Exponents
  <2>2. QED
    BY <2>1, SignedIs
<1>7. m \in 1 .. P - 1 /\ Pow2[Positions(e) + 1] = 2 * Pow2[Positions(e)]
      /\ Pow2[Positions(e)] \in Nat \ {0}
  BY <1>1, <1>2, <1>3, PowNat, PowStep
<1>8. ShiftIn(m, 0) = 2 * m /\ 2 * m \in Mantissas
  <2>1. (2 * m + 0) % (2 * P) = 2 * m
    <3> DEFINE n == 2 * m + 0
               k == 2 * P
    <3>1. n \in 0 .. k - 1 /\ k \in Nat \ {0}
      BY <1>1, <1>7
    <3> HIDE DEF n, k
    <3>2. n % k = n
      BY <3>1, Small
    <3>3. QED
      BY <1>7, <3>2 DEF n, k
  <2>2. QED
    BY <1>1, <1>7, <2>1 DEF ShiftIn, Mantissas
<1>9. (2 * m) * Pow2[e - 1 + Bias - 1 + F] = Magnitude(v) * P
  <2> DEFINE k == e - 1 + Bias - 1 + F
  <2>1. k \in Nat /\ e + Bias - 1 + F = k + 1
    BY <1>1, <1>2, <1>5
  <2>2. Pow2[k + 1] = 2 * Pow2[k] /\ Pow2[k] \in Nat
    <3> HIDE DEF k
    <3> QED BY <2>1, PowStep, PowNat
  <2>3. (2 * m) * Pow2[k] = m * Pow2[k + 1]
    <3> HIDE DEF k
    <3> QED BY <1>7, <2>2
  <2>4. QED
    BY <1>2, <2>1, <2>3
<1>10. Scaled(v, 2 * m, e - 1)
  BY <1>1, <1>2, <1>5, <1>7, <1>9 DEF Scaled
<1>11. QED
  BY <1>5, <1>6, <1>8, <1>10

\* The count of cycles has not reached its bound.
LEMMA AgedIs ==
  ASSUME d \in RegType, d.age < MaxLatency
  PROVE  Aged = d.age + 1 /\ Aged \in 0 .. MaxLatency
<1>1. d.age \in 0 .. MaxLatency /\ MaxLatency \in Nat
  BY DividerWidths DEF RegType, MaxLatency
<1>2. QED
  BY <1>1 DEF Aged

\* Magnitudes are natural numbers.
LEMMA MagnitudeNat ==
  ASSUME NEW v \in Float
  PROVE  Magnitude(v) \in Nat
<1>1. v.e \in Nat /\ v.f \in Nat /\ Pow2[F] \in Nat
  BY FloatParts, FormatWidths
<1>2. v.e * Pow2[F] + v.f \in Nat
  BY <1>1
<1>3. QED
  BY <1>2, UnitsGrow DEF Magnitude

\* special_cases that ends the work: the result is the quotient's special value.
LEMMA SpecialKeeps ==
  ASSUME DivInv, Special
  PROVE  DivInv' /\ d.age + 1 = 2 /\ d'.z = Quotient(d.a, d.b)
<1>1. /\ d.state = "special_cases" /\ d \in RegType /\ Unpacked /\ IsSpecial /\ d.age = 1
  BY DEF DivInv, Special, TypeOK, AgeIs
<1>2. SpecialResult = Quotient(d.a, d.b) /\ SpecialResult \in Float
  BY <1>1, SpecialIsQuotient
<1>3. d' = [d EXCEPT !.z = SpecialResult, !.state = "put_z", !.age = 0]
  BY DEF Special
<1>4. d' \in RegType
  <2>1. "put_z" \in States /\ 0 \in 0 .. MaxLatency
    BY DividerWidths DEF States, MaxLatency
  <2>2. QED
    BY <1>1, <1>2, <1>3, <2>1, AssignState, AssignWords, Zenon
<1>5. /\ d'.state = "put_z" /\ d'.age = 0 /\ d'.z = Quotient(d.a, d.b)
      /\ d'.a = d.a /\ d'.b = d.b
  BY <1>1, <1>2, <1>3 DEF RegType
<1>6. QED
  BY <1>1, <1>4, <1>5 DEF DivInv, TypeOK, OperandsKept, DividesExactly, ResultKept,
     ResultIsQuotient, AgeIs, AfterSpecial, AfterA, AfterB, Dividing, Finishing, Working

\* special_cases that goes on: hidden bits are set and subnormal exponents corrected.
LEMMA OrdinaryKeeps ==
  ASSUME DivInv, Ordinary
  PROVE  DivInv'
<1>1. /\ d.state = "special_cases" /\ d \in RegType /\ Unpacked /\ ~IsSpecial /\ d.age = 1
      /\ d.a \in Float /\ d.b \in Float
  BY DEF DivInv, Ordinary, TypeOK, AgeIs, RegType
<1>2. /\ d.a.e # EMax /\ ~IsZero(d.a) /\ d.b.e # EMax /\ ~IsZero(d.b)
  BY <1>1, SpecialIsQuotient
<1> DEFINE ae == IF d.a_e = -Bias THEN 1 - Bias ELSE d.a_e
           am == IF d.a_e = -Bias THEN d.a_m ELSE (d.a_m % Pow2[F]) + Pow2[F]
           be == IF d.b_e = -Bias THEN 1 - Bias ELSE d.b_e
           bm == IF d.b_e = -Bias THEN d.b_m ELSE (d.b_m % Pow2[F]) + Pow2[F]
<1>3. d' = [d EXCEPT !.a_e = ae, !.a_m = am, !.b_e = be, !.b_m = bm,
                    !.state = "normalise_a", !.age = Aged]
  BY DEF Ordinary
<1>4. /\ Scaled(d.a, am, ae) /\ Positions(ae) = 0 /\ ae >= 1 - Bias
      /\ am \in Mantissas /\ ae \in Exponents
  <2>1. /\ ae = IF d.a.e - Bias = -Bias THEN 1 - Bias ELSE d.a.e - Bias
        /\ am = IF d.a.e - Bias = -Bias THEN d.a.f ELSE (d.a.f % P) + P
    BY <1>1 DEF Unpacked, P
  <2> HIDE DEF ae, am
  <2>2. QED
    BY <1>1, <1>2, <2>1, OrdinaryScaled
<1>5. /\ Scaled(d.b, bm, be) /\ Positions(be) = 0 /\ be >= 1 - Bias
      /\ bm \in Mantissas /\ be \in Exponents
  <2>1. /\ be = IF d.b.e - Bias = -Bias THEN 1 - Bias ELSE d.b.e - Bias
        /\ bm = IF d.b.e - Bias = -Bias THEN d.b.f ELSE (d.b.f % P) + P
    BY <1>1 DEF Unpacked, P
  <2> HIDE DEF be, bm
  <2>2. QED
    BY <1>1, <1>2, <2>1, OrdinaryScaled
<1> HIDE DEF ae, am, be, bm
<1>6. Aged = 2 /\ Aged \in 0 .. MaxLatency
  BY <1>1, AgedIs, DividerWidths DEF MaxLatency
<1>7. d' \in RegType
  <2>1. "normalise_a" \in States
    BY DEF States, Working
  <2>2. QED
    BY <1>1, <1>3, <1>4, <1>5, <1>6, <2>1, AssignState, AssignA, AssignB, Zenon
<1>8. /\ d'.state = "normalise_a" /\ d'.age = 2 /\ d'.a = d.a /\ d'.b = d.b
      /\ d'.a_m = am /\ d'.a_e = ae /\ d'.a_s = d.a.s
      /\ d'.b_m = bm /\ d'.b_e = be /\ d'.b_s = d.b.s
  BY <1>1, <1>3, <1>6 DEF RegType, Unpacked
<1>9. OperandsKept' /\ AgeIs'
  BY <1>4, <1>5, <1>8 DEF OperandsKept, AgeIs, Shifts, AfterA, AfterB, Dividing, Finishing, Working
<1>10. QED
  BY <1>7, <1>8, <1>9 DEF DivInv, TypeOK, DividesExactly, ResultKept, ResultIsQuotient,
     Dividing, Finishing

\* The operands and their registers stay as they are.
SameA == d'.a = d.a /\ d'.a_m = d.a_m /\ d'.a_e = d.a_e /\ d'.a_s = d.a_s
SameB == d'.b = d.b /\ d'.b_m = d.b_m /\ d'.b_e = d.b_e /\ d'.b_s = d.b_s

\* What normalising the operands leaves of the time there is.
LEMMA ShiftsBound ==
  ASSUME DivInv, d.state \in AfterSpecial
  PROVE  /\ d.a_e \in 1 - Bias - F .. Bias /\ d.b_e \in 1 - Bias - F .. Bias
         /\ Positions(d.a_e) \in 0 .. F /\ Positions(d.b_e) \in 0 .. F
         /\ Shifts \in 0 .. 2 * F
         /\ d.a_m \in 1 .. 2 * P - 1 /\ d.b_m \in 1 .. 2 * P - 1
<1>1. Scaled(d.a, d.a_m, d.a_e) /\ Scaled(d.b, d.b_m, d.b_e)
  BY DEF DivInv, OperandsKept
<1>2. Bias \in Nat \ {0} /\ F \in Nat \ {0} /\ P \in Nat
  BY DividerWidths
<1>3. /\ d.a_e \in 1 - Bias - F .. Bias /\ d.b_e \in 1 - Bias - F .. Bias
      /\ d.a_m \in Pow2[Positions(d.a_e)] .. 2 * P - 1
      /\ d.b_m \in Pow2[Positions(d.b_e)] .. 2 * P - 1
  BY <1>1 DEF Scaled
<1>4. Positions(d.a_e) \in 0 .. F /\ Positions(d.b_e) \in 0 .. F
  BY <1>2, <1>3 DEF Positions
<1>5. Pow2[Positions(d.a_e)] \in Nat \ {0} /\ Pow2[Positions(d.b_e)] \in Nat \ {0}
  BY <1>4, PowNat
<1>6. Shifts \in 0 .. 2 * F
  BY <1>2, <1>4 DEF Shifts
<1>7. QED
  BY <1>2, <1>3, <1>4, <1>5, <1>6

\* normalise_a: a shift left and a lower exponent are the same number.
LEMMA NormaliseAKeeps ==
  ASSUME DivInv, NormaliseA
  PROVE  DivInv'
<1>1. /\ d.state = "normalise_a" /\ d \in RegType /\ d.a_m \in Mantissas
      /\ d.a_e \in Exponents /\ d.a \in Float /\ Scaled(d.a, d.a_m, d.a_e) /\ d.a_s = d.a.s
      /\ Scaled(d.b, d.b_m, d.b_e) /\ d.b_s = d.b.s /\ d.b_e >= 1 - Bias
      /\ d.age = 2 + Shifts
  BY DEF DivInv, NormaliseA, TypeOK, RegType, OperandsKept, AgeIs, AfterSpecial
<1>2. /\ Shifts \in 0 .. 2 * F /\ F \in Nat \ {0} /\ Bias \in Nat \ {0}
      /\ Positions(d.a_e) \in Nat /\ Positions(d.b_e) \in Nat
  BY <1>1, ShiftsBound, DividerWidths DEF AfterSpecial
<1>3. Aged = d.age + 1 /\ Aged \in 0 .. MaxLatency
  BY <1>1, <1>2, AgedIs DEF MaxLatency
<1>4. "normalise_a" \in States /\ "normalise_b" \in States
  BY DEF States, Working
<1>5. Msb(d.a_m) <=> d.a_m >= P
  BY <1>1, MsbIs
<1>6. CASE Msb(d.a_m)
  <2>1. d' = [d EXCEPT !.state = "normalise_b", !.age = Aged]
    BY <1>6 DEF NormaliseA
  <2>2. d' \in RegType
    BY <1>1, <1>3, <1>4, <2>1, AssignState, Zenon
  <2>3. d'.state = "normalise_b" /\ d'.age = 3 + Shifts /\ SameA /\ SameB
    BY <1>1, <1>2, <1>3, <2>1 DEF RegType, SameA, SameB
  <2>4. OperandsKept' /\ AgeIs'
    BY <1>1, <1>5, <1>6, <2>3 DEF OperandsKept, AgeIs, Shifts, SameA, SameB, AfterB, Dividing,
       Finishing, Working
  <2>5. QED
    BY <2>2, <2>3, <2>4 DEF DivInv, TypeOK, DividesExactly, ResultKept, ResultIsQuotient,
       Dividing, Finishing
<1>7. CASE ~Msb(d.a_m)
  <2>1. d' = [d EXCEPT !.a_m = ShiftIn(d.a_m, 0), !.a_e = Signed(d.a_e - 1), !.age = Aged]
    BY <1>7 DEF NormaliseA
  <2>2. /\ ShiftIn(d.a_m, 0) = 2 * d.a_m /\ 2 * d.a_m \in Mantissas
        /\ Signed(d.a_e - 1) = d.a_e - 1 /\ d.a_e - 1 \in Exponents
        /\ Scaled(d.a, 2 * d.a_m, d.a_e - 1)
        /\ Positions(d.a_e - 1) = Positions(d.a_e) + 1
    <3>1. d.a_m < P
      BY <1>1, <1>5, <1>7, MsbIs
    <3>2. QED
      BY <1>1, <3>1, ScaledShift, MagnitudeNat
  <2>3. d' \in RegType
    BY <1>1, <1>3, <2>1, <2>2, AssignState, AssignA, Zenon
  <2>4. /\ d'.state = "normalise_a" /\ d'.age = 3 + Shifts /\ SameB
        /\ d'.a = d.a /\ d'.a_m = 2 * d.a_m /\ d'.a_e = d.a_e - 1 /\ d'.a_s = d.a_s
    BY <1>1, <1>2, <1>3, <2>1, <2>2 DEF RegType, SameB
  <2>5. Shifts' = Shifts + 1
    BY <1>2, <2>2, <2>4 DEF Shifts, SameB
  <2>6. OperandsKept' /\ AgeIs'
    BY <1>1, <1>2, <2>2, <2>4, <2>5 DEF OperandsKept, AgeIs, SameB, AfterA, AfterB, Dividing,
       Finishing, Working
  <2>7. QED
    BY <2>3, <2>4, <2>6 DEF DivInv, TypeOK, DividesExactly, ResultKept, ResultIsQuotient,
       Dividing, Finishing
<1>8. QED
  BY <1>6, <1>7

\* normalise_b: the same of the second operand.
LEMMA NormaliseBKeeps ==
  ASSUME DivInv, NormaliseB
  PROVE  DivInv'
<1>1. /\ d.state = "normalise_b" /\ d \in RegType /\ d.b_m \in Mantissas
      /\ d.b_e \in Exponents /\ d.b \in Float /\ Scaled(d.b, d.b_m, d.b_e) /\ d.b_s = d.b.s
      /\ Scaled(d.a, d.a_m, d.a_e) /\ d.a_s = d.a.s /\ d.a_m >= P
      /\ d.age = 3 + Shifts
  BY DEF DivInv, NormaliseB, TypeOK, RegType, OperandsKept, AgeIs, AfterSpecial, AfterA
<1>2. /\ Shifts \in 0 .. 2 * F /\ F \in Nat \ {0} /\ Bias \in Nat \ {0}
      /\ Positions(d.a_e) \in Nat /\ Positions(d.b_e) \in Nat
  BY <1>1, ShiftsBound, DividerWidths DEF AfterSpecial, AfterA
<1>3. Aged = d.age + 1 /\ Aged \in 0 .. MaxLatency
  BY <1>1, <1>2, AgedIs DEF MaxLatency
<1>4. "normalise_b" \in States /\ "divide_0" \in States
  BY DEF States, Working
<1>5. Msb(d.b_m) <=> d.b_m >= P
  BY <1>1, MsbIs
<1>6. CASE Msb(d.b_m)
  <2>1. d' = [d EXCEPT !.state = "divide_0", !.age = Aged]
    BY <1>6 DEF NormaliseB
  <2>2. d' \in RegType
    BY <1>1, <1>3, <1>4, <2>1, AssignState, Zenon
  <2>3. d'.state = "divide_0" /\ d'.age = 4 + Shifts /\ SameA /\ SameB
    BY <1>1, <1>2, <1>3, <2>1 DEF RegType, SameA, SameB
  <2>4. OperandsKept' /\ AgeIs'
    BY <1>1, <1>5, <1>6, <2>3 DEF OperandsKept, AgeIs, Shifts, SameA, SameB, Dividing,
       Finishing, Working
  <2>5. QED
    BY <2>2, <2>3, <2>4 DEF DivInv, TypeOK, DividesExactly, ResultKept, ResultIsQuotient,
       Dividing, Finishing
<1>7. CASE ~Msb(d.b_m)
  <2>1. d' = [d EXCEPT !.b_m = ShiftIn(d.b_m, 0), !.b_e = Signed(d.b_e - 1), !.age = Aged]
    BY <1>7 DEF NormaliseB
  <2>2. /\ ShiftIn(d.b_m, 0) = 2 * d.b_m /\ 2 * d.b_m \in Mantissas
        /\ Signed(d.b_e - 1) = d.b_e - 1 /\ d.b_e - 1 \in Exponents
        /\ Scaled(d.b, 2 * d.b_m, d.b_e - 1)
        /\ Positions(d.b_e - 1) = Positions(d.b_e) + 1
    <3>1. d.b_m < P
      BY <1>1, <1>5, <1>7, MsbIs
    <3>2. QED
      BY <1>1, <3>1, ScaledShift, MagnitudeNat
  <2>3. d' \in RegType
    BY <1>1, <1>3, <2>1, <2>2, AssignState, AssignB, Zenon
  <2>4. /\ d'.state = "normalise_b" /\ d'.age = 4 + Shifts /\ SameA
        /\ d'.b = d.b /\ d'.b_m = 2 * d.b_m /\ d'.b_e = d.b_e - 1 /\ d'.b_s = d.b_s
    BY <1>1, <1>2, <1>3, <2>1, <2>2 DEF RegType, SameA
  <2>5. Shifts' = Shifts + 1
    BY <1>2, <2>2, <2>4 DEF Shifts, SameA
  <2>6. OperandsKept' /\ AgeIs'
    BY <1>1, <1>2, <2>2, <2>4, <2>5 DEF OperandsKept, AgeIs, SameA, AfterA, AfterB, Dividing,
       Finishing, Working
  <2>7. QED
    BY <2>3, <2>4, <2>6 DEF DivInv, TypeOK, DividesExactly, ResultKept, ResultIsQuotient,
       Dividing, Finishing
<1>8. QED
  BY <1>6, <1>7

\* The operands as the division finds them.
LEMMA OperandsFacts ==
  ASSUME DivInv, d.state \in AfterB
  PROVE  /\ d.state \in AfterSpecial /\ d.state \in AfterA
         /\ d.a_m \in P .. 2 * P - 1 /\ d.b_m \in P .. 2 * P - 1
         /\ d.a_e \in 1 - Bias - F .. Bias /\ d.b_e \in 1 - Bias - F .. Bias
         /\ Scaled(d.a, d.a_m, d.a_e) /\ d.a_s = d.a.s
         /\ Scaled(d.b, d.b_m, d.b_e) /\ d.b_s = d.b.s
         /\ d.a_s \in {0, 1} /\ d.b_s \in {0, 1} /\ d.a \in Float /\ d.b \in Float
         /\ P \in Nat \ {0, 1} /\ Shifts \in 0 .. 2 * F
<1>1. d.state \in AfterSpecial /\ d.state \in AfterA
  BY DEF AfterA, AfterSpecial
<1>2. /\ Scaled(d.a, d.a_m, d.a_e) /\ d.a_s = d.a.s
      /\ Scaled(d.b, d.b_m, d.b_e) /\ d.b_s = d.b.s
      /\ d.a_m >= P /\ d.b_m >= P
  BY <1>1 DEF DivInv, OperandsKept
<1>3. d.a_s \in {0, 1} /\ d.b_s \in {0, 1} /\ d.a \in Float /\ d.b \in Float
  BY DEF DivInv, TypeOK, RegType, Bit
<1>4. QED
  BY <1>1, <1>2, <1>3, ShiftsBound, DividerWidths

\* Once normalised, the operands stay.
LEMMA OperandsStay ==
  ASSUME DivInv, d.state \in AfterB, SameA, SameB, d'.state \in AfterB
  PROVE  OperandsKept' /\ Shifts' = Shifts
<1>1. d'.state # "normalise_a" /\ d'.state \in AfterA /\ d'.state \in AfterSpecial
  BY DEF AfterB, AfterA, AfterSpecial, Dividing, Finishing
<1>2. /\ Scaled(d.a, d.a_m, d.a_e) /\ d.a_s = d.a.s /\ d.a_m >= P
      /\ Scaled(d.b, d.b_m, d.b_e) /\ d.b_s = d.b.s /\ d.b_m >= P
  BY OperandsFacts
<1>3. OperandsKept'
  BY <1>1, <1>2 DEF OperandsKept, SameA, SameB
<1>4. QED
  BY <1>3 DEF SameA, SameB, Shifts

\* The dividend's place in its register, and the number of loops.
LEMMA DividendWidths ==
  /\ DivBits \in Nat /\ Loops \in Nat /\ F + 4 \in Nat /\ F + 3 \in Nat /\ DivBits - 1 \in Nat
  /\ Pow2[F + 3] = 8 * P /\ Pow2[F + 4] = 16 * P
  /\ Pow2[Loops] \in Nat \ {0} /\ Pow2[DivBits] = 2 * Pow2[Loops]
  /\ DivBits - 1 = Loops /\ Pow2[DivBits] = (2 * P) * Pow2[F + 4] /\ 4 * P <= Pow2[Loops]
  /\ Pow2[Loops] = (2 * P) * Pow2[F + 3]
<1>1. F \in Nat /\ P \in Nat \ {0, 1} /\ DivBits = 2 * F + 5 /\ Loops = 2 * F + 4
      /\ Pow2[F] = P /\ Pow2[F + 1] = 2 * P
  BY DividerWidths DEF ManBits
<1>2. /\ F + 1 \in Nat /\ F + 2 \in Nat /\ F + 3 \in Nat /\ F + 4 \in Nat
      /\ 2 * F + 4 \in Nat /\ F + 1 + 1 = F + 2 /\ F + 2 + 1 = F + 3 /\ F + 3 + 1 = F + 4
      /\ 2 * F + 4 + 1 = 2 * F + 5 /\ 2 * F + 5 = (F + 1) + (F + 4)
      /\ 2 * F + 4 = (F + 1) + (F + 3) /\ 2 * F + 5 - 1 = 2 * F + 4
  BY <1>1
<1>3. Pow2[F + 2] = 4 * P
  BY <1>1, <1>2, PowStep
<1>4. Pow2[F + 3] = 8 * P
  <2>1. Pow2[F + 2 + 1] = 2 * Pow2[F + 2]
    BY <1>2, PowStep
  <2>2. QED
    BY <1>1, <1>2, <1>3, <2>1
<1>5. Pow2[F + 4] = 16 * P
  <2>1. Pow2[F + 3 + 1] = 2 * Pow2[F + 3]
    BY <1>2, PowStep
  <2>2. QED
    BY <1>1, <1>2, <1>4, <2>1
<1>6. Pow2[2 * F + 5] = 2 * Pow2[2 * F + 4] /\ Pow2[2 * F + 4] \in Nat \ {0}
  BY <1>2, PowStep, PowNat
<1>7. Pow2[(F + 1) + (F + 4)] = Pow2[F + 1] * Pow2[F + 4]
  BY <1>2, PowSum
<1>8. Pow2[(F + 1) + (F + 3)] = Pow2[F + 1] * Pow2[F + 3]
  BY <1>2, PowSum
<1>9. 4 * P <= (2 * P) * (8 * P)
  BY <1>1
<1>10. QED
  BY <1>1, <1>2, <1>4, <1>5, <1>6, <1>7, <1>8, <1>9

\* divide_0: the division begins with nothing taken from the dividend.
LEMMA Divide0Keeps ==
  ASSUME DivInv, Divide0
  PROVE  DivInv'
<1>1. d.state = "divide_0" /\ d \in RegType /\ d.age = 4 + Shifts /\ d.state \in AfterB
  BY DEF DivInv, Divide0, TypeOK, AgeIs, AfterB
<1>2. /\ d.a_m \in P .. 2 * P - 1 /\ d.b_m \in P .. 2 * P - 1 /\ P \in Nat \ {0, 1}
      /\ d.a_e \in 1 - Bias - F .. Bias /\ d.b_e \in 1 - Bias - F .. Bias
      /\ d.a_s \in {0, 1} /\ d.b_s \in {0, 1} /\ Shifts \in 0 .. 2 * F
      /\ F \in Nat \ {0} /\ Bias \in Nat \ {0} /\ F <= 2 * Bias
  BY <1>1, OperandsFacts, DividerWidths
<1>3. Aged = d.age + 1 /\ Aged \in 0 .. MaxLatency
  BY <1>1, <1>2, AgedIs DEF MaxLatency
<1>4. Signed(d.a_e - d.b_e) = d.a_e - d.b_e /\ d.a_e - d.b_e \in Exponents
  <2>1. d.a_e - d.b_e \in Exponents
    BY <1>2, DividerWidths DEF Exponents
  <2>2. QED
    BY <2>1, SignedIs
<1>5. /\ d.a_m * Pow2[F + 4] \in DivideWords /\ d.b_m \in DivideWords /\ 0 \in DivideWords
      /\ 0 \in 0 .. Loops - 1
  <2>1. Pow2[F + 4] = 16 * P /\ Pow2[DivBits] = (2 * P) * Pow2[F + 4] /\ Loops = 2 * F + 4
    BY DividendWidths, DividerWidths
  <2> DEFINE H == Pow2[F + 4]
  <2>2. H \in Nat \ {0}
    BY <1>2, <2>1
  <2>3. d.a_m * H \in Nat /\ d.a_m * H < (2 * P) * H /\ d.b_m < (2 * P) * H
    <3> HIDE DEF H
    <3>1. d.a_m \in Int /\ 2 * P \in Int /\ d.a_m < 2 * P /\ d.a_m \in Nat
      BY <1>2
    <3>2. d.a_m * H < (2 * P) * H
      BY <2>2, <3>1, Cancel
    <3>3. 2 * P <= (2 * P) * H
      BY <1>2, <2>2
    <3>4. QED
      BY <1>2, <2>2, <3>1, <3>2, <3>3
  <2>4. QED
    BY <1>2, <2>1, <2>3 DEF DivideWords
<1>6. d' = [d EXCEPT !.z_s = Xor(d.a_s, d.b_s), !.z_e = Signed(d.a_e - d.b_e),
                    !.quotient = 0, !.remainder = 0, !.count = 0,
                    !.dividend = d.a_m * Pow2[F + 4], !.divisor = d.b_m,
                    !.state = "divide_1", !.age = Aged]
  BY DEF Divide0
<1>7. d' \in RegType
  <2>1. "divide_1" \in States /\ Xor(d.a_s, d.b_s) \in Bit
    BY <1>2, SpecialValues DEF States, Working, Bit
  <2>2. [d EXCEPT !.z_s = Xor(d.a_s, d.b_s), !.z_e = Signed(d.a_e - d.b_e)] \in RegType
    BY <1>1, <1>4, <2>1, AssignZ, Zenon
  <2>3. [d EXCEPT !.z_s = Xor(d.a_s, d.b_s), !.z_e = Signed(d.a_e - d.b_e),
                  !.quotient = 0, !.remainder = 0, !.count = 0,
                  !.dividend = d.a_m * Pow2[F + 4], !.divisor = d.b_m] \in RegType
    BY <1>5, <2>2, AssignDivision, Zenon
  <2>4. QED
    BY <1>3, <1>6, <2>1, <2>3, AssignState, Zenon
<1>8. /\ d'.state = "divide_1" /\ d'.age = 5 + Shifts /\ SameA /\ SameB
      /\ d'.z_s = Xor(d.a_s, d.b_s) /\ d'.z_e = d.a_e - d.b_e /\ d'.quotient = 0
      /\ d'.remainder = 0 /\ d'.count = 0 /\ d'.dividend = d.a_m * Pow2[F + 4]
      /\ d'.divisor = d.b_m
  BY <1>1, <1>2, <1>3, <1>4, <1>6 DEF RegType, SameA, SameB
<1>9. OperandsKept' /\ Shifts' = Shifts
  BY <1>1, <1>8, OperandsStay DEF AfterB, Dividing
<1>10. /\ Taken(d.a_m, d.b_m, 0, 0, 0, d.a_m * Pow2[F + 4]) /\ 0 < Pow2[0] /\ 0 < d.b_m
  BY <1>2, PowStep, DividendWidths DEF Taken
<1>11. DividesExactly'
  BY <1>8, <1>10 DEF DividesExactly, SameA, SameB
<1>12. AgeIs'
  BY <1>2, <1>8, <1>9 DEF AgeIs, Working
<1>13. QED
  BY <1>7, <1>8, <1>9, <1>11, <1>12 DEF DivInv, TypeOK, ResultKept, ResultIsQuotient, Finishing

\* The registers as the loop of the division finds them.
LEMMA DividingFacts ==
  ASSUME DivInv, d.state \in Dividing
  PROVE  /\ d \in RegType /\ d.state \in AfterB
         /\ d.a_m \in P .. 2 * P - 1 /\ d.b_m \in P .. 2 * P - 1 /\ P \in Nat \ {0, 1}
         /\ d.count \in 0 .. Loops - 1 /\ d.quotient \in DivideWords
         /\ d.remainder \in DivideWords /\ d.dividend \in DivideWords
         /\ d.quotient \in Nat /\ d.remainder \in Nat /\ d.dividend \in Nat
         /\ d.z_e = d.a_e - d.b_e /\ d.z_s = Xor(d.a_s, d.b_s) /\ d.divisor = d.b_m
         /\ Shifts \in 0 .. 2 * F /\ F \in Nat \ {0} /\ Bias \in Nat \ {0}
         /\ Loops = 2 * F + 4
<1>1. d \in RegType /\ d.state \in AfterB
  BY DEF DivInv, TypeOK, AfterB
<1>2. /\ d.a_m \in P .. 2 * P - 1 /\ d.b_m \in P .. 2 * P - 1 /\ P \in Nat \ {0, 1}
      /\ Shifts \in 0 .. 2 * F
  BY <1>1, OperandsFacts
<1>3. /\ d.count \in 0 .. Loops - 1 /\ d.quotient \in DivideWords
      /\ d.remainder \in DivideWords /\ d.dividend \in DivideWords
  BY <1>1 DEF RegType
<1>4. /\ d.quotient \in Nat /\ d.remainder \in Nat /\ d.dividend \in Nat
  BY <1>3, DividendWidths DEF DivideWords
<1>5. d.z_e = d.a_e - d.b_e /\ d.z_s = Xor(d.a_s, d.b_s) /\ d.divisor = d.b_m
  BY DEF DivInv, DividesExactly
<1>6. QED
  BY <1>1, <1>2, <1>3, <1>4, <1>5, DividerWidths

\* divide_1: one more bit of the dividend is taken, and the remainder is still short of
\* overflowing.
LEMMA Divide1Keeps ==
  ASSUME DivInv, Divide1
  PROVE  DivInv'
<1> DEFINE q == d.quotient
           r == d.remainder
           w == d.dividend
           b == d.b_m
           n == d.count
           H == Pow2[Loops]
           bit == (w \div H) % 2
           v == (2 * w) % (2 * H)
<1>1. d.state = "divide_1" /\ d.state \in Dividing
  BY DEF Divide1, Dividing
<1>2. /\ d \in RegType /\ d.state \in AfterB
      /\ d.a_m \in P .. 2 * P - 1 /\ b \in P .. 2 * P - 1 /\ P \in Nat \ {0, 1}
      /\ n \in 0 .. Loops - 1 /\ q \in Nat /\ r \in Nat /\ w \in DivideWords
      /\ d.z_e = d.a_e - d.b_e /\ d.z_s = Xor(d.a_s, d.b_s) /\ d.divisor = b
      /\ Shifts \in 0 .. 2 * F /\ F \in Nat \ {0} /\ Bias \in Nat \ {0}
      /\ Loops = 2 * F + 4
  BY <1>1, DividingFacts
<1>3. Taken(d.a_m, b, n, q, r, w) /\ q < Pow2[n] /\ r < b /\ d.age = 5 + Shifts + 2 * n
  BY <1>1 DEF DivInv, DividesExactly, AgeIs, Dividing
<1>4. /\ H \in Nat \ {0} /\ Pow2[DivBits] = 2 * H /\ DivBits - 1 = Loops /\ 4 * P <= H
      /\ w \in 0 .. 2 * H - 1 /\ Pow2[F + 4] \in Nat
  BY <1>2, DividendWidths DEF DivideWords
<1>5. /\ n \in Nat /\ n + 1 \in Nat /\ Pow2[n + 1] = 2 * Pow2[n] /\ Pow2[n] \in Nat
      /\ Pow2[n + 1] <= H
  <2>1. n \in Nat /\ n + 1 \in Nat /\ n + 1 <= Loops /\ Loops \in Nat
    BY <1>2
  <2>2. QED
    BY <2>1, PowStep, PowNat, PowOrder
<1>6. /\ bit \in {0, 1} /\ v \in 0 .. 2 * H - 1
      /\ Taken(d.a_m, b, n + 1, 2 * q, 2 * r + bit, v)
  <2> DEFINE X == d.a_m * Pow2[F + 4] * Pow2[n]
  <2>1. X = (q * b + r) * (2 * H) + w
    BY <1>3, <1>4 DEF Taken
  <2>2. X \in Nat /\ X * 2 = d.a_m * Pow2[F + 4] * (2 * Pow2[n])
    <3> DEFINE A == d.a_m
               C == Pow2[F + 4]
               D == Pow2[n]
    <3>1. A \in Nat /\ C \in Nat /\ D \in Nat
      BY <1>2, <1>4, <1>5
    <3> HIDE DEF A, C, D
    <3>2. A * C * D \in Nat /\ (A * C * D) * 2 = A * C * (2 * D)
      BY <3>1
    <3>3. QED
      BY <3>2 DEF A, C, D
  <2>3. b \in Nat
    BY <1>2
  <2> HIDE DEF X, q, r, w, b, H
  <2>4. /\ bit \in {0, 1} /\ v \in 0 .. 2 * H - 1
        /\ X * 2 = ((2 * q) * b + (2 * r + bit)) * (2 * H) + v
    BY <1>2, <1>4, <2>1, <2>2, <2>3, BitTaken
  <2>5. QED
    BY <1>4, <1>5, <2>2, <2>4 DEF Taken
<1>7. /\ 2 * q + 1 < Pow2[n + 1] /\ 2 * r + bit < 2 * b /\ (2 * q) % 2 = 0
      /\ 2 * q \in Nat /\ 2 * q < H /\ 2 * r \in Nat /\ 2 * r < H
  BY <1>2, <1>3, <1>4, <1>5, <1>6
<1>8. /\ Shifted(q) = 2 * q /\ Shifted(r) = 2 * r /\ Shifted(w) = v
      /\ BitOf(w, DivBits - 1) = bit
  <2>1. 2 * q \in 0 .. 2 * H - 1 /\ 2 * r \in 0 .. 2 * H - 1 /\ 2 * H \in Nat \ {0}
    BY <1>4, <1>7
  <2>2. (2 * q) % (2 * H) = 2 * q /\ (2 * r) % (2 * H) = 2 * r
    BY <2>1, Small
  <2>3. QED
    BY <1>4, <2>2 DEF Shifted, BitOf
<1>9. 2 * q \in DivideWords /\ 2 * r + bit \in DivideWords /\ v \in DivideWords
  BY <1>2, <1>4, <1>6, <1>7 DEF DivideWords
<1>10. Aged = d.age + 1 /\ Aged \in 0 .. MaxLatency
  BY <1>2, <1>3, AgedIs DEF MaxLatency
<1>11. d' = [d EXCEPT !.quotient = 2 * q, !.remainder = 2 * r + bit, !.dividend = v,
                      !.state = "divide_2", !.age = Aged]
  BY <1>8 DEF Divide1
<1> HIDE DEF q, r, w, b, n, H, bit, v
<1>12. d' \in RegType
  <2>1. "divide_2" \in States
    BY DEF States, Working
  <2>2. QED
    BY <1>2, <1>9, <1>10, <1>11, <2>1, AssignState, AssignDivision, Zenon
<1>13. /\ d'.state = "divide_2" /\ d'.age = d.age + 1 /\ SameA /\ SameB
       /\ d'.z_s = d.z_s /\ d'.z_e = d.z_e /\ d'.quotient = 2 * q
       /\ d'.remainder = 2 * r + bit /\ d'.count = d.count /\ d'.dividend = v
       /\ d'.divisor = d.divisor
  BY <1>2, <1>10, <1>11 DEF RegType, SameA, SameB
<1>14. OperandsKept' /\ Shifts' = Shifts
  BY <1>2, <1>13, OperandsStay DEF AfterB, Dividing
<1>15. DividesExactly'
  BY <1>2, <1>6, <1>7, <1>13 DEF DividesExactly, SameA, SameB, b, n
<1>16. AgeIs'
  <2>1. d.age + 1 = 6 + Shifts + 2 * d.count
    BY <1>2, <1>3 DEF n
  <2>2. QED
    BY <1>13, <1>14, <2>1 DEF AgeIs, Working
<1>17. QED
  BY <1>12, <1>13, <1>14, <1>15, <1>16 DEF DivInv, TypeOK, ResultKept, ResultIsQuotient,
     Finishing

\* divide_2: the trial subtraction gives the bit of the quotient.
LEMMA Divide2Keeps ==
  ASSUME DivInv, Divide2
  PROVE  DivInv'
<1> DEFINE q == d.quotient
           r == d.remainder
           b == d.b_m
           n == d.count
           fits == r >= b
           last == n = Loops - 1
           nq == IF fits THEN q + 1 ELSE q
           nr == IF fits THEN r - b ELSE r
           nn == IF last THEN n ELSE n + 1
           ns == IF last THEN "divide_3" ELSE "divide_1"
<1>1. d.state = "divide_2" /\ d.state \in Dividing
  BY DEF Divide2, Dividing
<1>2. /\ d \in RegType /\ d.state \in AfterB
      /\ d.a_m \in P .. 2 * P - 1 /\ b \in P .. 2 * P - 1 /\ P \in Nat \ {0, 1}
      /\ n \in 0 .. Loops - 1 /\ q \in Nat /\ r \in Nat
      /\ d.z_e = d.a_e - d.b_e /\ d.z_s = Xor(d.a_s, d.b_s) /\ d.divisor = b
      /\ Shifts \in 0 .. 2 * F /\ F \in Nat \ {0} /\ Bias \in Nat \ {0}
      /\ Loops = 2 * F + 4
  BY <1>1, DividingFacts
<1>3. /\ Taken(d.a_m, b, n + 1, q, r, d.dividend) /\ q + 1 < Pow2[n + 1] /\ r < 2 * b
      /\ q % 2 = 0 /\ d.age = 6 + Shifts + 2 * n
  BY <1>1 DEF DivInv, DividesExactly, AgeIs, Dividing
<1>4. /\ Pow2[n + 1] \in Nat /\ 2 * Pow2[n + 1] <= Pow2[DivBits] /\ Pow2[DivBits] \in Nat
      /\ 4 * P <= Pow2[DivBits]
  <2>1. n + 1 \in Nat /\ n + 1 <= Loops /\ Loops \in Nat
    BY <1>2
  <2>2. Pow2[n + 1] \in Nat /\ Pow2[n + 1] <= Pow2[Loops] /\ Pow2[Loops] \in Nat
    BY <2>1, PowNat, PowOrder
  <2>3. QED
    BY <1>2, <2>2, DividendWidths
<1>5. /\ nq \in DivideWords /\ nr \in DivideWords /\ nn \in 0 .. Loops - 1
      /\ nq < Pow2[n + 1] /\ nr < b /\ nr \in Nat
  BY <1>2, <1>3, <1>4 DEF DivideWords
<1>6. Taken(d.a_m, b, n + 1, nq, nr, d.dividend)
  <2>1. b \in Int
    BY <1>2
  <2>2. nq * b + nr = q * b + r
    <3> HIDE DEF q, r, b
    <3>1. (q + 1) * b + (r - b) = q * b + r
      BY <1>2, <2>1
    <3>2. QED
      BY <3>1
  <2>3. QED
    BY <1>3, <2>2 DEF Taken
<1>7. d' = [d EXCEPT !.quotient = nq, !.remainder = nr, !.count = nn, !.state = ns,
                     !.age = Aged]
  <2>1. /\ nq = IF r >= d.divisor THEN q - (q % 2) + 1 ELSE q
        /\ nr = IF r >= d.divisor THEN r - d.divisor ELSE r
    BY <1>2, <1>3
  <2>2. QED
    BY <2>1, Zenon DEF Divide2
<1>8. Aged = d.age + 1 /\ Aged \in 0 .. MaxLatency
  BY <1>2, <1>3, AgedIs DEF MaxLatency
<1>9. ns \in States /\ ns \in AfterB /\ ns \in {"divide_1", "divide_3"}
  BY DEF States, Working, AfterB, Dividing
<1>10. \/ ns = "divide_3" /\ n + 1 = Loops
       \/ ns = "divide_1" /\ nn = n + 1
  BY <1>2
<1> HIDE DEF q, r, b, n, fits, last, nq, nr, nn, ns
<1>11. d' \in RegType
  BY <1>2, <1>5, <1>7, <1>8, <1>9, AssignState, AssignDivision, Zenon
<1>12. /\ d'.state = ns /\ d'.age = d.age + 1 /\ SameA /\ SameB
       /\ d'.z_s = d.z_s /\ d'.z_e = d.z_e /\ d'.quotient = nq
       /\ d'.remainder = nr /\ d'.count = nn /\ d'.dividend = d.dividend
       /\ d'.divisor = d.divisor
  BY <1>2, <1>7, <1>8 DEF RegType, SameA, SameB
<1>13. OperandsKept' /\ Shifts' = Shifts
  BY <1>2, <1>9, <1>12, OperandsStay
<1>14. DividesExactly'
  <2>1. CASE ns = "divide_3" /\ n + 1 = Loops
    BY <1>2, <1>5, <1>6, <1>12, <2>1 DEF DividesExactly, SameA, SameB, b
  <2>2. CASE ns = "divide_1" /\ nn = n + 1
    BY <1>2, <1>5, <1>6, <1>12, <2>2 DEF DividesExactly, SameA, SameB, b
  <2>3. QED
    BY <1>10, <2>1, <2>2
<1>15. AgeIs'
  <2>1. CASE ns = "divide_3" /\ n + 1 = Loops
    <3>1. d.age + 1 = 4 * F + 13 + Shifts
      BY <1>2, <1>3, <2>1
    <3>2. QED
      BY <1>12, <1>13, <2>1, <3>1 DEF AgeIs, Working
  <2>2. CASE ns = "divide_1" /\ nn = n + 1
    <3>1. d.age + 1 = 5 + Shifts + 2 * nn
      BY <1>2, <1>3, <2>2
    <3>2. QED
      BY <1>12, <1>13, <2>2, <3>1 DEF AgeIs, Working
  <2>3. QED
    BY <1>10, <2>1, <2>2
<1>16. QED
  BY <1>9, <1>11, <1>12, <1>13, <1>14, <1>15 DEF DivInv, TypeOK, ResultKept,
     ResultIsQuotient, Finishing

\* A product and a rest below the factor: the rest is zero if the factor divides.
LEMMA NoRest ==
  ASSUME NEW X \in Nat, NEW T \in Nat, NEW K \in Nat \ {0}, NEW w \in 0 .. K - 1,
         X * K = T * K + w
  PROVE  T = X
<1> DEFINE n == X * K
<1>1. n = (K * X) + 0 /\ n = (K * T) + w /\ 0 \in 0 .. K - 1 /\ X \in Int /\ T \in Int
  OBVIOUS
<1> HIDE DEF n
<1>2. n \div K = X
  BY <1>1, DivisionIs
<1>3. n \div K = T
  BY <1>1, DivisionIs
<1>4. QED
  BY <1>2, <1>3

\* The quotient of two normalised mantissas, eight times as fine.
LEMMA QuotientRange ==
  ASSUME NEW p \in Nat \ {0, 1}, NEW a \in p .. 2 * p - 1, NEW b \in p .. 2 * p - 1,
         NEW q \in Nat, NEW r \in Nat, r < b, q * b + r = 8 * (p * a)
  PROVE  q \in 4 * p .. 16 * p - 1
<1> DEFINE S == p * p
<1>1. S \in Nat /\ S > 0 /\ p * a \in Nat
  OBVIOUS
<1>2. S <= p * a /\ p * a + p <= 2 * S
  <2>1. p * p <= a * p /\ (a + 1) * p <= (2 * p) * p
    BY Cancel
  <2>2. QED
    BY <2>1
<1>3. (4 * p) * b <= 8 * S /\ (16 * p) * b >= 16 * S
  <2>1. b * p <= (2 * p) * p /\ p * p <= b * p
    BY Cancel
  <2>2. (4 * p) * b = 4 * (b * p) /\ (16 * p) * b = 16 * (b * p)
    OBVIOUS
  <2> DEFINE t == b * p
  <2>3. t \in Nat /\ (2 * p) * p = 2 * S
    OBVIOUS
  <2> HIDE DEF t, S
  <2>4. QED
    BY <1>1, <2>1, <2>2, <2>3 DEF t, S
<1>4. q * b <= 8 * (p * a) /\ 8 * (p * a) < (q + 1) * b
  <2>1. (q + 1) * b = q * b + b /\ q * b \in Nat
    OBVIOUS
  <2>2. QED
    BY <1>1, <2>1
<1>5. (4 * p) * b < (q + 1) * b
  <2>1. (q + 1) * b \in Nat /\ (4 * p) * b \in Nat
    OBVIOUS
  <2> HIDE DEF S
  <2>2. QED
    BY <1>1, <1>2, <1>3, <1>4, <2>1
<1>6. q * b < (16 * p) * b
  <2>1. q * b \in Nat /\ (16 * p) * b \in Nat
    OBVIOUS
  <2> HIDE DEF S
  <2>2. QED
    BY <1>1, <1>2, <1>3, <1>4, <2>1
<1>7. b \in Nat \ {0} /\ 4 * p \in Int /\ q + 1 \in Int /\ q \in Int /\ 16 * p \in Int
  OBVIOUS
<1>8. 4 * p < q + 1 /\ q < 16 * p
  BY <1>5, <1>6, <1>7, Cancel
<1>9. QED
  BY <1>8

\* Its bits: the mantissa, guard, round and what is left for the sticky bit.
LEMMA QuotientBits ==
  ASSUME NEW p \in Nat \ {0, 1}, NEW q \in 4 * p .. 16 * p - 1
  PROVE  LET z == q \div 8
             g == (q \div 4) % 2
             h == (q \div 2) % 2
             V == 4 * z + 2 * g + h
         IN  /\ z \in 0 .. 2 * p - 1 /\ g \in {0, 1} /\ h \in {0, 1} /\ q % 2 \in {0, 1}
             /\ q = 2 * V + (q % 2) /\ 2 * p <= V /\ (q \div 1) % 2 = q % 2
OBVIOUS

\* val is a quarter of the dividend, b the divisor; z, g, h, l are the quotient's bits, r
\* is the remainder, t the sticky bit.
Divided(val, b, r, z, g, h, l, t) ==
  /\ val \in Nat /\ b \in Nat \ {0} /\ r \in Nat /\ r < b
  /\ z \in Nat /\ g \in {0, 1} /\ h \in {0, 1} /\ l \in {0, 1}
  /\ t = IF l = 1 \/ r # 0 THEN 1 ELSE 0
  /\ (2 * (4 * z + 2 * g + h) + l) * b + r = 4 * val

\* The quotient's bits bracket the quotient.
LEMMA QuotientBetween ==
  ASSUME NEW val, NEW b, NEW r, NEW z, NEW g, NEW h, NEW l, NEW t,
         Divided(val, b, r, z, g, h, l, t)
  PROVE  Between(val, b * 2, z, g, h, t) /\ 4 * val < (4 * z + 2 * g + h + 1) * (2 * b)
<1> USE DEF Divided
<1> DEFINE V == 4 * z + 2 * g + h
           B == V * b
           k == 2 - h
<1>1. V \in Nat /\ B \in Nat /\ k \in {1, 2}
  OBVIOUS
<1>2. (2 * V + l) * b = 2 * B + l * b
  <2> HIDE DEF V
  <2>1. QED
    BY <1>1
<1>3. V * (b * 2) = 2 * B /\ (V + 1) * (2 * b) = 2 * B + 2 * b /\ V + 2 - h = V + k
      /\ (V + k) * (b * 2) = 2 * B + k * (b * 2)
  <2>1. V + 2 - h = V + k
    OBVIOUS
  <2> HIDE DEF V, k
  <2>2. QED
    BY <1>1, <2>1
<1>4. 2 * B + l * b + r = 4 * val
  BY <1>2
<1>5. k * (b * 2) >= 2 * b
  <2> HIDE DEF k
  <2>1. CASE k = 1
    BY <2>1
  <2>2. CASE k = 2
    BY <2>2
  <2>3. QED
    BY <1>1, <2>1, <2>2
<1>6. /\ 2 * B <= 4 * val /\ 4 * val < 2 * B + 2 * b /\ 4 * val < 2 * B + k * (b * 2)
      /\ t = 0 <=> 2 * B = 4 * val
  <2> DEFINE K == k * (b * 2)
  <2>1. K \in Nat
    BY <1>1
  <2> HIDE DEF B, K
  <2>2. CASE l = 0
    BY <1>1, <1>4, <1>5, <2>1, <2>2 DEF K
  <2>3. CASE l = 1
    BY <1>1, <1>4, <1>5, <2>1, <2>3 DEF K
  <2>4. QED
    BY <2>2, <2>3
<1> HIDE DEF B, k
<1>7. QED
  BY <1>3, <1>6 DEF Between

\* divide_3: mantissa, guard, round and sticky bit bracket the quotient.
LEMMA Divide3Keeps ==
  ASSUME DivInv, Divide3
  PROVE  DivInv'
<1> DEFINE q == d.quotient
           r == d.remainder
           b == d.b_m
           a == d.a_m
           z == q \div 8
           g == (q \div 4) % 2
           h == (q \div 2) % 2
           l == q % 2
           t == IF l = 1 \/ r # 0 THEN 1 ELSE 0
           V == 4 * z + 2 * g + h
<1>1. d.state = "divide_3" /\ d.state \in Dividing
  BY DEF Divide3, Dividing
<1>2. /\ d \in RegType /\ d.state \in AfterB
      /\ a \in P .. 2 * P - 1 /\ b \in P .. 2 * P - 1 /\ P \in Nat \ {0, 1}
      /\ q \in Nat /\ r \in Nat /\ d.dividend \in DivideWords
      /\ d.z_e = d.a_e - d.b_e /\ d.z_s = Xor(d.a_s, d.b_s)
      /\ Shifts \in 0 .. 2 * F /\ F \in Nat \ {0} /\ Bias \in Nat \ {0}
  BY <1>1, DividingFacts
<1>3. Taken(a, b, Loops, q, r, d.dividend) /\ r < b /\ d.age = 4 * F + 13 + Shifts
  BY <1>1 DEF DivInv, DividesExactly, AgeIs, Dividing
<1>4. q * b + r = 8 * (P * a)
  <2> DEFINE H == Pow2[Loops]
  <2>1. /\ H \in Nat \ {0} /\ Pow2[DivBits] = 2 * H /\ Pow2[F + 4] = 16 * P
        /\ d.dividend \in 0 .. 2 * H - 1
    BY <1>2, DividendWidths DEF DivideWords
  <2>2. a * (16 * P) * H = (q * b + r) * (2 * H) + d.dividend
    BY <1>3, <2>1 DEF Taken
  <2>3. a \in Nat /\ P \in Nat /\ q * b + r \in Nat /\ 8 * (P * a) \in Nat
    BY <1>2
  <2>4. a * (16 * P) * H = (8 * (P * a)) * (2 * H)
    <3> HIDE DEF a, H, P
    <3>1. QED
      BY <2>1, <2>3
  <2>5. 2 * H \in Nat \ {0}
    BY <2>1
  <2> DEFINE X == 8 * (P * a)
             T == q * b + r
             K == 2 * H
  <2>6. X * K = T * K + d.dividend /\ X \in Nat /\ T \in Nat /\ K \in Nat \ {0}
        /\ d.dividend \in 0 .. K - 1
    BY <2>1, <2>2, <2>3, <2>4, <2>5
  <2> HIDE DEF X, T, K
  <2>7. T = X
    BY <2>6, NoRest
  <2>8. QED
    BY <2>7 DEF X, T
<1>5. q \in 4 * P .. 16 * P - 1
  <2> HIDE DEF q, r, a, b, P
  <2>1. QED
    BY <1>2, <1>3, <1>4, QuotientRange
<1>6. /\ z \in 0 .. 2 * P - 1 /\ g \in {0, 1} /\ h \in {0, 1} /\ l \in {0, 1}
      /\ q = 2 * V + l /\ 2 * P <= V /\ (q \div 1) % 2 = l
  <2> HIDE DEF q, P
  <2>1. QED
    BY <1>2, <1>5, QuotientBits
<1>7. Between(2 * P * a, b * 2, z, g, h, t) /\ 8 * P * a < (V + 1) * (2 * b)
  <2> DEFINE x1 == 2 * P * a
             aa == a
             bb == b
  <2>1. aa \in Nat /\ bb \in Nat \ {0} /\ z \in Nat /\ P \in Nat
    <3> HIDE DEF q, r, b, a, z, g, h, l, t, V
    <3>1. QED
      BY <1>2, <1>6
  <2>2. 2 * P * aa \in Nat /\ 4 * (2 * P * aa) = 8 * (P * aa) /\ 8 * P * aa = 8 * (P * aa)
    <3> HIDE DEF aa, P
    <3>1. QED
      BY <2>1
  <2>3. /\ x1 \in Nat /\ 4 * x1 = 8 * P * a
        /\ (2 * (4 * z + 2 * g + h) + l) * b + r = 4 * x1
    BY <1>4, <1>6, <2>2
  <2>4. t = IF l = 1 \/ r # 0 THEN 1 ELSE 0
    OBVIOUS
  <2>5. g \in {0, 1} /\ h \in {0, 1} /\ l \in {0, 1} /\ r \in Nat /\ r < b
    BY <1>2, <1>3, <1>6
  <2>6. b \in Nat \ {0}
    BY <2>1
  <2>7. V = 4 * z + 2 * g + h
    OBVIOUS
  <2> HIDE DEF x1, z, g, h, l, t, b, r, V
  <2>8. Between(x1, b * 2, z, g, h, t) /\ 4 * x1 < (4 * z + 2 * g + h + 1) * (2 * b)
    <3>1. x1 \in Nat /\ z \in Nat /\ (2 * (4 * z + 2 * g + h) + l) * b + r = 4 * x1
      BY <2>1, <2>3
    <3>2. Divided(x1, b, r, z, g, h, l, t)
      BY <2>4, <2>5, <2>6, <3>1 DEF Divided
    <3>3. QED
      BY <3>2, QuotientBetween
  <2>9. QED
    BY <2>3, <2>7, <2>8 DEF x1
<1>8. /\ (q \div 8) % Pow2[ManBits] = z /\ BitOf(q, 2) = g /\ BitOf(q, 1) = h
      /\ BitOf(q, 0) = l
  <2>1. Pow2[0] = 1 /\ Pow2[1] = 2 /\ Pow2[2] = 4
    <3>1. Pow2[0] = 1 /\ Pow2[0 + 1] = 2 * Pow2[0] /\ Pow2[1 + 1] = 2 * Pow2[1]
      BY PowStep
    <3>2. 0 + 1 = 1 /\ 1 + 1 = 2
      OBVIOUS
    <3>3. QED
      BY <3>1, <3>2
  <2>2. z % (2 * P) = z /\ Pow2[ManBits] = 2 * P
    BY <1>2, <1>6, Small, DividerWidths
  <2>3. QED
    BY <1>6, <2>1, <2>2 DEF BitOf
<1>9. Aged = d.age + 1 /\ Aged \in 0 .. MaxLatency
  BY <1>2, <1>3, AgedIs DEF MaxLatency
<1>10. d' = [d EXCEPT !.z_m = z, !.guard = g, !.round_bit = h, !.sticky = t,
                      !.state = "normalise_1", !.age = Aged]
  BY <1>8 DEF Divide3
<1>11. z \in Mantissas /\ g \in Bit /\ h \in Bit /\ t \in Bit /\ t \in {0, 1}
  BY <1>2, <1>6, DividerWidths DEF Mantissas, Bit
<1> HIDE DEF q, r, b, a, z, g, h, l, t
<1>12. d' \in RegType
  <2>1. "normalise_1" \in States
    BY DEF States, Working
  <2>2. QED
    BY <1>2, <1>9, <1>10, <1>11, <2>1, AssignState, AssignZ, AssignBits, Zenon
<1>13. /\ d'.state = "normalise_1" /\ d'.age = d.age + 1 /\ SameA /\ SameB
       /\ d'.z_s = d.z_s /\ d'.z_e = d.z_e /\ d'.z_m = z /\ d'.guard = g
       /\ d'.round_bit = h /\ d'.sticky = t
  BY <1>2, <1>9, <1>10 DEF RegType, SameA, SameB
<1>14. OperandsKept' /\ Shifts' = Shifts
  BY <1>2, <1>13, OperandsStay DEF AfterB, Finishing
<1>15. Net' = 0 /\ Moves' = 0
  <2>1. d.a_e \in Int /\ d.b_e \in Int
    BY <1>2 DEF RegType, Exponents
  <2>2. QED
    BY <1>2, <1>13, <2>1 DEF Net, Moves, SameA, SameB
<1>16. ResultKept'
  <2>1. Pow2[Net' + 1] = 2
    <3>1. Pow2[0] = 1 /\ Pow2[0 + 1] = 2 * Pow2[0] /\ 0 + 1 = 1
      BY PowStep
    <3>2. QED
      BY <1>15, <3>1
  <2>2. /\ d'.z_s = Xor(d'.a_s, d'.b_s) /\ d'.a_m = a /\ d'.b_m = b
    BY <1>2, <1>13 DEF SameA, SameB, a, b
  <2>3. Quarters' = V
    BY <1>13 DEF Quarters
  <2>4. QED
    BY <1>6, <1>7, <1>13, <1>15, <2>1, <2>2, <2>3 DEF ResultKept
<1>17. AgeIs'
  <2>1. d.age + 1 = 4 * F + 14 + Shifts + 0
    BY <1>2, <1>3
  <2>2. QED
    BY <1>13, <1>14, <1>15, <2>1 DEF AgeIs, Working
<1>18. QED
  BY <1>12, <1>13, <1>14, <1>16, <1>17 DEF DivInv, TypeOK, DividesExactly, ResultIsQuotient,
     Dividing

\* The registers as the normalisation of the result finds them.
LEMMA FinishingFacts ==
  ASSUME DivInv, d.state \in Finishing
  PROVE  /\ d \in RegType /\ d.state \in AfterB
         /\ d.a_m \in P .. 2 * P - 1 /\ d.b_m \in P .. 2 * P - 1 /\ P \in Nat \ {0, 1}
         /\ 2 * P * d.a_m \in Nat /\ d.b_m \in Nat \ {0}
         /\ d.z_m \in 0 .. 2 * P - 1 /\ d.z_e \in Exponents /\ d.z_e \in Int
         /\ d.guard \in {0, 1} /\ d.round_bit \in {0, 1} /\ d.sticky \in {0, 1}
         /\ F \in Nat \ {0} /\ Bias \in Nat \ {0}
<1>1. d \in RegType /\ d.state \in AfterB
  BY DEF DivInv, TypeOK, AfterB
<1>2. /\ d.a_m \in P .. 2 * P - 1 /\ d.b_m \in P .. 2 * P - 1 /\ P \in Nat \ {0, 1}
  BY <1>1, OperandsFacts
<1>3. /\ d.z_m \in 0 .. 2 * P - 1 /\ d.z_e \in Exponents
      /\ d.guard \in {0, 1} /\ d.round_bit \in {0, 1} /\ d.sticky \in {0, 1}
  BY <1>1, DividerWidths DEF RegType, Mantissas, Bit
<1>4. d.z_e \in Int
  BY <1>3, DividerWidths DEF Exponents
<1>5. 2 * P * d.a_m \in Nat /\ d.b_m \in Nat \ {0}
  BY <1>2
<1>6. QED
  BY <1>1, <1>2, <1>3, <1>4, <1>5, DividerWidths

\* What ResultKept says while the result is normalised and rounded.
LEMMA ResultFacts ==
  ASSUME DivInv, d.state \in Finishing
  PROVE  /\ d.z_s = Xor(d.a_s, d.b_s) /\ Net \in Int /\ Net >= -1
         /\ Between(2 * P * d.a_m, d.b_m * Pow2[Net + 1], d.z_m, d.guard, d.round_bit, d.sticky)
         /\ Net = -1 => d.z_m >= P /\ d.z_e >= 1 - Bias
         /\ Net > 0 => d.z_e <= 1 - Bias
<1>1. Net \in Int
  BY FinishingFacts, OperandsFacts, DividerWidths DEF Net
<1>2. QED
  BY <1>1 DEF DivInv, ResultKept

\* How long normalising the operands and the result can take together.
LEMMA FinishBound ==
  ASSUME DivInv, d.state \in Finishing
  PROVE  Shifts \in Nat /\ Moves \in Nat /\ Shifts + Moves <= 2 * F + Bias
<1>1. /\ d.a_e \in 1 - Bias - F .. Bias /\ d.b_e \in 1 - Bias - F .. Bias /\ d.z_e \in Int
      /\ Bias \in Nat \ {0} /\ F \in Nat \ {0}
  BY FinishingFacts, OperandsFacts
<1>2. Net >= -1 /\ (Net > 0 => d.z_e <= 1 - Bias)
  BY ResultFacts
<1>3. QED
  BY <1>1, <1>2 DEF Net, Moves, Shifts, Positions

\* normalise_1: the only bit that can be missing is shifted in, and nothing is lost.
LEMMA Normalise1Keeps ==
  ASSUME DivInv, Normalise1
  PROVE  DivInv'
<1>1. d.state = "normalise_1" /\ d.state \in Finishing
  BY DEF Normalise1, Finishing
<1>2. /\ d \in RegType /\ d.state \in AfterB
      /\ d.a_m \in P .. 2 * P - 1 /\ d.b_m \in P .. 2 * P - 1 /\ P \in Nat \ {0, 1}
      /\ 2 * P * d.a_m \in Nat /\ d.b_m \in Nat \ {0}
      /\ d.z_m \in 0 .. 2 * P - 1 /\ d.z_e \in Exponents /\ d.z_e \in Int
      /\ d.guard \in {0, 1} /\ d.round_bit \in {0, 1} /\ d.sticky \in {0, 1}
      /\ F \in Nat \ {0} /\ Bias \in Nat \ {0}
  BY <1>1, FinishingFacts
<1>3. /\ d.z_s = Xor(d.a_s, d.b_s) /\ Net \in {-1, 0}
      /\ Between(2 * P * d.a_m, d.b_m * Pow2[Net + 1], d.z_m, d.guard, d.round_bit, d.sticky)
      /\ Net = -1 => d.z_m >= P /\ d.z_e >= 1 - Bias
      /\ Net = 0 => 8 * P * d.a_m < (Quarters + 1) * (2 * d.b_m) /\ 2 * P <= Quarters
      /\ d.age = 4 * F + 14 + Shifts + Moves
  BY <1>1 DEF DivInv, ResultKept, AgeIs, Finishing
<1>4. Shifts \in Nat /\ Moves \in Nat /\ Shifts + Moves <= 2 * F + Bias
  BY <1>1, FinishBound
<1>5. Aged = d.age + 1 /\ Aged \in 0 .. MaxLatency
  BY <1>2, <1>3, <1>4, AgedIs DEF MaxLatency
<1>6. Msb(d.z_m) <=> d.z_m >= P
  BY <1>2, MsbIs DEF RegType
<1>7. CASE ~Msb(d.z_m) /\ d.z_e > 1 - Bias
  <2>1. d.z_m < P /\ Net = 0 /\ Moves = 0
    BY <1>2, <1>3, <1>6, <1>7 DEF Moves
  <2>2. Pow2[0] = 1 /\ Pow2[1] = 2
    <3>1. Pow2[0] = 1 /\ Pow2[0 + 1] = 2 * Pow2[0] /\ 0 + 1 = 1
      BY PowStep
    <3>2. QED
      BY <3>1
  <2>3. /\ 2 * d.z_m + d.guard \in P .. 2 * P - 1
        /\ Between(2 * P * d.a_m, d.b_m * 1, 2 * d.z_m + d.guard, d.round_bit, 0, d.sticky)
    <3> DEFINE x1 == 2 * P * d.a_m
               b == d.b_m
               z == d.z_m
    <3>1. 4 * x1 = 8 * P * d.a_m
      <4> DEFINE a == d.a_m
      <4>1. a \in Nat /\ P \in Nat
        BY <1>2
      <4> HIDE DEF a, P
      <4>2. 4 * (2 * P * a) = 8 * P * a
        BY <4>1
      <4>3. QED
        BY <4>2 DEF a
    <3>2. Between(x1, b * 2, z, d.guard, d.round_bit, d.sticky)
      BY <1>3, <2>1, <2>2
    <3>3. /\ 4 * x1 < (4 * z + 2 * d.guard + d.round_bit + 1) * (2 * b)
          /\ 2 * P <= 4 * z + 2 * d.guard + d.round_bit
      BY <1>3, <2>1, <3>1 DEF Quarters
    <3>4. x1 \in Nat /\ b \in Nat \ {0} /\ z \in Nat /\ P \in Nat /\ z < P
      BY <1>2, <2>1
    <3> HIDE DEF x1, b, z, P
    <3>5. 2 * z + d.guard \in P .. 2 * P - 1
          /\ Between(x1, b * 1, 2 * z + d.guard, d.round_bit, 0, d.sticky)
      <4>1. Bracket(x1, b * 2, z, d.guard, d.round_bit, d.sticky)
        BY <1>2, <3>2, <3>4 DEF Bracket
      <4>2. Spare(x1, b, z, P, d.guard, d.round_bit, d.sticky)
        BY <3>3, <3>4, <4>1 DEF Spare
      <4>3. QED
        BY <4>2, ShiftLeft
    <3>6. QED
      BY <3>5 DEF x1, b, z
  <2>4. ShiftIn(d.z_m, d.guard) = 2 * d.z_m + d.guard
    <3>1. 2 * d.z_m + d.guard \in 0 .. 2 * P - 1 /\ 2 * P \in Nat \ {0}
      BY <1>2, <2>3
    <3>2. QED
      BY <3>1, Small, DividerWidths DEF ShiftIn
  <2>5. Signed(d.z_e - 1) = d.z_e - 1 /\ d.z_e - 1 \in Exponents
    <3>1. d.z_e - 1 \in Exponents
      BY <1>2, <1>7, DividerWidths DEF Exponents
    <3>2. QED
      BY <3>1, SignedIs
  <2>6. d' = [d EXCEPT !.z_e = d.z_e - 1, !.z_m = 2 * d.z_m + d.guard,
                       !.guard = d.round_bit, !.round_bit = 0, !.age = Aged]
    BY <1>7, <2>4, <2>5 DEF Normalise1
  <2>7. d' \in RegType
    <3>1. 2 * d.z_m + d.guard \in Mantissas /\ d.round_bit \in Bit /\ 0 \in Bit
      BY <1>2, <2>3, DividerWidths DEF Mantissas, Bit
    <3>2. QED
      BY <1>2, <1>5, <2>5, <2>6, <3>1, AssignState, AssignZ, AssignBits, Zenon
  <2>8. /\ d'.state = "normalise_1" /\ d'.age = d.age + 1 /\ SameA /\ SameB
        /\ d'.z_s = d.z_s /\ d'.z_e = d.z_e - 1 /\ d'.z_m = 2 * d.z_m + d.guard
        /\ d'.guard = d.round_bit /\ d'.round_bit = 0 /\ d'.sticky = d.sticky
    BY <1>1, <1>2, <1>5, <2>6 DEF RegType, SameA, SameB
  <2>9. OperandsKept' /\ Shifts' = Shifts
    BY <1>1, <1>2, <2>8, OperandsStay
  <2>10. Net' = -1 /\ Moves' = 1
    <3>1. d.a_e \in Int /\ d.b_e \in Int
      BY <1>2, DividerWidths DEF RegType, Exponents
    <3>2. Net' = Net - 1
      BY <1>2, <2>8, <3>1 DEF Net, SameA, SameB
    <3>3. Net' = -1
      BY <2>1, <3>2
    <3>4. QED
      BY <3>3 DEF Moves
  <2>11. ResultKept'
    <3>1. Net' + 1 = 0 /\ 2 * d.z_m + d.guard >= P /\ d.z_e - 1 >= 1 - Bias
      BY <1>2, <1>7, <2>3, <2>10
    <3>2. QED
      BY <1>3, <2>2, <2>3, <2>8, <2>10, <3>1 DEF ResultKept, SameA, SameB
  <2>12. AgeIs'
    <3>1. d.age + 1 = 4 * F + 14 + Shifts + 1
      BY <1>2, <1>3, <1>4, <2>1
    <3>2. QED
      BY <2>8, <2>9, <2>10, <3>1 DEF AgeIs, Working
  <2>13. QED
    BY <2>7, <2>8, <2>9, <2>11, <2>12 DEF DivInv, TypeOK, DividesExactly,
       ResultIsQuotient, Dividing
<1>8. CASE ~(~Msb(d.z_m) /\ d.z_e > 1 - Bias)
  <2>1. d' = [d EXCEPT !.state = "normalise_2", !.age = Aged]
    BY <1>8 DEF Normalise1
  <2>2. d' \in RegType
    <3>1. "normalise_2" \in States
      BY DEF States, Working
    <3>2. QED
      BY <1>2, <1>5, <2>1, <3>1, AssignState, Zenon
  <2>3. /\ d'.state = "normalise_2" /\ d'.age = d.age + 1 /\ SameA /\ SameB
        /\ d'.z_s = d.z_s /\ d'.z_e = d.z_e /\ d'.z_m = d.z_m
        /\ d'.guard = d.guard /\ d'.round_bit = d.round_bit /\ d'.sticky = d.sticky
    BY <1>2, <1>5, <2>1 DEF RegType, SameA, SameB
  <2>4. OperandsKept' /\ Shifts' = Shifts
    BY <1>2, <2>3, OperandsStay DEF AfterB, Finishing
  <2>5. Net' = Net /\ Moves' = Moves
    BY <2>3 DEF Net, Moves, SameA, SameB
  <2>6. ResultKept'
    <3>1. (d.z_m >= P \/ d.z_e <= 1 - Bias) /\ ~(Net > 0) /\ Net >= -1
      BY <1>2, <1>3, <1>6, <1>8
    <3>2. QED
      BY <1>3, <2>3, <2>5, <3>1 DEF ResultKept, SameA, SameB
  <2>7. AgeIs'
    <3>1. d.age + 1 = 4 * F + 15 + Shifts + Moves
      BY <1>2, <1>3, <1>4
    <3>2. QED
      BY <2>3, <2>4, <2>5, <3>1 DEF AgeIs, Working
  <2>8. QED
    BY <2>2, <2>3, <2>4, <2>6, <2>7 DEF DivInv, TypeOK, DividesExactly,
       ResultIsQuotient, Dividing
<1>9. QED
  BY <1>7, <1>8

\* normalise_2: a subnormal result is shifted right, the lost bits made sticky.
LEMMA Normalise2Keeps ==
  ASSUME DivInv, Normalise2
  PROVE  DivInv'
<1>1. d.state = "normalise_2" /\ d.state \in Finishing
  BY DEF Normalise2, Finishing
<1>2. /\ d \in RegType /\ d.state \in AfterB
      /\ d.a_m \in P .. 2 * P - 1 /\ d.b_m \in P .. 2 * P - 1 /\ P \in Nat \ {0, 1}
      /\ 2 * P * d.a_m \in Nat /\ d.b_m \in Nat \ {0}
      /\ d.z_m \in 0 .. 2 * P - 1 /\ d.z_e \in Exponents /\ d.z_e \in Int
      /\ d.guard \in {0, 1} /\ d.round_bit \in {0, 1} /\ d.sticky \in {0, 1}
      /\ F \in Nat \ {0} /\ Bias \in Nat \ {0}
  BY <1>1, FinishingFacts
<1>3. /\ d.z_s = Xor(d.a_s, d.b_s) /\ Net \in Int /\ Net >= -1
      /\ Between(2 * P * d.a_m, d.b_m * Pow2[Net + 1], d.z_m, d.guard, d.round_bit, d.sticky)
      /\ Net = -1 => d.z_m >= P /\ d.z_e >= 1 - Bias
      /\ Net > 0 => d.z_e <= 1 - Bias
  BY <1>1, ResultFacts
<1>4. /\ d.z_m >= P \/ d.z_e <= 1 - Bias
      /\ d.age = 4 * F + 15 + Shifts + Moves
  BY <1>1 DEF DivInv, ResultKept, AgeIs, Finishing
<1>5. Shifts \in Nat /\ Moves \in Nat /\ Shifts + Moves <= 2 * F + Bias
  BY <1>1, FinishBound
<1>6. Aged = d.age + 1 /\ Aged \in 0 .. MaxLatency
  BY <1>2, <1>4, <1>5, AgedIs DEF MaxLatency
<1>7. CASE d.z_e < 1 - Bias
  <2> DEFINE nz == d.z_m \div 2
             ng == d.z_m % 2
             nt == Or(d.sticky, d.round_bit)
  <2>1. Net >= 0 /\ Moves = Net
    BY <1>2, <1>3, <1>7 DEF Moves
  <2>2. /\ nz \in Nat /\ ng \in {0, 1} /\ nt \in {0, 1}
        /\ Between(2 * P * d.a_m, d.b_m * Pow2[Net + 2], nz, ng, d.guard, nt)
    <3> DEFINE x1 == 2 * P * d.a_m
               b == d.b_m
               p1 == Pow2[Net + 1]
               D == b * p1
    <3>1. p1 \in Nat \ {0} /\ Pow2[Net + 2] = 2 * p1
      <4>1. Net + 1 \in Nat /\ Net + 1 + 1 = Net + 2
        BY <1>3
      <4>2. Pow2[Net + 1 + 1] = 2 * Pow2[Net + 1]
        BY <4>1, PowStep
      <4>3. QED
        BY <4>1, <4>2, PowNat
    <3>2. x1 \in Nat /\ b \in Nat \ {0} /\ d.z_m \in Nat
      BY <1>2
    <3>3. Between(x1, D, d.z_m, d.guard, d.round_bit, d.sticky)
      BY <1>3
    <3> HIDE DEF x1, b, p1
    <3>4. D \in Nat \ {0} /\ 2 * D = b * (2 * p1)
      BY <3>1, <3>2
    <3> HIDE DEF D
    <3>5. /\ nz \in Nat /\ ng \in {0, 1} /\ nt \in {0, 1}
          /\ Between(x1, 2 * D, nz, ng, d.guard, nt)
      <4>1. /\ d.guard \in {0, 1} /\ d.round_bit \in {0, 1} /\ d.sticky \in {0, 1}
            /\ x1 \in Nat /\ D \in Nat \ {0} /\ d.z_m \in Nat
        BY <1>2, <3>2, <3>4
      <4>2. QED
        BY <3>3, <4>1, ShiftRight DEF Bracket
    <3>6. QED
      BY <3>1, <3>4, <3>5 DEF x1, b
  <2>3. Signed(d.z_e + 1) = d.z_e + 1 /\ d.z_e + 1 \in Exponents
    <3>1. d.z_e + 1 \in Exponents
      BY <1>2, <1>7, DividerWidths DEF Exponents
    <3>2. QED
      BY <3>1, SignedIs
  <2>4. nz \in Mantissas /\ ng \in Bit /\ d.guard \in Bit /\ nt \in Bit
    <3>1. nz <= d.z_m
      BY <1>2
    <3> HIDE DEF nz, ng, nt
    <3>2. QED
      BY <1>2, <2>2, <3>1, DividerWidths DEF Mantissas, Bit
  <2>5. d' = [d EXCEPT !.z_e = d.z_e + 1, !.z_m = nz, !.guard = ng, !.round_bit = d.guard,
                       !.sticky = nt, !.age = Aged]
    BY <1>7, <2>3 DEF Normalise2
  <2> HIDE DEF nz, ng, nt
  <2>6. d' \in RegType
    BY <1>2, <1>6, <2>3, <2>4, <2>5, AssignState, AssignZ, AssignBits, Zenon
  <2>7. /\ d'.state = "normalise_2" /\ d'.age = d.age + 1 /\ SameA /\ SameB
        /\ d'.z_s = d.z_s /\ d'.z_e = d.z_e + 1 /\ d'.z_m = nz
        /\ d'.guard = ng /\ d'.round_bit = d.guard /\ d'.sticky = nt
    BY <1>1, <1>2, <1>6, <2>5 DEF RegType, SameA, SameB
  <2>8. OperandsKept' /\ Shifts' = Shifts
    BY <1>1, <1>2, <2>7, OperandsStay
  <2>9. Net' = Net + 1 /\ Moves' = Moves + 1
    <3>1. d.a_e \in Int /\ d.b_e \in Int
      BY <1>2, DividerWidths DEF RegType, Exponents
    <3>2. Net' = Net + 1
      BY <1>2, <2>7, <3>1 DEF Net, SameA, SameB
    <3>3. QED
      BY <1>3, <2>1, <3>2 DEF Moves
  <2>10. ResultKept'
    <3>1. /\ Net' + 1 = Net + 2 /\ Net' >= -1 /\ Net' # -1 /\ d.z_e + 1 <= 1 - Bias
      BY <1>2, <1>3, <1>7, <2>1, <2>9
    <3>2. QED
      BY <1>3, <2>2, <2>7, <3>1 DEF ResultKept, SameA, SameB
  <2>11. AgeIs'
    <3>1. d.age + 1 = 4 * F + 15 + Shifts + (Moves + 1)
      BY <1>2, <1>4, <1>5
    <3>2. QED
      BY <2>7, <2>8, <2>9, <3>1 DEF AgeIs, Working
  <2>12. QED
    BY <2>6, <2>7, <2>8, <2>10, <2>11 DEF DivInv, TypeOK, DividesExactly,
       ResultIsQuotient, Dividing
<1>8. CASE ~(d.z_e < 1 - Bias)
  <2>1. d' = [d EXCEPT !.state = "round", !.age = Aged]
    BY <1>8 DEF Normalise2
  <2>2. d' \in RegType
    <3>1. "round" \in States
      BY DEF States, Working
    <3>2. QED
      BY <1>2, <1>6, <2>1, <3>1, AssignState, Zenon
  <2>3. /\ d'.state = "round" /\ d'.age = d.age + 1 /\ SameA /\ SameB
        /\ d'.z_s = d.z_s /\ d'.z_e = d.z_e /\ d'.z_m = d.z_m
        /\ d'.guard = d.guard /\ d'.round_bit = d.round_bit /\ d'.sticky = d.sticky
    BY <1>2, <1>6, <2>1 DEF RegType, SameA, SameB
  <2>4. OperandsKept' /\ Shifts' = Shifts
    BY <1>2, <2>3, OperandsStay DEF AfterB, Finishing
  <2>5. Net' = Net /\ Moves' = Moves
    BY <2>3 DEF Net, Moves, SameA, SameB
  <2>6. ResultKept'
    <3>1. d.z_e >= 1 - Bias
      BY <1>2, <1>8
    <3>2. QED
      BY <1>3, <1>4, <2>3, <2>5, <3>1 DEF ResultKept, SameA, SameB
  <2>7. AgeIs'
    <3>1. d.age + 1 = 4 * F + 16 + Shifts + Moves
      BY <1>2, <1>4, <1>5
    <3>2. QED
      BY <2>3, <2>4, <2>5, <3>1 DEF AgeIs, Working
  <2>8. QED
    BY <2>2, <2>3, <2>4, <2>6, <2>7 DEF DivInv, TypeOK, DividesExactly,
       ResultIsQuotient, Dividing
<1>9. QED
  BY <1>7, <1>8

\* What pack makes of sign, exponent and mantissa.
PackOf(s, e, m) ==
  IF e > Bias
    THEN Infinity(s)
    ELSE [s |-> s, f |-> m % P,
          e |-> IF e = 1 - Bias /\ ~Msb(m) THEN 0 ELSE (e + Bias) % Pow2[EB]]

\* Mantissas am and bm with exponents ea and eb, those of num and den; E is the
\* exponent field of the quotient and k - 1 what its mantissa has been shifted.
Weighed(am, bm, num, den, ea, eb, k, E) ==
  /\ am \in Nat /\ bm \in Nat /\ num \in Nat /\ den \in Nat
  /\ ea \in Nat /\ eb \in Nat /\ k \in Nat /\ E \in Nat \ {0}
  /\ am * Pow2[ea] = num * P /\ bm * Pow2[eb] = den * P
  /\ F + E + eb = Bias + F - 1 + ea + k

\* Two ways to write the same weight.
LEMMA WeightsAgree ==
  ASSUME NEW am, NEW bm, NEW num, NEW den, NEW ea, NEW eb, NEW k, NEW E,
         Weighed(am, bm, num, den, ea, eb, k, E)
  PROVE  (2 * P * am) * (Pow2[E - 1] * den) = (One * num) * (bm * Pow2[k])
<1> SUFFICES ASSUME am \in Nat, bm \in Nat, num \in Nat, den \in Nat,
                    ea \in Nat, eb \in Nat, k \in Nat, E \in Nat \ {0},
                    am * Pow2[ea] = num * P, bm * Pow2[eb] = den * P,
                    F + E + eb = Bias + F - 1 + ea + k
             PROVE  (2 * P * am) * (Pow2[E - 1] * den) = (One * num) * (bm * Pow2[k])
  BY DEF Weighed
<1> DEFINE A == Pow2[ea]
           B == Pow2[eb]
           C == Pow2[E - 1]
           D == Pow2[k]
           L == (2 * P * am) * (C * den)
           R == (One * num) * (bm * D)
<1>1. /\ A \in Nat \ {0} /\ B \in Nat \ {0} /\ C \in Nat \ {0} /\ D \in Nat \ {0}
      /\ One \in Nat \ {0} /\ P \in Nat \ {0} /\ E - 1 \in Nat /\ F \in Nat
      /\ Bias + F - 1 \in Nat
  BY PowNat, FormatRange, DividerWidths, E - 1 \in Nat
<1>2. (2 * P) * C * B = One * A * D
  <2>1. Pow2[F + 1] = 2 * P /\ F + 1 \in Nat /\ F + 1 + (E - 1) \in Nat
        /\ Bias + F - 1 + ea \in Nat
        /\ F + 1 + (E - 1) + eb = Bias + F - 1 + ea + k
    BY <1>1, DividerWidths
  <2>2. Pow2[F + 1 + (E - 1) + eb] = Pow2[F + 1 + (E - 1)] * B
        /\ Pow2[F + 1 + (E - 1)] = Pow2[F + 1] * C
    BY <1>1, <2>1, PowSum
  <2>3. Pow2[Bias + F - 1 + ea + k] = Pow2[Bias + F - 1 + ea] * D
        /\ Pow2[Bias + F - 1 + ea] = One * A
    BY <1>1, <2>1, PowSum DEF One
  <2> HIDE DEF A, B, C, D
  <2>4. QED
    BY <2>1, <2>2, <2>3
<1> HIDE DEF A, B, C, D, P
<1>3. L * P = ((2 * P) * C * B) * (am * bm)
  <2>1. L * P = (2 * P * am) * (C * (den * P))
    BY <1>1
  <2>2. (2 * P * am) * (C * (bm * B)) = ((2 * P) * C * B) * (am * bm)
    BY <1>1
  <2>3. den * P = bm * B
    BY DEF B
  <2>4. QED
    BY <2>1, <2>2, <2>3
<1>4. R * P = (One * A * D) * (am * bm)
  <2>1. R * P = (One * (num * P)) * (bm * D)
    BY <1>1
  <2>2. (One * (am * A)) * (bm * D) = (One * A * D) * (am * bm)
    BY <1>1
  <2>3. num * P = am * A
    BY DEF A
  <2>4. QED
    BY <2>1, <2>2, <2>3
<1>5. L \in Int /\ R \in Int
  BY <1>1
<1> HIDE DEF L, R
<1>6. L = R
  BY <1>1, <1>2, <1>3, <1>4, <1>5, Cancel
<1>7. QED
  BY <1>6 DEF L, R, C, D

\* An exponent and a mantissa in range pack into their fields.
LEMMA PackFields ==
  ASSUME NEW s \in {0, 1}, NEW e \in Int, e >= 1 - Bias, NEW m \in Mantissas
  PROVE  /\ PackOf(s, e, m) \in Float
         /\ e > Bias => PackOf(s, e, m) = Infinity(s)
         /\ e <= Bias => /\ m < P /\ e = 1 - Bias =>
                              PackOf(s, e, m) = [s |-> s, e |-> 0, f |-> m]
                         /\ m >= P => PackOf(s, e, m) = [s |-> s, e |-> e + Bias, f |-> m - P]
                         /\ m = 0 /\ e # 1 - Bias =>
                              PackOf(s, e, m) = [s |-> s, e |-> e + Bias, f |-> 0]
<1>1. /\ Bias \in Nat \ {0} /\ P \in Nat \ {0, 1} /\ EMax = 2 * Bias + 1
      /\ Pow2[EB] = 2 * Bias + 2 /\ m \in 0 .. 2 * P - 1 /\ (Msb(m) <=> m >= P)
  BY MsbIs, DividerWidths
<1>2. e <= Bias => (e + Bias) % Pow2[EB] = e + Bias /\ e + Bias \in 0 .. EMax
  <2>1. e <= Bias => e + Bias \in 0 .. Pow2[EB] - 1
    BY <1>1
  <2>2. Pow2[EB] \in Nat \ {0}
    BY <1>1
  <2>3. QED
    BY <1>1, <2>1, <2>2, Small
<1>3. /\ m < P => m % P = m
      /\ m >= P => m % P = m - P
      /\ m % P \in 0 .. P - 1
  <2>1. P \in Nat \ {0} /\ (m < P => m \in 0 .. P - 1) /\ (m >= P => m \in P .. 2 * P - 1)
    BY <1>1
  <2>2. CASE m < P
    <3>1. m % P = m
      BY <2>1, <2>2, Small
    <3>2. QED
      BY <1>1, <2>1, <2>2, <3>1
  <2>3. CASE m >= P
    <3>1. m % P = m - P
      BY <2>1, <2>3, Once
    <3>2. QED
      BY <1>1, <2>1, <2>3, <3>1
  <2>4. QED
    BY <1>1, <2>2, <2>3
<1>4. 0 \in 0 .. EMax
  BY <1>1
<1>5. CASE e > Bias
  BY <1>1, <1>5, SpecialValues DEF PackOf
<1>6. CASE e <= Bias
  <2>1. PackOf(s, e, m) = [s |-> s, f |-> m % P,
                           e |-> IF e = 1 - Bias /\ m < P THEN 0 ELSE e + Bias]
    BY <1>1, <1>2, <1>6 DEF PackOf
  <2>2. PackOf(s, e, m) \in Float
    BY <1>2, <1>3, <1>4, <1>6, <2>1 DEF Float, P
  <2>3. QED
    BY <1>1, <1>3, <1>6, <2>1, <2>2
<1>7. QED
  BY <1>1, <1>5, <1>6

\* Exponent e and mantissa M before the rounding of num / den, f and m after it.
Rounding(num, den, e, M, g, r, t, f, m) ==
  /\ num \in Nat /\ den \in Nat \ {0} /\ e \in Int /\ e >= 1 - Bias
  /\ M \in 0 .. 2 * P - 1 /\ (M >= P \/ e = 1 - Bias)
  /\ g \in {0, 1} /\ r \in {0, 1} /\ t \in {0, 1}
  /\ Between(One * num, Pow2[e + Bias - 1] * den, M, g, r, t)
  /\ m = IF Upwards(M, g, r, t) THEN (M + 1) % (2 * P) ELSE M
  /\ f = IF Upwards(M, g, r, t) /\ M = 2 * P - 1 THEN e + 1 ELSE e

\* The rounded mantissa and its exponent, packed, are the nearest float.
LEMMA RoundAndPack ==
  ASSUME NEW s \in {0, 1}, NEW num, NEW den, NEW e, NEW M, NEW g, NEW r, NEW t, NEW f, NEW m,
         Rounding(num, den, e, M, g, r, t, f, m)
  PROVE  PackOf(s, f, m) = Round(s, num, den)
<1> SUFFICES ASSUME num \in Nat, den \in Nat \ {0}, e \in Int, e >= 1 - Bias,
                    M \in 0 .. 2 * P - 1, M >= P \/ e = 1 - Bias,
                    g \in {0, 1}, r \in {0, 1}, t \in {0, 1},
                    Between(One * num, Pow2[e + Bias - 1] * den, M, g, r, t),
                    m = IF Upwards(M, g, r, t) THEN (M + 1) % (2 * P) ELSE M,
                    f = IF Upwards(M, g, r, t) /\ M = 2 * P - 1 THEN e + 1 ELSE e
             PROVE  PackOf(s, f, m) = Round(s, num, den)
  BY DEF Rounding
<1> DEFINE E == e + Bias
           up == Upwards(M, g, r, t)
           N == IF up THEN M + 1 ELSE M
<1>1. /\ Bias \in Nat \ {0} /\ P \in Nat \ {0, 1} /\ EMax = 2 * Bias + 1 /\ Pow2[F] = P
      /\ Mantissas = 0 .. 2 * P - 1 /\ E \in Nat \ {0} /\ (E = 1 <=> e = 1 - Bias)
  BY DividerWidths DEF Mantissas
<1>2. m \in Mantissas /\ f \in Int /\ f >= e
  <2>1. CASE up /\ M = 2 * P - 1
    <3>1. M + 1 = (2 * P) * 1 + 0 /\ 0 \in 0 .. 2 * P - 1 /\ 2 * P \in Nat \ {0}
      BY <1>1, <2>1
    <3>2. (M + 1) % (2 * P) = 0
      BY <3>1, DivisionIs
    <3>3. QED
      BY <1>1, <2>1, <3>2
  <2>2. CASE up /\ M # 2 * P - 1
    <3>1. M + 1 \in 0 .. 2 * P - 1 /\ 2 * P \in Nat \ {0}
      BY <1>1, <2>2
    <3>2. (M + 1) % (2 * P) = M + 1
      BY <3>1, Small
    <3>3. QED
      BY <1>1, <2>2, <3>1, <3>2
  <2>3. CASE ~up
    BY <1>1, <2>3
  <2>4. QED
    BY <2>1, <2>2, <2>3
<1>3. CASE E >= EMax
  <2>1. M >= P /\ e > Bias
    BY <1>1, <1>3
  <2>2. M * (Pow2[E - 1] * den) <= One * num
    <3> DEFINE A == Pow2[E - 1] * den
               v == One * num
    <3>1. E - 1 \in Nat
      BY <1>1
    <3>2. A \in Nat \ {0} /\ v \in Nat
      <4>1. Pow2[E - 1] \in Nat \ {0} /\ One \in Nat
        BY <3>1, PowNat, FormatRange
      <4>2. QED
        BY <4>1
    <3>3. Between(v, A, M, g, r, t)
      <4>1. E - 1 = e + Bias - 1
        BY <1>1
      <4> HIDE DEF E
      <4>2. QED
        BY <4>1
    <3>4. M \in Nat
      BY <1>1
    <3> HIDE DEF A, v
    <3>5. Bracket(v, A, M, g, r, t)
      BY <3>2, <3>3, <3>4 DEF Bracket
    <3>6. M * A <= v
      BY <3>5, GuardBits
    <3>7. QED
      BY <3>6 DEF A, v
  <2>3. Round(s, num, den) = Infinity(s)
    <3>1. M \in Pow2[F] .. 2 * Pow2[F] - 1
      BY <1>1, <2>1
    <3>2. QED
      BY <1>1, <1>3, <2>2, <3>1, RoundsToInfinity
  <2>4. f > Bias /\ f >= 1 - Bias
    BY <1>1, <1>2, <2>1
  <2>5. PackOf(s, f, m) = Infinity(s)
    BY <1>2, <2>4, PackFields
  <2>6. QED
    BY <2>3, <2>5
<1>4. CASE E < EMax
  <2>1. /\ N = 2 * P => Round(s, num, den) = [s |-> s, e |-> E + 1, f |-> 0]
        /\ N \in P .. 2 * P - 1 => Round(s, num, den) = [s |-> s, e |-> E, f |-> N - P]
        /\ N < P => Round(s, num, den) = [s |-> s, e |-> 0, f |-> N]
    <3>1. /\ M \in 0 .. 2 * Pow2[F] - 1
          /\ M >= Pow2[F] \/ E = 1
          /\ N = IF Upwards(M, g, r, t) THEN M + 1 ELSE M
      BY <1>1
    <3>2. Between(One * num, Pow2[E - 1] * den, M, g, r, t)
      <4>1. E - 1 = e + Bias - 1
        BY <1>1
      <4> HIDE DEF E
      <4>2. QED
        BY <4>1
    <3> HIDE DEF E, N, up
    <3>3. Guarded(num, den, E, M, g, r, t, N)
      BY <1>1, <3>1, <3>2 DEF Guarded
    <3>4. QED
      BY <1>1, <1>4, <3>3, RoundsTo
  <2>2. e <= Bias
    BY <1>1, <1>4
  <2>3. CASE up /\ M = 2 * P - 1
    <3>1. m = 0 /\ f = e + 1 /\ N = 2 * P
      <4>1. M + 1 = (2 * P) * 1 + 0 /\ 0 \in 0 .. 2 * P - 1 /\ 2 * P \in Nat \ {0}
        BY <1>1, <2>3
      <4>2. (M + 1) % (2 * P) = 0
        BY <4>1, DivisionIs
      <4>3. QED
        BY <1>1, <2>3, <4>2
    <3>2. CASE f > Bias
      <4>1. PackOf(s, f, m) = Infinity(s)
        <5>1. f >= 1 - Bias
          BY <1>1, <1>2
        <5>2. QED
          BY <1>2, <3>2, <5>1, PackFields
      <4>2. E + 1 = EMax
        BY <1>1, <2>2, <3>1, <3>2
      <4>3. QED
        BY <2>1, <3>1, <4>1, <4>2 DEF Infinity
    <3>3. CASE f <= Bias
      <4>1. f >= 1 - Bias /\ f # 1 - Bias
        BY <1>1, <3>1
      <4>2. PackOf(s, f, m) = [s |-> s, e |-> f + Bias, f |-> 0]
        BY <1>2, <3>1, <3>3, <4>1, PackFields
      <4>3. f + Bias = E + 1
        BY <1>1, <3>1
      <4>4. QED
        BY <2>1, <3>1, <4>2, <4>3
    <3>4. QED
      BY <1>1, <1>2, <3>2, <3>3
  <2>4. CASE ~(up /\ M = 2 * P - 1)
    <3>1. m = N /\ f = e /\ N \in 0 .. 2 * P - 1
      <4>1. CASE up
        <5>1. M + 1 \in 0 .. 2 * P - 1 /\ 2 * P \in Nat \ {0}
          BY <1>1, <2>4, <4>1
        <5>2. (M + 1) % (2 * P) = M + 1
          BY <5>1, Small
        <5>3. QED
          BY <2>4, <4>1, <5>1, <5>2
      <4>2. CASE ~up
        BY <1>1, <4>2
      <4>3. QED
        BY <4>1, <4>2
    <3>2. CASE N >= P
      <4>1. PackOf(s, f, m) = [s |-> s, e |-> e + Bias, f |-> N - P]
        BY <1>1, <1>2, <2>2, <3>1, <3>2, PackFields
      <4>2. N \in P .. 2 * P - 1
        BY <1>1, <3>1, <3>2
      <4> HIDE DEF N
      <4>3. QED
        BY <2>1, <4>1, <4>2
    <3>3. CASE N < P
      <4>1. M < P /\ e = 1 - Bias
        BY <1>1, <3>3
      <4>2. PackOf(s, f, m) = [s |-> s, e |-> 0, f |-> N]
        BY <1>1, <1>2, <2>2, <3>1, <3>3, <4>1, PackFields
      <4> HIDE DEF N
      <4>3. QED
        BY <2>1, <3>3, <4>2
    <3>4. QED
      BY <1>1, <3>1, <3>2, <3>3
  <2>5. QED
    BY <2>3, <2>4
<1>5. QED
  BY <1>1, <1>3, <1>4

\* The quotient of two ordinary numbers is that of their magnitudes, rounded.
LEMMA QuotientIsRound ==
  ASSUME NEW v \in Float, NEW w \in Float, v.e # EMax, ~IsZero(v), w.e # EMax, ~IsZero(w)
  PROVE  Quotient(v, w) = Round(Xor(v.s, w.s), Magnitude(v), Magnitude(w))
BY DEF Quotient, Magnitude, IsNaN, IsInf

\* The division in whole numbers that guard bits are judged by, in the format's units.
LEMMA RoundedPart ==
  ASSUME DivInv, d.state = "round"
  PROVE  /\ Magnitude(d.a) \in Nat /\ Magnitude(d.b) \in Nat \ {0}
         /\ Between(One * Magnitude(d.a), Pow2[d.z_e + Bias - 1] * Magnitude(d.b),
                    d.z_m, d.guard, d.round_bit, d.sticky)
<1> DEFINE num == Magnitude(d.a)
           den == Magnitude(d.b)
           am == d.a_m
           bm == d.b_m
           ea == d.a_e + Bias - 1 + F
           eb == d.b_e + Bias - 1 + F
           k == Net + 1
           E == d.z_e + Bias
           x1 == 2 * P * am
           A1 == bm * Pow2[k]
           x2 == One * num
           A2 == Pow2[E - 1] * den
<1>1. d.state \in Finishing /\ d.state \in AfterB
  BY DEF Finishing, AfterB
<1>2. /\ am \in P .. 2 * P - 1 /\ bm \in P .. 2 * P - 1 /\ P \in Nat \ {0, 1}
      /\ x1 \in Nat /\ bm \in Nat \ {0} /\ d.z_m \in Nat /\ d.z_e \in Int
      /\ d.guard \in {0, 1} /\ d.round_bit \in {0, 1} /\ d.sticky \in {0, 1}
      /\ F \in Nat \ {0} /\ Bias \in Nat \ {0}
  BY <1>1, FinishingFacts
<1>3. /\ Scaled(d.a, am, d.a_e) /\ Scaled(d.b, bm, d.b_e)
      /\ d.a_e \in 1 - Bias - F .. Bias /\ d.b_e \in 1 - Bias - F .. Bias
      /\ d.a \in Float /\ d.b \in Float
  BY <1>1, OperandsFacts
<1>4. /\ Net >= -1 /\ d.z_e >= 1 - Bias
      /\ Between(x1, A1, d.z_m, d.guard, d.round_bit, d.sticky)
  BY <1>1 DEF DivInv, ResultKept
<1>5. num \in Nat /\ den \in Nat
  BY <1>3, MagnitudeNat
<1>6. /\ ea \in Nat /\ eb \in Nat /\ k \in Nat /\ E \in Nat \ {0} /\ E - 1 \in Nat
      /\ F + E + eb = Bias + F - 1 + ea + k
  BY <1>2, <1>3, <1>4 DEF Net
<1>7. am * Pow2[ea] = num * P /\ bm * Pow2[eb] = den * P
  BY <1>3 DEF Scaled
<1>8. den \in Nat \ {0}
  <2>1. bm * Pow2[eb] # 0
    <3>1. Pow2[eb] \in Nat \ {0}
      BY <1>6, PowNat
    <3> HIDE DEF bm, eb
    <3>2. QED
      BY <1>2, <3>1
  <2>2. den # 0
    <3> HIDE DEF den
    <3>1. QED
      BY <1>2, <1>7, <2>1
  <2>3. QED
    BY <1>5, <2>2
<1>9. x1 * A2 = x2 * A1
  <2>1. am \in Nat /\ bm \in Nat
    BY <1>2
  <2> HIDE DEF am, bm, num, den, ea, eb, k, E
  <2>2. QED
    <3>1. Weighed(am, bm, num, den, ea, eb, k, E)
      BY <1>5, <1>6, <1>7, <2>1 DEF Weighed
    <3>2. QED
      BY <3>1, WeightsAgree
<1>10. A1 \in Nat \ {0} /\ x2 \in Nat /\ A2 \in Nat \ {0}
  <2>1. Pow2[k] \in Nat \ {0} /\ Pow2[E - 1] \in Nat \ {0} /\ One \in Nat
    BY <1>6, PowNat, FormatRange
  <2> HIDE DEF bm, num, den, k, E
  <2>2. QED
    BY <1>2, <1>5, <1>8, <2>1
<1>11. Between(x2, A2, d.z_m, d.guard, d.round_bit, d.sticky)
  <2> HIDE DEF x1, x2, A1, A2
  <2>1. QED
    <3>1. Bracket(x1, A1, d.z_m, d.guard, d.round_bit, d.sticky)
      BY <1>2, <1>4, <1>10 DEF Bracket
    <3>2. SameRatio(x1, A1, x2, A2)
      BY <1>9, <1>10 DEF SameRatio
    <3>3. QED
      BY <3>1, <3>2, Rescale
<1>12. E - 1 = d.z_e + Bias - 1
  BY <1>2
<1>13. QED
  <2> HIDE DEF E
  <2>1. QED
    BY <1>5, <1>8, <1>11, <1>12

\* round: what is rounded is, packed, the float nearest to the quotient.
LEMMA RoundZKeeps ==
  ASSUME DivInv, RoundZ
  PROVE  DivInv'
<1> DEFINE up == Upwards(d.z_m, d.guard, d.round_bit, d.sticky)
           nm == IF up THEN (d.z_m + 1) % (2 * P) ELSE d.z_m
           ne == IF up /\ d.z_m = 2 * P - 1 THEN d.z_e + 1 ELSE d.z_e
<1>1. d.state = "round" /\ d.state \in Finishing
  BY DEF RoundZ, Finishing
<1>2. /\ d \in RegType /\ d.state \in AfterB
      /\ P \in Nat \ {0, 1} /\ d.z_m \in 0 .. 2 * P - 1 /\ d.z_e \in Exponents /\ d.z_e \in Int
      /\ d.guard \in {0, 1} /\ d.round_bit \in {0, 1} /\ d.sticky \in {0, 1}
      /\ F \in Nat \ {0} /\ Bias \in Nat \ {0}
  BY <1>1, FinishingFacts
<1>3. /\ d.z_s = Xor(d.a_s, d.b_s) /\ Net \in Int /\ Net >= -1
      /\ Net > 0 => d.z_e <= 1 - Bias
  BY <1>1, ResultFacts
<1>4. /\ d.z_m >= P \/ d.z_e <= 1 - Bias
      /\ d.z_e >= 1 - Bias
      /\ d.age = 4 * F + 16 + Shifts + Moves
  BY <1>1 DEF DivInv, ResultKept, AgeIs, Finishing
<1>5. Shifts \in Nat /\ Moves \in Nat /\ Shifts + Moves <= 2 * F + Bias
  BY <1>1, FinishBound
<1>6. Aged = d.age + 1 /\ Aged \in 0 .. MaxLatency
  BY <1>2, <1>4, <1>5, AgedIs DEF MaxLatency
<1>7. /\ Scaled(d.a, d.a_m, d.a_e) /\ d.a_s = d.a.s /\ Scaled(d.b, d.b_m, d.b_e)
      /\ d.b_s = d.b.s /\ d.a_s \in {0, 1} /\ d.b_s \in {0, 1} /\ d.a \in Float /\ d.b \in Float
      /\ d.a_e \in 1 - Bias - F .. Bias /\ d.b_e \in 1 - Bias - F .. Bias
  BY <1>2, OperandsFacts
<1>8. Signed(d.z_e + 1) = d.z_e + 1 /\ d.z_e + 1 \in Exponents
  <2>1. d.z_e <= 4 * Bias
    BY <1>2, <1>3, <1>7, DividerWidths DEF Net
  <2>2. d.z_e + 1 \in Exponents
    BY <1>2, <1>4, <2>1, DividerWidths DEF Exponents
  <2>3. QED
    BY <2>2, SignedIs
<1>9. nm \in Mantissas /\ ne \in Exponents
  <2>1. nm \in 0 .. 2 * P - 1
    BY <1>2
  <2>2. QED
    BY <1>2, <1>8, <2>1, DividerWidths DEF Mantissas
<1>10. d' = [d EXCEPT !.z_m = nm, !.z_e = ne, !.state = "pack", !.age = Aged]
  <2>1. RoundsUp <=> up
    BY <1>2 DEF RoundsUp, Upwards
  <2>2. Pow2[ManBits] = 2 * P
    BY DividerWidths
  <2> HIDE DEF up
  <2>3. QED
    BY <1>8, <2>1, <2>2 DEF RoundZ
<1>11. PackOf(d.z_s, ne, nm) = Quotient(d.a, d.b)
  <2>1. d.z_s = Xor(d.a.s, d.b.s) /\ d.z_s \in {0, 1}
    BY <1>3, <1>7, SpecialValues
  <2>2. /\ Magnitude(d.a) \in Nat /\ Magnitude(d.b) \in Nat \ {0}
        /\ Between(One * Magnitude(d.a), Pow2[d.z_e + Bias - 1] * Magnitude(d.b),
                   d.z_m, d.guard, d.round_bit, d.sticky)
    BY <1>1, RoundedPart
  <2>3. Quotient(d.a, d.b) = Round(d.z_s, Magnitude(d.a), Magnitude(d.b))
    BY <1>7, <2>1, QuotientIsRound DEF Scaled
  <2>4. d.z_m >= P \/ d.z_e = 1 - Bias
    BY <1>2, <1>4
  <2>5. PackOf(d.z_s, ne, nm) = Round(d.z_s, Magnitude(d.a), Magnitude(d.b))
    <3>1. Rounding(Magnitude(d.a), Magnitude(d.b), d.z_e, d.z_m, d.guard, d.round_bit,
                   d.sticky, ne, nm)
      BY <1>2, <1>4, <2>2, <2>4, Zenon DEF Rounding
    <3>2. QED
      BY <2>1, <3>1, RoundAndPack
  <2>6. QED
    BY <2>3, <2>5
<1> HIDE DEF up, nm, ne
<1>12. d' \in RegType
  <2>1. "pack" \in States
    BY DEF States, Working
  <2>2. QED
    BY <1>2, <1>6, <1>9, <1>10, <2>1, AssignState, AssignZ, Zenon
<1>13. /\ d'.state = "pack" /\ d'.age = d.age + 1 /\ SameA /\ SameB
       /\ d'.z_s = d.z_s /\ d'.z_e = ne /\ d'.z_m = nm
  BY <1>2, <1>6, <1>10 DEF RegType, SameA, SameB
<1>14. OperandsKept' /\ Shifts' = Shifts
  BY <1>2, <1>13, OperandsStay DEF AfterB
<1>15. ResultIsQuotient'
  <2>1. PackedZ' = PackOf(d'.z_s, d'.z_e, d'.z_m)
    BY DEF PackedZ, PackOf, P
  <2>2. QED
    BY <1>11, <1>13, <2>1 DEF ResultIsQuotient, SameA, SameB
<1>16. AgeIs'
  <2>1. d.age + 1 \in 4 * F + 17 .. 6 * F + 17 + Bias
    BY <1>2, <1>4, <1>5
  <2>2. QED
    BY <1>13, <2>1 DEF AgeIs, Working
<1>17. QED
  BY <1>12, <1>13, <1>14, <1>15, <1>16 DEF DivInv, TypeOK, DividesExactly, ResultKept,
     Dividing, Finishing

\* What pack stores is a float.
LEMMA PackedZFloat ==
  ASSUME DivInv, d.state = "pack"
  PROVE  PackedZ \in Float /\ PackedZ = Quotient(d.a, d.b)
<1>1. d \in RegType /\ PackedZ = Quotient(d.a, d.b)
  BY DEF DivInv, TypeOK, ResultIsQuotient
<1>2. d.z_s \in {0, 1} /\ d.z_m % P \in 0 .. P - 1 /\ (d.z_e + Bias) % Pow2[EB] \in 0 .. EMax
      /\ 0 \in 0 .. EMax
  <2>1. /\ d.z_m \in Nat /\ d.z_e + Bias \in Int /\ P \in Nat \ {0} /\ Pow2[EB] \in Nat \ {0}
        /\ Pow2[EB] - 1 = EMax /\ EMax \in Nat
    BY <1>1, DividerWidths, PowNat DEF RegType, Mantissas, Exponents
  <2>2. d.z_m % P \in 0 .. P - 1 /\ (d.z_e + Bias) % Pow2[EB] \in 0 .. Pow2[EB] - 1
    <3> DEFINE z == d.z_m
               e == d.z_e + Bias
               q == Pow2[EB]
    <3>1. z \in Int /\ e \in Int /\ P \in Nat \ {0} /\ q \in Nat \ {0}
      BY <2>1
    <3> HIDE DEF z, e, q
    <3>2. z % P \in 0 .. P - 1 /\ e % q \in 0 .. q - 1
      BY <3>1, Division
    <3>3. QED
      BY <3>2 DEF z, e, q
  <2>3. QED
    BY <1>1, <2>1, <2>2 DEF RegType, Bit
<1>3. PackedZ \in Float
  <2>1. Infinity(d.z_s) \in Float
    BY <1>2, SpecialValues
  <2>2. QED
    BY <1>2, <2>1 DEF PackedZ, Float, P
<1>4. QED
  BY <1>1, <1>3

\* pack: the result is the quotient, and the age is a latency of the divider.
LEMMA PackKeeps ==
  ASSUME DivInv, Pack
  PROVE  /\ DivInv' /\ d.age + 1 \in 4 * F + 18 .. MaxLatency
         /\ d'.z = Quotient(d.a, d.b)
<1>1. d.state = "pack" /\ d \in RegType /\ d.age \in 4 * F + 17 .. 6 * F + 17 + Bias
  BY DEF Pack, DivInv, TypeOK, AgeIs
<1>2. PackedZ \in Float /\ PackedZ = Quotient(d.a, d.b)
  BY <1>1, PackedZFloat
<1>3. d' = [d EXCEPT !.z = PackedZ, !.state = "put_z", !.age = 0]
  BY DEF Pack
<1>4. d' \in RegType
  <2>1. "put_z" \in States /\ 0 \in 0 .. MaxLatency
    BY DividerWidths DEF States, Working, MaxLatency
  <2>2. QED
    BY <1>1, <1>2, <1>3, <2>1, AssignState, AssignWords, Zenon
<1>5. d'.state = "put_z" /\ d'.z = PackedZ /\ d'.a = d.a /\ d'.b = d.b /\ d'.age = 0
  BY <1>1, <1>3 DEF RegType
<1>6. d.age + 1 \in 4 * F + 18 .. MaxLatency
  BY <1>1, DividerWidths DEF MaxLatency
<1>7. QED
  BY <1>2, <1>4, <1>5, <1>6 DEF DivInv, TypeOK, OperandsKept, DividesExactly, ResultKept,
     ResultIsQuotient, AgeIs, AfterSpecial, AfterA, AfterB, Dividing, Finishing, Working

--------------------------------------------------------------------------------
(* The divider under its clients.                                           *)

\* In the states of the handshake DivInv says little.
LEMMA IdleInv ==
  ASSUME d \in RegType, d.state \in {"get_a", "get_b", "unpack"}, d.age = 0
  PROVE  DivInv
BY DEF DivInv, TypeOK, OperandsKept, DividesExactly, ResultKept, ResultIsQuotient,
   AgeIs, AfterSpecial, AfterA, AfterB, Dividing, Finishing, Working

\* Nothing has to be known where no operation is under way.
LEMMA IdleInvNext ==
  ASSUME d' \in RegType, d'.state \in {"get_a", "get_b", "unpack"}, d'.age = 0
  PROVE  DivInv'
BY DEF DivInv, TypeOK, OperandsKept, DividesExactly, ResultKept, ResultIsQuotient,
   AgeIs, AfterSpecial, AfterA, AfterB, Dividing, Finishing, Working

\* Power-up.
LEMMA InitInv ==
  ASSUME Init
  PROVE  DivInv
<1>1. PICK p, q, r, o \in PowerUp :
        d = [state |-> "get_a", s_input_a_ack |-> FALSE, s_input_b_ack |-> FALSE,
             s_output_z_stb |-> FALSE, fdiv_valid_o |-> FALSE,
             a |-> p, b |-> q, z |-> r, s_output_z |-> o,
             a_m |-> 0, b_m |-> 0, z_m |-> 0, a_e |-> 0, b_e |-> 0, z_e |-> 0,
             a_s |-> 0, b_s |-> 0, z_s |-> 0, guard |-> 0, round_bit |-> 0, sticky |-> 0,
             quotient |-> 0, divisor |-> 0, dividend |-> 0, remainder |-> 0,
             count |-> 0, age |-> 0]
  BY DEF Init
<1>2. p \in Float /\ q \in Float /\ r \in Float /\ o \in Float
  BY DividerAssumption
<1>3. 0 \in Mantissas /\ 0 \in Exponents /\ 0 \in Bit /\ 0 \in DivideWords
      /\ 0 \in 0 .. Loops - 1 /\ 0 \in 0 .. MaxLatency
  <2>1. Pow2[DivBits] \in Nat \ {0}
    BY DividerWidths, PowNat
  <2>2. QED
    BY <2>1, DividerWidths DEF Mantissas, Exponents, Bit, DivideWords, MaxLatency
<1>4. d \in RegType
  BY <1>1, <1>2, <1>3 DEF RegType
<1>5. QED
  BY <1>1, <1>4, IdleInv

\* get_a: the first operand is taken or waited for.
LEMMA GetAKeeps ==
  ASSUME DivInv, NEW en, NEW v \in Float, GetA(en, v)
  PROVE  DivInv'
<1>1. d.state = "get_a" /\ d \in RegType /\ d.age = 0
  BY DEF GetA, DivInv, TypeOK, AgeIs, Working
<1>2. "get_b" \in States /\ TRUE \in BOOLEAN /\ FALSE \in BOOLEAN
  BY DEF States
<1>3. CASE d.s_input_a_ack /\ en
  <2>1. d' = [d EXCEPT !.fdiv_valid_o = FALSE, !.s_input_a_ack = FALSE, !.a = v,
                       !.state = "get_b"]
    BY <1>3 DEF GetA
  <2>2. d' \in RegType
    BY <1>1, <1>2, <2>1, AssignState, AssignHandshake, AssignWords, Zenon
  <2>3. d'.state = "get_b" /\ d'.age = 0
    BY <1>1, <2>1 DEF RegType
  <2>4. QED
    BY <2>2, <2>3, IdleInvNext
<1>4. CASE ~(d.s_input_a_ack /\ en)
  <2>1. d' = [d EXCEPT !.fdiv_valid_o = FALSE, !.s_input_a_ack = TRUE]
    BY <1>4 DEF GetA
  <2>2. d' \in RegType
    BY <1>1, <1>2, <2>1, AssignHandshake, Zenon
  <2>3. d'.state = "get_a" /\ d'.age = 0
    BY <1>1, <2>1 DEF RegType
  <2>4. QED
    BY <2>2, <2>3, IdleInvNext
<1>5. QED
  BY <1>3, <1>4

\* get_b: the second operand.
LEMMA GetBKeeps ==
  ASSUME DivInv, NEW v \in Float, GetB(v)
  PROVE  DivInv'
<1>1. d.state = "get_b" /\ d \in RegType /\ d.age = 0
  BY DEF GetB, DivInv, TypeOK, AgeIs, Working
<1>2. "unpack" \in States /\ TRUE \in BOOLEAN /\ FALSE \in BOOLEAN
  BY DEF States, Working
<1>3. CASE d.s_input_b_ack
  <2>1. d' = [d EXCEPT !.s_input_b_ack = FALSE, !.b = v, !.state = "unpack"]
    BY <1>3 DEF GetB
  <2>2. d' \in RegType
    BY <1>1, <1>2, <2>1, AssignState, AssignHandshake, AssignWords, Zenon
  <2>3. d'.state = "unpack" /\ d'.age = 0
    BY <1>1, <2>1 DEF RegType
  <2>4. QED
    BY <2>2, <2>3, IdleInvNext
<1>4. CASE ~d.s_input_b_ack
  <2>1. d' = [d EXCEPT !.s_input_b_ack = TRUE]
    BY <1>4 DEF GetB
  <2>2. d' \in RegType
    BY <1>1, <1>2, <2>1, AssignHandshake, Zenon
  <2>3. d'.state = "get_b" /\ d'.age = 0
    BY <1>1, <2>1 DEF RegType
  <2>4. QED
    BY <2>2, <2>3, IdleInvNext
<1>5. QED
  BY <1>3, <1>4

\* put_z: what is handed over is the quotient of the operands.
LEMMA PutZKeeps ==
  ASSUME DivInv, PutZ
  PROVE  DivInv' /\ d.z = Quotient(d.a, d.b)
<1>1. /\ d.state = "put_z" /\ d \in RegType /\ d.age = 0 /\ d.z = Quotient(d.a, d.b)
      /\ d.z \in Float
  BY DEF PutZ, DivInv, TypeOK, AgeIs, Working, ResultIsQuotient, RegType
<1>2. "get_a" \in States /\ TRUE \in BOOLEAN /\ FALSE \in BOOLEAN
  BY DEF States
<1>3. CASE d.s_output_z_stb
  <2>1. d' = [d EXCEPT !.s_output_z = d.z, !.s_output_z_stb = FALSE,
                       !.fdiv_valid_o = TRUE, !.state = "get_a"]
    BY <1>3 DEF PutZ
  <2>2. d' \in RegType
    BY <1>1, <1>2, <2>1, AssignState, AssignHandshake, AssignWords, Zenon
  <2>3. d'.state = "get_a" /\ d'.age = 0
    BY <1>1, <2>1 DEF RegType
  <2>4. QED
    BY <1>1, <2>2, <2>3, IdleInvNext
<1>4. CASE ~d.s_output_z_stb
  <2>1. d' = [d EXCEPT !.s_output_z = d.z, !.s_output_z_stb = TRUE]
    BY <1>4 DEF PutZ
  <2>2. d' \in RegType
    BY <1>1, <1>2, <2>1, AssignHandshake, AssignWords, Zenon
  <2>3. d'.state = "put_z" /\ d'.age = 0 /\ d'.z = d.z /\ d'.a = d.a /\ d'.b = d.b
    BY <1>1, <2>1 DEF RegType
  <2>4. QED
    BY <1>1, <2>2, <2>3 DEF DivInv, TypeOK, OperandsKept, DividesExactly, ResultKept,
       ResultIsQuotient, AgeIs, AfterSpecial, AfterA, AfterB, Dividing, Finishing, Working
<1>5. QED
  BY <1>3, <1>4

\* What a reset leaves in z.
LEMMA ResetZ ==
  ASSUME DivInv
  PROVE  LET nz == CASE d.state = "special_cases" /\ IsSpecial -> SpecialResult
                     [] d.state = "pack" -> PackedZ
                     [] OTHER -> d.z
         IN  /\ nz \in Float
             /\ \/ nz = d.z
                \/ d.state \in Working /\ nz = Quotient(d.a, d.b)
<1>1. d \in RegType /\ d.z \in Float
  BY DEF DivInv, TypeOK, RegType
<1>2. CASE d.state = "special_cases" /\ IsSpecial
  BY <1>1, <1>2, SpecialIsQuotient DEF DivInv, Working
<1>3. CASE d.state = "pack"
  BY <1>3, PackedZFloat DEF Working
<1>4. CASE ~(d.state = "special_cases" /\ IsSpecial) /\ d.state # "pack"
  BY <1>1, <1>4
<1>5. QED
  BY <1>2, <1>3, <1>4

\* Reset, with what the unconditional assignments of the same edge leave.
LEMMA ResetKeeps ==
  ASSUME DivInv, NEW p \in Float, NEW q \in Float, ResetWith(p, q)
  PROVE  DivInv'
<1> DEFINE nz == CASE d.state = "special_cases" /\ IsSpecial -> SpecialResult
                   [] d.state = "pack" -> PackedZ
                   [] OTHER -> d.z
           no == IF d.state = "put_z" THEN d.z ELSE d.s_output_z
<1>1. d \in RegType /\ d.z \in Float /\ d.s_output_z \in Float
  BY DEF DivInv, TypeOK, RegType
<1>2. nz \in Float
  BY ResetZ
<1>3. no \in Float
  BY <1>1
<1>4. d' = [d EXCEPT !.state = "get_a", !.s_input_a_ack = FALSE, !.s_input_b_ack = FALSE,
                     !.s_output_z_stb = FALSE, !.fdiv_valid_o = FALSE, !.age = 0,
                     !.a = p, !.b = q, !.z = nz, !.s_output_z = no]
  BY Zenon DEF ResetWith
<1> HIDE DEF nz, no
<1>5. d' \in RegType
  <2>1. "get_a" \in States /\ FALSE \in BOOLEAN /\ 0 \in 0 .. MaxLatency
    BY DividerWidths DEF States, MaxLatency
  <2> DEFINE r1 == [d EXCEPT !.state = "get_a", !.s_input_a_ack = FALSE,
                             !.s_input_b_ack = FALSE, !.s_output_z_stb = FALSE]
             r2 == [r1 EXCEPT !.fdiv_valid_o = FALSE, !.age = 0, !.a = p]
             r3 == [r2 EXCEPT !.b = q, !.z = nz, !.s_output_z = no]
  <2>2. r1 \in RegType
    BY <1>1, <2>1, AssignState, AssignHandshake, Zenon
  <2>3. d' = r3
    BY <1>4
  <2> HIDE DEF r1
  <2>4. r2 \in RegType
    BY <2>1, <2>2, AssignState, AssignHandshake, AssignWords, Zenon
  <2> HIDE DEF r2
  <2>5. r3 \in RegType
    BY <1>2, <1>3, <2>4, AssignWords, Zenon
  <2>6. QED
    BY <2>3, <2>5
<1>6. d'.state = "get_a" /\ d'.age = 0
  BY <1>1, <1>4 DEF RegType
<1>7. QED
  BY <1>5, <1>6, IdleInvNext

\* Every working state keeps the invariant.
LEMMA ComputeKeeps ==
  ASSUME DivInv, Compute
  PROVE  DivInv'
BY UnpackKeeps, SpecialKeeps, OrdinaryKeeps, NormaliseAKeeps, NormaliseBKeeps, Divide0Keeps,
   Divide1Keeps, Divide2Keeps, Divide3Keeps, Normalise1Keeps, Normalise2Keeps, RoundZKeeps,
   PackKeeps DEF Compute

\* The floats of the impatient client are floats.
LEMMA FewFloatsOK == FewFloats \subseteq Float
<1>1. Infinity(1) \in Float
  BY SpecialValues
<1>2. /\ 0 \in 0 .. EMax /\ Bias \in 0 .. EMax /\ 1 \in 0 .. Pow2[F] - 1
  BY DividerWidths
<1>3. QED
  BY <1>1, <1>2 DEF FewFloats, Float

\* What a patient client of the divider knows.
Served ==
  holds =>
    /\ x \in Float /\ y \in Float
    /\ d.state # "get_a" => d.a = x /\ ~d.fdiv_valid_o
    /\ d.state \notin {"get_a", "get_b"} => d.b = y
    /\ d.fdiv_valid_o => d.s_output_z = Quotient(x, y)

\* The divider and its client.
DividerInv == DivInv /\ Served

\* The client's start and its renewed beginning.
LEMMA DividerStarts ==
  ASSUME ClientInit \/ Quiet
  PROVE  DividerInv
<1>1. Init
  BY DEF ClientInit, Quiet
<1>2. DivInv
  BY <1>1, InitInv
<1>3. d.state = "get_a" /\ d.fdiv_valid_o = FALSE
  BY <1>1 DEF Init
<1>4. holds => x \in Float /\ y \in Float
  BY ClientAssumption DEF ClientInit, Quiet
<1>5. QED
  BY <1>2, <1>3, <1>4 DEF DividerInv, Served

\* What the working states leave alone.
ComputeKept ==
  /\ d'.a = d.a /\ d'.b = d.b /\ d'.s_output_z = d.s_output_z
  /\ d'.s_input_a_ack = d.s_input_a_ack /\ d'.s_input_b_ack = d.s_input_b_ack
  /\ d'.s_output_z_stb = d.s_output_z_stb /\ d'.fdiv_valid_o = d.fdiv_valid_o

\* A working state that does not end the work.
Inner == d'.state \in Working /\ d'.age = Aged /\ d'.z = d.z

\* A working step is an inner one, or it ends the work in put_z.
LEMMA ComputeSteps ==
  ASSUME d \in RegType, Compute
  PROVE  /\ d.state \in Working /\ ComputeKept
         /\ \/ Inner /\ d.state # "pack"
            \/ (Special \/ Pack) /\ d'.state = "put_z" /\ d'.age = 0
<1> USE DEF RegType, ComputeKept, Inner, Working
<1>1. CASE Unpack
  BY <1>1 DEF Unpack
<1>2. CASE Special
  BY <1>2 DEF Special
<1>3. CASE Ordinary
  BY <1>3 DEF Ordinary
<1>4. CASE NormaliseA
  <2> DEFINE m == ShiftIn(d.a_m, 0)
             e == Signed(d.a_e - 1)
  <2>1. /\ d.state = "normalise_a"
        /\ \/ d' = [d EXCEPT !.a_m = m, !.a_e = e, !.age = Aged]
           \/ d' = [d EXCEPT !.state = "normalise_b", !.age = Aged]
    BY <1>4, Zenon DEF NormaliseA
  <2> HIDE DEF m, e
  <2>2. ASSUME d' = [d EXCEPT !.state = "normalise_b", !.age = Aged]
        PROVE  ComputeKept /\ Inner
    BY <2>2
  <2>3. ASSUME d' = [d EXCEPT !.a_m = m, !.a_e = e, !.age = Aged]
        PROVE  ComputeKept /\ Inner
    BY <2>1, <2>3
  <2>4. d.state \in Working /\ d.state # "pack" /\ ComputeKept /\ Inner
    BY <2>1, <2>2, <2>3, Zenon
  <2>5. QED
    BY <2>4, Zenon
<1>5. CASE NormaliseB
  <2> DEFINE m == ShiftIn(d.b_m, 0)
             e == Signed(d.b_e - 1)
  <2>1. /\ d.state = "normalise_b"
        /\ \/ d' = [d EXCEPT !.b_m = m, !.b_e = e, !.age = Aged]
           \/ d' = [d EXCEPT !.state = "divide_0", !.age = Aged]
    BY <1>5, Zenon DEF NormaliseB
  <2> HIDE DEF m, e
  <2>2. ASSUME d' = [d EXCEPT !.state = "divide_0", !.age = Aged]
        PROVE  ComputeKept /\ Inner
    BY <2>2
  <2>3. ASSUME d' = [d EXCEPT !.b_m = m, !.b_e = e, !.age = Aged]
        PROVE  ComputeKept /\ Inner
    BY <2>1, <2>3
  <2>4. d.state \in Working /\ d.state # "pack" /\ ComputeKept /\ Inner
    BY <2>1, <2>2, <2>3, Zenon
  <2>5. QED
    BY <2>4, Zenon
<1>6. CASE Divide0
  BY <1>6 DEF Divide0
<1>7. CASE Divide1
  BY <1>7 DEF Divide1
<1>8. CASE Divide2
  BY <1>8 DEF Divide2
<1>9. CASE Divide3
  BY <1>9 DEF Divide3
<1>10. CASE Normalise1
  <2> DEFINE m == ShiftIn(d.z_m, d.guard)
             e == Signed(d.z_e - 1)
  <2>1. /\ d.state = "normalise_1"
        /\ \/ d' = [d EXCEPT !.z_e = e, !.z_m = m, !.guard = d.round_bit,
                             !.round_bit = 0, !.age = Aged]
           \/ d' = [d EXCEPT !.state = "normalise_2", !.age = Aged]
    BY <1>10, Zenon DEF Normalise1
  <2> HIDE DEF m, e
  <2>2. ASSUME d' = [d EXCEPT !.state = "normalise_2", !.age = Aged]
        PROVE  ComputeKept /\ Inner
    BY <2>2
  <2>3. ASSUME d' = [d EXCEPT !.z_e = e, !.z_m = m, !.guard = d.round_bit,
                              !.round_bit = 0, !.age = Aged]
        PROVE  ComputeKept /\ Inner
    BY <2>1, <2>3
  <2>4. d.state \in Working /\ d.state # "pack" /\ ComputeKept /\ Inner
    BY <2>1, <2>2, <2>3, Zenon
  <2>5. QED
    BY <2>4, Zenon
<1>11. CASE Normalise2
  <2> DEFINE e == Signed(d.z_e + 1)
             m == d.z_m \div 2
             g == d.z_m % 2
             t == Or(d.sticky, d.round_bit)
  <2>1. /\ d.state = "normalise_2"
        /\ \/ d' = [d EXCEPT !.z_e = e, !.z_m = m, !.guard = g, !.round_bit = d.guard,
                             !.sticky = t, !.age = Aged]
           \/ d' = [d EXCEPT !.state = "round", !.age = Aged]
    BY <1>11, Zenon DEF Normalise2
  <2> HIDE DEF e, m, g, t
  <2>2. ASSUME d' = [d EXCEPT !.state = "round", !.age = Aged]
        PROVE  ComputeKept /\ Inner
    BY <2>2
  <2>3. ASSUME d' = [d EXCEPT !.z_e = e, !.z_m = m, !.guard = g, !.round_bit = d.guard,
                              !.sticky = t, !.age = Aged]
        PROVE  ComputeKept /\ Inner
    BY <2>1, <2>3
  <2>4. d.state \in Working /\ d.state # "pack" /\ ComputeKept /\ Inner
    BY <2>1, <2>2, <2>3, Zenon
  <2>5. QED
    BY <2>4, Zenon
<1>12. CASE RoundZ
  BY <1>12 DEF RoundZ
<1>13. CASE Pack
  BY <1>13 DEF Pack
<1>14. QED
  BY <1>1, <1>2, <1>3, <1>4, <1>5, <1>6, <1>7, <1>8, <1>9, <1>10, <1>11, <1>12, <1>13
     DEF Compute

\* The steps of the divider under a client that holds its operands,
LEMMA HoldKeeps ==
  ASSUME DividerInv, Hold
  PROVE  DividerInv'
<1>1. /\ DivInv /\ d \in RegType /\ holds /\ holds' /\ x' = x /\ y' = y
      /\ x \in Float /\ y \in Float
      /\ d.state # "get_a" => d.a = x /\ ~d.fdiv_valid_o
      /\ d.state \notin {"get_a", "get_b"} => d.b = y
      /\ d.fdiv_valid_o => d.s_output_z = Quotient(x, y)
  BY DEF DividerInv, Served, Hold, DivInv, TypeOK
<1>2. CASE GetA(TRUE, x)
  <2>1. DivInv'
    BY <1>1, <1>2, GetAKeeps
  <2>2. \/ d' = [d EXCEPT !.fdiv_valid_o = FALSE, !.s_input_a_ack = FALSE, !.a = x,
                          !.state = "get_b"]
        \/ d' = [d EXCEPT !.fdiv_valid_o = FALSE, !.s_input_a_ack = TRUE]
           /\ d.state = "get_a"
    BY <1>2, Zenon DEF GetA
  <2>3. /\ d'.fdiv_valid_o = FALSE /\ d'.state \in {"get_a", "get_b"}
        /\ d'.state = "get_b" => d'.a = x
    BY <1>1, <2>2 DEF RegType
  <2>4. QED
    BY <1>1, <2>1, <2>3 DEF DividerInv, Served
<1>3. CASE GetB(y)
  <2>1. DivInv'
    BY <1>1, <1>3, GetBKeeps
  <2>2. /\ d'.fdiv_valid_o = d.fdiv_valid_o /\ d'.state \in {"unpack", "get_b"}
        /\ d'.a = d.a /\ (d'.state = "unpack" => d'.b = y) /\ d.state = "get_b"
    <3>1. /\ d.state = "get_b"
          /\ \/ d' = [d EXCEPT !.s_input_b_ack = FALSE, !.b = y, !.state = "unpack"]
             \/ d' = [d EXCEPT !.s_input_b_ack = TRUE]
      BY <1>3, Zenon DEF GetB
    <3>2. QED
      BY <1>1, <3>1 DEF RegType
  <2>3. QED
    BY <1>1, <2>1, <2>2 DEF DividerInv, Served
<1>4. CASE Compute
  <2>1. DivInv'
    BY <1>1, <1>4, ComputeKeeps
  <2>2. d.state \in Working /\ ComputeKept
    BY <1>1, <1>4, ComputeSteps
  <2>3. d.state \notin {"get_a", "get_b"}
    BY <2>2 DEF Working
  <2>4. QED
    BY <1>1, <2>1, <2>2, <2>3 DEF DividerInv, Served, ComputeKept
<1>5. CASE PutZ
  <2>1. DivInv' /\ d.z = Quotient(d.a, d.b)
    BY <1>1, <1>5, PutZKeeps
  <2>2. /\ d'.s_output_z = d.z /\ d'.state \in {"get_a", "put_z"} /\ d.state = "put_z"
        /\ d'.state = "put_z" => d'.fdiv_valid_o = d.fdiv_valid_o
        /\ d'.a = d.a /\ d'.b = d.b
    <3>1. /\ d.state = "put_z"
          /\ \/ d' = [d EXCEPT !.s_output_z = d.z, !.s_output_z_stb = FALSE,
                               !.fdiv_valid_o = TRUE, !.state = "get_a"]
             \/ d' = [d EXCEPT !.s_output_z = d.z, !.s_output_z_stb = TRUE]
      BY <1>5, Zenon DEF PutZ
    <3>2. ASSUME d' = [d EXCEPT !.s_output_z = d.z, !.s_output_z_stb = TRUE]
          PROVE  /\ d'.s_output_z = d.z /\ d'.state = d.state
                 /\ d'.fdiv_valid_o = d.fdiv_valid_o /\ d'.a = d.a /\ d'.b = d.b
      BY <1>1, <3>2 DEF RegType
    <3>3. ASSUME d' = [d EXCEPT !.s_output_z = d.z, !.s_output_z_stb = FALSE,
                                !.fdiv_valid_o = TRUE, !.state = "get_a"]
          PROVE  /\ d'.s_output_z = d.z /\ d'.state = "get_a" /\ d'.a = d.a /\ d'.b = d.b
      BY <1>1, <3>3 DEF RegType
    <3>4. QED
      BY <3>1, <3>2, <3>3
  <2>3. d.a = x /\ d.b = y /\ ~d.fdiv_valid_o
    BY <1>1, <2>2
  <2>4. QED
    BY <1>1, <2>1, <2>2, <2>3 DEF DividerInv, Served
<1>6. QED
  BY <1>2, <1>3, <1>4, <1>5 DEF Hold, Step

\* and under one that changes them, leaves, or resets.
LEMMA ChangeKeeps ==
  ASSUME DividerInv, Change
  PROVE  DividerInv'
<1>1. /\ DivInv /\ d \in RegType /\ ~holds /\ holds' = holds /\ x' = x /\ y' = y
      /\ d.a \in Float /\ d.b \in Float
  BY DEF DividerInv, Change, DivInv, TypeOK, RegType
<1>2. ASSUME NEW en \in BOOLEAN, NEW p \in FewFloats, Request(en, p)
      PROVE  DivInv'
  BY <1>1, <1>2, FewFloatsOK, GetAKeeps DEF Request
<1>3. ASSUME NEW q \in FewFloats, GetB(q)
      PROVE  DivInv'
  BY <1>1, <1>3, FewFloatsOK, GetBKeeps
<1>4. ASSUME Compute \/ PutZ
      PROVE  DivInv'
  BY <1>1, <1>4, ComputeKeeps, PutZKeeps
<1>5. ASSUME NEW p \in {TakenA(en, v) : en \in BOOLEAN, v \in FewFloats},
             NEW q \in {TakenB(v) : v \in FewFloats}, ResetWith(p, q)
      PROVE  DivInv'
  <2>1. p \in Float /\ q \in Float
    BY <1>1, FewFloatsOK DEF TakenA, TakenB
  <2>2. QED
    BY <1>1, <1>5, <2>1, ResetKeeps
<1>6. DivInv'
  BY <1>2, <1>3, <1>4, <1>5 DEF Change
<1>7. QED
  BY <1>1, <1>6 DEF DividerInv, Served

--------------------------------------------------------------------------------
(* The divider implements its unit.                                         *)

\* The registers as the unit of DividerUnit shows them.
Shown == [st |-> IF d.state \in Working THEN "work" ELSE d.state,
          ack_a |-> d.s_input_a_ack, ack_b |-> d.s_input_b_ack, stb |-> d.s_output_z_stb,
          valid |-> d.fdiv_valid_o, a |-> d.a, b |-> d.b, z |-> d.z,
          out |-> d.s_output_z, age |-> d.age]

\* The steps of the unit, said of what is shown.
LEMMA UnitSteps ==
  /\ \A en, v : Unit!GetA(en, v) <=>
       /\ Shown.st = "get_a"
       /\ IF Shown.ack_a /\ en
            THEN Shown' = [Shown EXCEPT !.valid = FALSE, !.ack_a = FALSE, !.a = v, !.st = "get_b"]
            ELSE Shown' = [Shown EXCEPT !.valid = FALSE, !.ack_a = TRUE]
  /\ \A v : Unit!GetB(v) <=>
       /\ Shown.st = "get_b"
       /\ IF Shown.ack_b
            THEN Shown' = [Shown EXCEPT !.ack_b = FALSE, !.b = v, !.st = "work"]
            ELSE Shown' = [Shown EXCEPT !.ack_b = TRUE]
  /\ Unit!Work <=> /\ Shown.st = "work"
                   /\ \E n \in Latencies : n > Shown.age + 1
                   /\ Shown' = [Shown EXCEPT !.age = @ + 1]
  /\ Unit!Finish <=>
       /\ Shown.st = "work" /\ Shown.age + 1 \in Latencies
       /\ Shown' = [Shown EXCEPT !.age = 0, !.z = Quotient(Shown.a, Shown.b), !.st = "put_z"]
  /\ Unit!PutZ <=>
       /\ Shown.st = "put_z"
       /\ IF Shown.stb
            THEN Shown' = [Shown EXCEPT !.out = Shown.z, !.stb = FALSE, !.valid = TRUE,
                                        !.st = "get_a"]
            ELSE Shown' = [Shown EXCEPT !.out = Shown.z, !.stb = TRUE]
<1>1. \A en, v : Unit!GetA(en, v) <=>
       /\ Shown.st = "get_a"
       /\ IF Shown.ack_a /\ en
            THEN Shown' = [Shown EXCEPT !.valid = FALSE, !.ack_a = FALSE, !.a = v, !.st = "get_b"]
            ELSE Shown' = [Shown EXCEPT !.valid = FALSE, !.ack_a = TRUE]
  BY Zenon DEF Shown, Unit!GetA
<1>2. \A v : Unit!GetB(v) <=>
       /\ Shown.st = "get_b"
       /\ IF Shown.ack_b
            THEN Shown' = [Shown EXCEPT !.ack_b = FALSE, !.b = v, !.st = "work"]
            ELSE Shown' = [Shown EXCEPT !.ack_b = TRUE]
  BY Zenon DEF Shown, Unit!GetB
<1>3. Unit!Work <=> /\ Shown.st = "work"
                   /\ \E n \in Latencies : n > Shown.age + 1
                   /\ Shown' = [Shown EXCEPT !.age = @ + 1]
  BY Zenon DEF Shown, Unit!Work
<1>4. Unit!Finish <=>
       /\ Shown.st = "work" /\ Shown.age + 1 \in Latencies
       /\ Shown' = [Shown EXCEPT !.age = 0, !.z = Quotient(Shown.a, Shown.b), !.st = "put_z"]
  BY Zenon DEF Shown, Unit!Finish
<1>5. Unit!PutZ <=>
       /\ Shown.st = "put_z"
       /\ IF Shown.stb
            THEN Shown' = [Shown EXCEPT !.out = Shown.z, !.stb = FALSE, !.valid = TRUE,
                                        !.st = "get_a"]
            ELSE Shown' = [Shown EXCEPT !.out = Shown.z, !.stb = TRUE]
  BY Zenon DEF Shown, Unit!PutZ
<1>6. QED
  BY <1>1, <1>2, <1>3, <1>4, <1>5, Zenon

\* Every step the unit may take.
LEMMA UnitNext ==
  /\ Unit!Work => Unit!Next
  /\ Unit!Finish => Unit!Next
  /\ Unit!PutZ => Unit!Next
  /\ \A en \in BOOLEAN, v \in Float : Unit!GetA(en, v) => Unit!Next
  /\ \A v \in Float : Unit!GetB(v) => Unit!Next
  /\ \A p \in Unit!TakeableA, q \in Unit!TakeableB : Unit!ResetWith(p, q) => Unit!Next
<1>1. /\ Unit!Work => Unit!Next
      /\ Unit!Finish => Unit!Next
      /\ Unit!PutZ => Unit!Next
      /\ \A p \in Unit!TakeableA, q \in Unit!TakeableB : Unit!ResetWith(p, q) => Unit!Next
  BY Zenon DEF Unit!Next
<1>2. \A en \in BOOLEAN, v \in Float : Unit!GetA(en, v) => Unit!Next
  BY Zenon DEF Unit!Next, Unit!GetA
<1>3. \A v \in Float : Unit!GetB(v) => Unit!Next
  BY Zenon DEF Unit!Next, Unit!GetB
<1>4. QED
  BY <1>1, <1>2, <1>3

\* What the unit's registers hold.
UnitRecords ==
  [st : {"get_a", "get_b", "work", "put_z"}, ack_a : BOOLEAN, ack_b : BOOLEAN, stb : BOOLEAN,
   valid : BOOLEAN, a : Float, b : Float, z : Float, out : Float, age : Nat]

\* Assignments of the unit: it takes its first operand,
LEMMA AssignTake ==
  ASSUME NEW r \in UnitRecords, NEW q \in UnitRecords,
         NEW v \in Float,
         q.valid = FALSE, q.ack_a = FALSE, q.a = v, q.st = "get_b", q.ack_b = r.ack_b,
         q.stb = r.stb, q.b = r.b, q.z = r.z, q.out = r.out, q.age = r.age
  PROVE  q = [r EXCEPT !.valid = FALSE, !.ack_a = FALSE, !.a = v, !.st = "get_b"]
BY DEF UnitRecords

\* it asks for it,
LEMMA AssignOffer ==
  ASSUME NEW r \in UnitRecords, NEW q \in UnitRecords,
         q.valid = FALSE, q.ack_a = TRUE, q.st = r.st, q.ack_b = r.ack_b, q.stb = r.stb,
         q.a = r.a, q.b = r.b, q.z = r.z, q.out = r.out, q.age = r.age
  PROVE  q = [r EXCEPT !.valid = FALSE, !.ack_a = TRUE]
BY DEF UnitRecords

\* it takes the second operand,
LEMMA AssignTakeB ==
  ASSUME NEW r \in UnitRecords, NEW q \in UnitRecords,
         NEW v \in Float,
         q.ack_b = FALSE, q.b = v, q.st = "work", q.ack_a = r.ack_a, q.stb = r.stb,
         q.valid = r.valid, q.a = r.a, q.z = r.z, q.out = r.out, q.age = r.age
  PROVE  q = [r EXCEPT !.ack_b = FALSE, !.b = v, !.st = "work"]
BY DEF UnitRecords

\* it asks for it,
LEMMA AssignOfferB ==
  ASSUME NEW r \in UnitRecords, NEW q \in UnitRecords,
         q.ack_b = TRUE, q.st = r.st, q.ack_a = r.ack_a, q.stb = r.stb, q.valid = r.valid,
         q.a = r.a, q.b = r.b, q.z = r.z, q.out = r.out, q.age = r.age
  PROVE  q = [r EXCEPT !.ack_b = TRUE]
BY DEF UnitRecords

\* it works,
LEMMA AssignAge ==
  ASSUME NEW r \in UnitRecords, NEW q \in UnitRecords,
         NEW n \in Nat,
         q.age = n, q.st = r.st, q.ack_a = r.ack_a, q.ack_b = r.ack_b, q.stb = r.stb,
         q.valid = r.valid, q.a = r.a, q.b = r.b, q.z = r.z, q.out = r.out
  PROVE  q = [r EXCEPT !.age = n]
BY DEF UnitRecords

\* it ends its work,
LEMMA AssignDone ==
  ASSUME NEW r \in UnitRecords, NEW q \in UnitRecords,
         NEW v \in Float,
         q.age = 0, q.z = v, q.st = "put_z", q.ack_a = r.ack_a, q.ack_b = r.ack_b, q.stb =
         r.stb, q.valid = r.valid, q.a = r.a, q.b = r.b, q.out = r.out
  PROVE  q = [r EXCEPT !.age = 0, !.z = v, !.st = "put_z"]
BY DEF UnitRecords

\* it shows its result,
LEMMA AssignShow ==
  ASSUME NEW r \in UnitRecords, NEW q \in UnitRecords,
         NEW v \in Float,
         q.out = v, q.stb = FALSE, q.valid = TRUE, q.st = "get_a", q.ack_a = r.ack_a,
         q.ack_b = r.ack_b, q.a = r.a, q.b = r.b, q.z = r.z, q.age = r.age
  PROVE  q = [r EXCEPT !.out = v, !.stb = FALSE, !.valid = TRUE, !.st = "get_a"]
BY DEF UnitRecords

\* it announces it,
LEMMA AssignStrobe ==
  ASSUME NEW r \in UnitRecords, NEW q \in UnitRecords,
         NEW v \in Float,
         q.out = v, q.stb = TRUE, q.st = r.st, q.ack_a = r.ack_a, q.ack_b = r.ack_b,
         q.valid = r.valid, q.a = r.a, q.b = r.b, q.z = r.z, q.age = r.age
  PROVE  q = [r EXCEPT !.out = v, !.stb = TRUE]
BY DEF UnitRecords

\* What a reset leaves in the unit.
IsReset(q, v, w, k, o) ==
  /\ q \in UnitRecords /\ v \in Float /\ w \in Float /\ k \in Float /\ o \in Float
  /\ q.st = "get_a" /\ q.ack_a = FALSE /\ q.ack_b = FALSE /\ q.stb = FALSE
  /\ q.valid = FALSE /\ q.age = 0 /\ q.a = v /\ q.b = w /\ q.z = k /\ q.out = o

\* and it is reset.
LEMMA AssignReset ==
  ASSUME NEW r \in UnitRecords, NEW q, NEW v, NEW w, NEW k, NEW o, IsReset(q, v, w, k, o)
  PROVE  q = [r EXCEPT !.st = "get_a", !.ack_a = FALSE, !.ack_b = FALSE, !.stb = FALSE,
                       !.valid = FALSE, !.age = 0, !.a = v, !.b = w, !.z = k, !.out = o]
BY DEF UnitRecords, IsReset

\* What is shown, field by field.
LEMMA ShownFields ==
  /\ d.state \in Working => Shown.st = "work"
  /\ d.state \notin Working => Shown.st = d.state
  /\ Shown.ack_a = d.s_input_a_ack /\ Shown.ack_b = d.s_input_b_ack
  /\ Shown.stb = d.s_output_z_stb /\ Shown.valid = d.fdiv_valid_o
  /\ Shown.a = d.a /\ Shown.b = d.b /\ Shown.z = d.z
  /\ Shown.out = d.s_output_z /\ Shown.age = d.age
BY Zenon DEF Shown

\* The unit's registers, before a step
LEMMA ShownType ==
  d \in RegType => Shown \in UnitRecords
<1> SUFFICES ASSUME d \in RegType PROVE Shown \in UnitRecords
  OBVIOUS
<1>1. /\ d.state \in Working \cup {"get_a", "get_b", "put_z"}
      /\ d.s_input_a_ack \in BOOLEAN /\ d.s_input_b_ack \in BOOLEAN
      /\ d.s_output_z_stb \in BOOLEAN /\ d.fdiv_valid_o \in BOOLEAN
      /\ d.a \in Float /\ d.b \in Float /\ d.z \in Float /\ d.s_output_z \in Float
      /\ d.age \in Nat
  BY DEF RegType
<1>2. QED
  BY <1>1 DEF Shown, UnitRecords

\* The same at the next step.
LEMMA ShownFieldsNext ==
  /\ d'.state \in Working => Shown'.st = "work"
  /\ d'.state \notin Working => Shown'.st = d'.state
  /\ Shown'.ack_a = d'.s_input_a_ack /\ Shown'.ack_b = d'.s_input_b_ack
  /\ Shown'.stb = d'.s_output_z_stb /\ Shown'.valid = d'.fdiv_valid_o
  /\ Shown'.a = d'.a /\ Shown'.b = d'.b /\ Shown'.z = d'.z
  /\ Shown'.out = d'.s_output_z /\ Shown'.age = d'.age
BY Zenon DEF Shown

\* and after it.
LEMMA ShownTypeNext ==
  d' \in RegType => Shown' \in UnitRecords
<1> SUFFICES ASSUME d' \in RegType PROVE Shown' \in UnitRecords
  OBVIOUS
<1>1. /\ d'.state \in Working \cup {"get_a", "get_b", "put_z"}
      /\ d'.s_input_a_ack \in BOOLEAN /\ d'.s_input_b_ack \in BOOLEAN
      /\ d'.s_output_z_stb \in BOOLEAN /\ d'.fdiv_valid_o \in BOOLEAN
      /\ d'.a \in Float /\ d'.b \in Float /\ d'.z \in Float /\ d'.s_output_z \in Float
      /\ d'.age \in Nat
  BY DEF RegType
<1>2. QED
  BY <1>1 DEF Shown, UnitRecords

\* Every step of the divider is a step or a stutter of the unit: get_a,
LEMMA ShowsGetA ==
  ASSUME DivInv, NEW en \in BOOLEAN, NEW v \in Float, GetA(en, v)
  PROVE  Unit!Next
<1>1. /\ d.state = "get_a" /\ d \in RegType /\ d.state \notin Working
      /\ Shown \in UnitRecords
  BY ShownType DEF GetA, DivInv, TypeOK, Working
<1>2. d' \in RegType /\ Shown' \in UnitRecords
  BY GetAKeeps, ShownTypeNext DEF DivInv, TypeOK
<1>3. CASE d.s_input_a_ack /\ en
  <2>1. d' = [d EXCEPT !.fdiv_valid_o = FALSE, !.s_input_a_ack = FALSE, !.a = v,
                       !.state = "get_b"]
    BY <1>3, Zenon DEF GetA
  <2>2. /\ d'.state = "get_b" /\ d'.s_input_a_ack = FALSE /\ d'.fdiv_valid_o = FALSE /\ d'.a = v
        /\ d'.s_input_b_ack = d.s_input_b_ack /\ d'.s_output_z_stb = d.s_output_z_stb
        /\ d'.b = d.b /\ d'.z = d.z /\ d'.s_output_z = d.s_output_z /\ d'.age = d.age
    BY <1>1, <2>1 DEF RegType
  <2>3. d'.state \notin Working
    BY <2>2 DEF Working
  <2>4. /\ Shown'.st = "get_b" /\ Shown'.ack_a = FALSE /\ Shown'.valid = FALSE /\ Shown'.a = v
        /\ Shown'.ack_b = Shown.ack_b /\ Shown'.stb = Shown.stb /\ Shown'.b = Shown.b
        /\ Shown'.z = Shown.z /\ Shown'.out = Shown.out /\ Shown'.age = Shown.age
    BY <1>1, <2>2, <2>3, ShownFields, ShownFieldsNext
  <2>5. Shown' = [Shown EXCEPT !.valid = FALSE, !.ack_a = FALSE, !.a = v, !.st = "get_b"]
    BY <1>1, <1>2, <2>4, AssignTake, Zenon
  <2>6. Shown.st = "get_a" /\ Shown.ack_a /\ en
    BY <1>1, <1>3, ShownFields
  <2>7. QED
    BY <2>5, <2>6, UnitSteps, UnitNext, Zenon
<1>4. CASE ~(d.s_input_a_ack /\ en)
  <2>1. d' = [d EXCEPT !.fdiv_valid_o = FALSE, !.s_input_a_ack = TRUE]
    BY <1>4, Zenon DEF GetA
  <2>2. /\ d'.state = "get_a" /\ d'.s_input_a_ack = TRUE /\ d'.fdiv_valid_o = FALSE /\ d'.a = d.a
        /\ d'.s_input_b_ack = d.s_input_b_ack /\ d'.s_output_z_stb = d.s_output_z_stb
        /\ d'.b = d.b /\ d'.z = d.z /\ d'.s_output_z = d.s_output_z /\ d'.age = d.age
    BY <1>1, <2>1 DEF RegType
  <2>3. d'.state \notin Working
    BY <2>2 DEF Working
  <2>4. /\ Shown'.ack_a = TRUE /\ Shown'.valid = FALSE /\ Shown'.st = Shown.st
        /\ Shown'.ack_b = Shown.ack_b /\ Shown'.stb = Shown.stb /\ Shown'.a = Shown.a
        /\ Shown'.b = Shown.b /\ Shown'.z = Shown.z /\ Shown'.out = Shown.out
        /\ Shown'.age = Shown.age
    BY <1>1, <2>2, <2>3, ShownFields, ShownFieldsNext
  <2>5. Shown' = [Shown EXCEPT !.valid = FALSE, !.ack_a = TRUE]
    BY <1>1, <1>2, <2>4, AssignOffer, Zenon
  <2>6. Shown.st = "get_a" /\ ~(Shown.ack_a /\ en)
    BY <1>1, <1>4, ShownFields
  <2>7. QED
    BY <2>5, <2>6, UnitSteps, UnitNext, Zenon
<1>5. QED
  BY <1>3, <1>4

\* get_b,
LEMMA ShowsGetB ==
  ASSUME DivInv, NEW v \in Float, GetB(v)
  PROVE  Unit!Next
<1>1. /\ d.state = "get_b" /\ d \in RegType /\ d.state \notin Working
      /\ Shown \in UnitRecords
  BY ShownType DEF GetB, DivInv, TypeOK, Working
<1>2. d' \in RegType /\ Shown' \in UnitRecords
  BY GetBKeeps, ShownTypeNext DEF DivInv, TypeOK
<1>3. CASE d.s_input_b_ack
  <2>1. d' = [d EXCEPT !.s_input_b_ack = FALSE, !.b = v, !.state = "unpack"]
    BY <1>3, Zenon DEF GetB
  <2>2. /\ d'.state = "unpack" /\ d'.s_input_b_ack = FALSE /\ d'.b = v
        /\ d'.s_input_a_ack = d.s_input_a_ack /\ d'.s_output_z_stb = d.s_output_z_stb
        /\ d'.fdiv_valid_o = d.fdiv_valid_o
        /\ d'.a = d.a /\ d'.z = d.z /\ d'.s_output_z = d.s_output_z /\ d'.age = d.age
    BY <1>1, <2>1 DEF RegType
  <2>3. d'.state \in Working
    BY <2>2 DEF Working
  <2>4. /\ Shown'.st = "work" /\ Shown'.ack_b = FALSE /\ Shown'.b = v
        /\ Shown'.ack_a = Shown.ack_a /\ Shown'.stb = Shown.stb /\ Shown'.valid = Shown.valid
        /\ Shown'.a = Shown.a /\ Shown'.z = Shown.z /\ Shown'.out = Shown.out
        /\ Shown'.age = Shown.age
    BY <1>1, <2>2, <2>3, ShownFields, ShownFieldsNext
  <2>5. Shown' = [Shown EXCEPT !.ack_b = FALSE, !.b = v, !.st = "work"]
    BY <1>1, <1>2, <2>4, AssignTakeB, Zenon
  <2>6. Shown.st = "get_b" /\ Shown.ack_b
    BY <1>1, <1>3, ShownFields
  <2>7. QED
    BY <2>5, <2>6, UnitSteps, UnitNext, Zenon
<1>4. CASE ~d.s_input_b_ack
  <2>1. d' = [d EXCEPT !.s_input_b_ack = TRUE]
    BY <1>4, Zenon DEF GetB
  <2>2. /\ d'.state = "get_b" /\ d'.s_input_b_ack = TRUE /\ d'.b = d.b
        /\ d'.s_input_a_ack = d.s_input_a_ack /\ d'.s_output_z_stb = d.s_output_z_stb
        /\ d'.fdiv_valid_o = d.fdiv_valid_o
        /\ d'.a = d.a /\ d'.z = d.z /\ d'.s_output_z = d.s_output_z /\ d'.age = d.age
    BY <1>1, <2>1 DEF RegType
  <2>3. d'.state \notin Working
    BY <2>2 DEF Working
  <2>4. /\ Shown'.ack_b = TRUE /\ Shown'.st = Shown.st /\ Shown'.ack_a = Shown.ack_a
        /\ Shown'.stb = Shown.stb /\ Shown'.valid = Shown.valid /\ Shown'.a = Shown.a
        /\ Shown'.b = Shown.b /\ Shown'.z = Shown.z /\ Shown'.out = Shown.out
        /\ Shown'.age = Shown.age
    BY <1>1, <2>2, <2>3, ShownFields, ShownFieldsNext
  <2>5. Shown' = [Shown EXCEPT !.ack_b = TRUE]
    BY <1>1, <1>2, <2>4, AssignOfferB, Zenon
  <2>6. Shown.st = "get_b" /\ ~Shown.ack_b
    BY <1>1, <1>4, ShownFields
  <2>7. QED
    BY <2>5, <2>6, UnitSteps, UnitNext, Zenon
<1>5. QED
  BY <1>3, <1>4

\* put_z, where the quotient appears in one step,
LEMMA ShowsPutZ ==
  ASSUME DivInv, PutZ
  PROVE  Unit!Next
<1>1. /\ d.state = "put_z" /\ d \in RegType /\ d.state \notin Working
      /\ Shown \in UnitRecords /\ Shown.z = d.z /\ d.z \in Float
  BY ShownType, ShownFields DEF PutZ, DivInv, TypeOK, Working, RegType
<1>2. d' \in RegType /\ Shown' \in UnitRecords
  BY PutZKeeps, ShownTypeNext DEF DivInv, TypeOK
<1>3. CASE d.s_output_z_stb
  <2>1. d' = [d EXCEPT !.s_output_z = d.z, !.s_output_z_stb = FALSE,
                       !.fdiv_valid_o = TRUE, !.state = "get_a"]
    BY <1>3, Zenon DEF PutZ
  <2>2. /\ d'.state = "get_a" /\ d'.s_output_z = d.z /\ d'.s_output_z_stb = FALSE
        /\ d'.fdiv_valid_o = TRUE
        /\ d'.s_input_a_ack = d.s_input_a_ack /\ d'.s_input_b_ack = d.s_input_b_ack
        /\ d'.a = d.a /\ d'.b = d.b /\ d'.z = d.z /\ d'.age = d.age
    BY <1>1, <2>1 DEF RegType
  <2>3. d'.state \notin Working
    BY <2>2 DEF Working
  <2>4. /\ Shown'.st = "get_a" /\ Shown'.stb = FALSE /\ Shown'.valid = TRUE
        /\ Shown'.out = Shown.z /\ Shown'.ack_a = Shown.ack_a /\ Shown'.ack_b = Shown.ack_b
        /\ Shown'.a = Shown.a /\ Shown'.b = Shown.b /\ Shown'.z = Shown.z
        /\ Shown'.age = Shown.age
    BY <1>1, <2>2, <2>3, ShownFields, ShownFieldsNext
  <2>5. Shown' = [Shown EXCEPT !.out = Shown.z, !.stb = FALSE, !.valid = TRUE, !.st = "get_a"]
    BY <1>1, <1>2, <2>4, AssignShow, Zenon
  <2>6. Shown.st = "put_z" /\ Shown.stb
    BY <1>1, <1>3, ShownFields
  <2>7. QED
    BY <2>5, <2>6, UnitSteps, UnitNext, Zenon
<1>4. CASE ~d.s_output_z_stb
  <2>1. d' = [d EXCEPT !.s_output_z = d.z, !.s_output_z_stb = TRUE]
    BY <1>4, Zenon DEF PutZ
  <2>2. /\ d'.state = "put_z" /\ d'.s_output_z = d.z /\ d'.s_output_z_stb = TRUE
        /\ d'.fdiv_valid_o = d.fdiv_valid_o
        /\ d'.s_input_a_ack = d.s_input_a_ack /\ d'.s_input_b_ack = d.s_input_b_ack
        /\ d'.a = d.a /\ d'.b = d.b /\ d'.z = d.z /\ d'.age = d.age
    BY <1>1, <2>1 DEF RegType
  <2>3. d'.state \notin Working
    BY <2>2 DEF Working
  <2>4. /\ Shown'.stb = TRUE /\ Shown'.out = Shown.z /\ Shown'.st = Shown.st
        /\ Shown'.ack_a = Shown.ack_a /\ Shown'.ack_b = Shown.ack_b
        /\ Shown'.valid = Shown.valid /\ Shown'.a = Shown.a /\ Shown'.b = Shown.b
        /\ Shown'.z = Shown.z /\ Shown'.age = Shown.age
    BY <1>1, <2>2, <2>3, ShownFields, ShownFieldsNext
  <2>5. Shown' = [Shown EXCEPT !.out = Shown.z, !.stb = TRUE]
    BY <1>1, <1>2, <2>4, AssignStrobe, Zenon
  <2>6. Shown.st = "put_z" /\ ~Shown.stb
    BY <1>1, <1>4, ShownFields
  <2>7. QED
    BY <2>5, <2>6, UnitSteps, UnitNext, Zenon
<1>5. QED
  BY <1>3, <1>4

\* While it works the unit is not yet as old as it can be.
LEMMA AgeBound ==
  ASSUME DivInv, d.state \in Working, d.state # "pack"
  PROVE  d.age \in Nat /\ d.age + 1 < MaxLatency /\ Aged = d.age + 1
<1>1. F \in Nat \ {0} /\ Bias \in Nat \ {0} /\ MaxLatency = 6 * F + 18 + Bias /\ d \in RegType
  BY DividerWidths DEF MaxLatency, DivInv, TypeOK
<1>2. d.age \in Nat
  BY <1>1 DEF RegType
<1>3. d.age + 1 < MaxLatency
  <2>1. CASE d.state \in {"unpack", "special_cases"}
    BY <1>1, <2>1 DEF DivInv, AgeIs
  <2>2. CASE d.state \in AfterSpecial \ (Dividing \cup Finishing)
    <3>1. Shifts \in 0 .. 2 * F
      BY <2>2, ShiftsBound
    <3>2. d.age \in {2 + Shifts, 3 + Shifts, 4 + Shifts} \/ d.state = "pack"
      BY <2>2 DEF DivInv, AgeIs, AfterSpecial, AfterA, AfterB
    <3>3. QED
      BY <1>1, <3>1, <3>2
  <2>3. CASE d.state \in Dividing
    <3>1. Shifts \in 0 .. 2 * F /\ d.count \in 0 .. 2 * F + 3
      BY <2>3, DividingFacts, DividerWidths
    <3>2. d.age \in {5 + Shifts + 2 * d.count, 6 + Shifts + 2 * d.count, 4 * F + 13 + Shifts}
      BY <2>3 DEF DivInv, AgeIs, Dividing
    <3>3. QED
      BY <1>1, <3>1, <3>2
  <2>4. CASE d.state \in Finishing
    <3>1. Shifts \in Nat /\ Moves \in Nat /\ Shifts + Moves <= 2 * F + Bias
      BY <2>4, FinishBound
    <3>2. d.age \in {4 * F + 14 + Shifts + Moves, 4 * F + 15 + Shifts + Moves,
                     4 * F + 16 + Shifts + Moves}
      BY <2>4 DEF DivInv, AgeIs, Finishing
    <3>3. QED
      BY <1>1, <3>1, <3>2
  <2>5. QED
    BY <2>1, <2>2, <2>3, <2>4 DEF Working, AfterSpecial, AfterA, AfterB, Dividing, Finishing
<1>4. QED
  BY <1>1, <1>2, <1>3 DEF Aged

\* the working states, which the unit counts and otherwise leaves open,
LEMMA ShowsCompute ==
  ASSUME DivInv, Compute
  PROVE  Unit!Next
<1>1. /\ d \in RegType /\ Shown \in UnitRecords /\ d.a \in Float /\ d.b \in Float
  BY ShownType DEF DivInv, TypeOK, RegType
<1>2. DivInv' /\ d' \in RegType /\ Shown' \in UnitRecords /\ d'.z \in Float
  BY ComputeKeeps, ShownTypeNext DEF DivInv, TypeOK, RegType
<1>3. /\ d.state \in Working /\ ComputeKept
      /\ \/ Inner /\ d.state # "pack"
         \/ (Special \/ Pack) /\ d'.state = "put_z" /\ d'.age = 0
  BY <1>1, ComputeSteps
<1>4. CASE Inner /\ d.state # "pack"
  <2>1. d.age \in Nat /\ d.age + 1 < MaxLatency /\ Aged = d.age + 1
    BY <1>3, <1>4, AgeBound
  <2>2. /\ Shown'.age = d.age + 1 /\ Shown.age = d.age /\ Shown'.z = Shown.z
        /\ Shown.st = "work" /\ Shown'.st = Shown.st
        /\ Shown'.ack_a = Shown.ack_a /\ Shown'.ack_b = Shown.ack_b
        /\ Shown'.stb = Shown.stb /\ Shown'.valid = Shown.valid /\ Shown'.a = Shown.a
        /\ Shown'.b = Shown.b /\ Shown'.out = Shown.out
    BY <1>3, <1>4, <2>1, ShownFields, ShownFieldsNext DEF ComputeKept, Inner
  <2>3. d.age + 1 \in Nat
    BY <2>1
  <2>4. Shown' = [Shown EXCEPT !.age = d.age + 1]
    <3> DEFINE n == d.age + 1
    <3>1. n \in Nat /\ Shown'.age = n
      BY <2>2, <2>3
    <3> HIDE DEF n
    <3>2. Shown' = [Shown EXCEPT !.age = n]
      BY <1>1, <1>2, <2>2, <3>1, AssignAge, Zenon
    <3>3. QED
      BY <3>2 DEF n
  <2>5. Shown' = [Shown EXCEPT !.age = Shown.age + 1]
    BY <2>2, <2>4, Zenon
  <2>6. MaxLatency \in Latencies
    BY DividerWidths DEF Latencies, MaxLatency
  <2>7. \E n \in Latencies : n > Shown.age + 1
    BY <2>1, <2>2, <2>6, MaxLatency > d.age + 1
  <2>8. Unit!Work
    BY <2>2, <2>5, <2>7, UnitSteps, Zenon
  <2>9. QED
    BY <2>8, UnitNext, Zenon
<1>5. CASE (Special \/ Pack) /\ d'.state = "put_z" /\ d'.age = 0
  <2>1. d.age + 1 \in Latencies /\ d'.z = Quotient(d.a, d.b)
    <3>1. ASSUME Special PROVE d.age + 1 \in Latencies /\ d'.z = Quotient(d.a, d.b)
      BY <3>1, SpecialKeeps DEF Latencies
    <3>2. ASSUME Pack PROVE d.age + 1 \in Latencies /\ d'.z = Quotient(d.a, d.b)
      BY <3>2, PackKeeps DEF Latencies
    <3>3. QED
      BY <1>5, <3>1, <3>2
  <2>2. d'.state \notin Working
    BY <1>5 DEF Working
  <2>3. /\ Shown'.age = 0 /\ Shown'.z = d'.z
        /\ Shown.st = "work" /\ Shown'.st = "put_z"
        /\ Shown'.ack_a = Shown.ack_a /\ Shown'.ack_b = Shown.ack_b
        /\ Shown'.stb = Shown.stb /\ Shown'.valid = Shown.valid /\ Shown'.a = Shown.a
        /\ Shown'.b = Shown.b /\ Shown'.out = Shown.out
    BY <1>3, <1>5, <2>2, ShownFields, ShownFieldsNext DEF ComputeKept
  <2>4. Shown' = [Shown EXCEPT !.age = 0, !.z = d'.z, !.st = "put_z"]
    BY <1>1, <1>2, <2>3, AssignDone, Zenon
  <2>5. Shown.a = d.a /\ Shown.b = d.b /\ Shown.age = d.age
    BY ShownFields
  <2>6. Shown' = [Shown EXCEPT !.age = 0, !.z = Quotient(Shown.a, Shown.b), !.st = "put_z"]
    BY <2>1, <2>4, <2>5, Zenon
  <2>7. Unit!Finish
    BY <2>1, <2>3, <2>5, <2>6, UnitSteps, Zenon
  <2>8. QED
    BY <2>7, UnitNext, Zenon
<1>6. QED
  BY <1>3, <1>4, <1>5

\* A reset of the unit, said of what is shown.
LEMMA UnitReset ==
  /\ \A p, q : Unit!ResetWith(p, q) <=>
       \E r \in IF Shown.st = "work" THEN {Shown.z, Quotient(Shown.a, Shown.b)} ELSE {Shown.z} :
         Shown' = [Shown EXCEPT !.st = "get_a", !.ack_a = FALSE, !.ack_b = FALSE,
                                !.stb = FALSE, !.valid = FALSE, !.age = 0,
                                !.a = p, !.b = q, !.z = r,
                                !.out = IF Shown.st = "put_z" THEN Shown.z ELSE @]
  /\ Unit!TakeableA = {Shown.a} \cup (IF Shown.st = "get_a" /\ Shown.ack_a THEN Float ELSE {})
  /\ Unit!TakeableB = {Shown.b} \cup (IF Shown.st = "get_b" /\ Shown.ack_b THEN Float ELSE {})
<1>1. \A p, q : Unit!ResetWith(p, q) <=>
       \E r \in IF Shown.st = "work" THEN {Shown.z, Quotient(Shown.a, Shown.b)} ELSE {Shown.z} :
         Shown' = [Shown EXCEPT !.st = "get_a", !.ack_a = FALSE, !.ack_b = FALSE,
                                !.stb = FALSE, !.valid = FALSE, !.age = 0,
                                !.a = p, !.b = q, !.z = r,
                                !.out = IF Shown.st = "put_z" THEN Shown.z ELSE @]
  BY Zenon DEF Shown, Unit!ResetWith
<1>2. Unit!TakeableA = {Shown.a} \cup (IF Shown.st = "get_a" /\ Shown.ack_a THEN Float ELSE {})
  BY Zenon DEF Shown, Unit!TakeableA
<1>3. Unit!TakeableB = {Shown.b} \cup (IF Shown.st = "get_b" /\ Shown.ack_b THEN Float ELSE {})
  BY Zenon DEF Shown, Unit!TakeableB
<1>4. QED
  BY <1>1, <1>2, <1>3, Zenon

\* reset,
LEMMA ShowsReset ==
  ASSUME DivInv, NEW en \in BOOLEAN, NEW v \in Float, NEW w \in Float,
         ResetWith(TakenA(en, v), TakenB(w))
  PROVE  Unit!Next
<1> DEFINE p == TakenA(en, v)
           q == TakenB(w)
           nz == CASE d.state = "special_cases" /\ IsSpecial -> SpecialResult
                   [] d.state = "pack" -> PackedZ
                   [] OTHER -> d.z
           no == IF d.state = "put_z" THEN d.z ELSE d.s_output_z
<1>1. /\ d \in RegType /\ Shown \in UnitRecords /\ d.a \in Float /\ d.b \in Float
      /\ d.z \in Float /\ d.s_output_z \in Float
  BY ShownType DEF DivInv, TypeOK, RegType
<1>2. /\ p \in Float /\ q \in Float
      /\ p = d.a \/ (d.state = "get_a" /\ d.s_input_a_ack)
      /\ q = d.b \/ (d.state = "get_b" /\ d.s_input_b_ack)
  BY <1>1 DEF TakenA, TakenB
<1>3. nz \in Float /\ (nz = d.z \/ (d.state \in Working /\ nz = Quotient(d.a, d.b)))
  BY ResetZ
<1>4. no \in Float
  BY <1>1
<1>5. d' = [d EXCEPT !.state = "get_a", !.s_input_a_ack = FALSE, !.s_input_b_ack = FALSE,
                     !.s_output_z_stb = FALSE, !.fdiv_valid_o = FALSE, !.age = 0,
                     !.a = p, !.b = q, !.z = nz, !.s_output_z = no]
  BY Zenon DEF ResetWith
<1> HIDE DEF p, q
<1>6. DivInv' /\ d' \in RegType /\ Shown' \in UnitRecords
  <2>1. DivInv'
    BY <1>2, ResetKeeps DEF p, q
  <2>2. QED
    BY <2>1, ShownTypeNext DEF DivInv, TypeOK
<1>7. no = IF Shown.st = "put_z" THEN Shown.z ELSE Shown.out
  <2>1. d.state = "put_z" <=> Shown.st = "put_z"
    BY ShownFields DEF Working
  <2>2. QED
    BY <2>1, ShownFields, Zenon
<1> HIDE DEF nz, no
<1>8. /\ d'.state = "get_a" /\ d'.s_input_a_ack = FALSE /\ d'.s_input_b_ack = FALSE
      /\ d'.s_output_z_stb = FALSE /\ d'.fdiv_valid_o = FALSE /\ d'.age = 0
      /\ d'.a = p /\ d'.b = q /\ d'.z = nz /\ d'.s_output_z = no
  BY <1>1, <1>5 DEF RegType
<1>9. d'.state \notin Working
  BY <1>8 DEF Working
<1>10. /\ Shown'.st = "get_a" /\ Shown'.ack_a = FALSE /\ Shown'.ack_b = FALSE
       /\ Shown'.stb = FALSE /\ Shown'.valid = FALSE /\ Shown'.age = 0
       /\ Shown'.a = p /\ Shown'.b = q /\ Shown'.z = nz /\ Shown'.out = no
  BY <1>8, <1>9, ShownFieldsNext
<1>11. Shown' = [Shown EXCEPT !.st = "get_a", !.ack_a = FALSE, !.ack_b = FALSE,
                              !.stb = FALSE, !.valid = FALSE, !.age = 0,
                              !.a = p, !.b = q, !.z = nz, !.out = no]
  <2>1. IsReset(Shown', p, q, nz, no)
    BY <1>2, <1>3, <1>4, <1>6, <1>10, Zenon DEF IsReset
  <2>2. QED
    BY <1>1, <2>1, AssignReset, Zenon
<1>12. nz \in IF Shown.st = "work" THEN {Shown.z, Quotient(Shown.a, Shown.b)} ELSE {Shown.z}
  BY <1>3, ShownFields, Zenon
<1>13. Unit!ResetWith(p, q)
  <2>1. Shown' = [Shown EXCEPT !.st = "get_a", !.ack_a = FALSE, !.ack_b = FALSE,
                              !.stb = FALSE, !.valid = FALSE, !.age = 0,
                              !.a = p, !.b = q, !.z = nz,
                              !.out = IF Shown.st = "put_z" THEN Shown.z ELSE @]
    BY <1>7, <1>11, Zenon
  <2>2. QED
    BY <1>12, <2>1, UnitReset, Zenon
<1>14. p \in Unit!TakeableA /\ q \in Unit!TakeableB
  <2>1. p \in {Shown.a} \cup (IF Shown.st = "get_a" /\ Shown.ack_a THEN Float ELSE {})
    <3>1. d.state = "get_a" => Shown.st = "get_a"
      BY ShownFields DEF Working
    <3>2. QED
      BY <1>2, <3>1, ShownFields, Zenon
  <2>2. q \in {Shown.b} \cup (IF Shown.st = "get_b" /\ Shown.ack_b THEN Float ELSE {})
    <3>1. d.state = "get_b" => Shown.st = "get_b"
      BY ShownFields DEF Working
    <3>2. QED
      BY <1>2, <3>1, ShownFields, Zenon
  <2>3. QED
    BY <2>1, <2>2, UnitReset, Zenon
<1>15. QED
  BY <1>13, <1>14, UnitNext, Zenon

\* and power-up.
LEMMA ShowsInit ==
  ASSUME Init
  PROVE  Unit!Init
<1>1. PICK p, q, r, o \in PowerUp :
        d = [state |-> "get_a", s_input_a_ack |-> FALSE, s_input_b_ack |-> FALSE,
             s_output_z_stb |-> FALSE, fdiv_valid_o |-> FALSE,
             a |-> p, b |-> q, z |-> r, s_output_z |-> o,
             a_m |-> 0, b_m |-> 0, z_m |-> 0, a_e |-> 0, b_e |-> 0, z_e |-> 0,
             a_s |-> 0, b_s |-> 0, z_s |-> 0, guard |-> 0, round_bit |-> 0, sticky |-> 0,
             quotient |-> 0, divisor |-> 0, dividend |-> 0, remainder |-> 0,
             count |-> 0, age |-> 0]
  BY DEF Init
<1>2. /\ d.state = "get_a" /\ d.s_input_a_ack = FALSE /\ d.s_input_b_ack = FALSE
      /\ d.s_output_z_stb = FALSE /\ d.fdiv_valid_o = FALSE /\ d.a = p /\ d.b = q
      /\ d.z = r /\ d.s_output_z = o /\ d.age = 0
  BY <1>1
<1>3. d.state \notin Working
  BY <1>2 DEF Working
<1>4. Shown = [st |-> "get_a", ack_a |-> FALSE, ack_b |-> FALSE, stb |-> FALSE,
               valid |-> FALSE, a |-> p, b |-> q, z |-> r, out |-> o, age |-> 0]
  BY <1>2, <1>3, Zenon DEF Shown
<1>5. QED
  BY <1>4, Zenon DEF Unit!Init, Shown

\* With its client the divider implements the unit.
LEMMA DividerShows ==
  ASSUME DividerInv, Hold \/ Change
  PROVE  Unit!Next
<1>1. DivInv
  BY DEF DividerInv
<1>2. CASE Hold
  <2>1. x \in Float /\ y \in Float /\ TRUE \in BOOLEAN
    BY <1>2 DEF DividerInv, Served, Hold
  <2>2. QED
    BY <1>1, <1>2, <2>1, ShowsGetA, ShowsGetB, ShowsCompute, ShowsPutZ DEF Hold, Step
<1>3. CASE Change
  <2>1. ASSUME NEW en \in BOOLEAN, NEW p \in FewFloats, Request(en, p)
        PROVE  Unit!Next
    BY <1>1, <2>1, FewFloatsOK, ShowsGetA DEF Request
  <2>2. ASSUME NEW q \in FewFloats, GetB(q)
        PROVE  Unit!Next
    BY <1>1, <2>2, FewFloatsOK, ShowsGetB
  <2>3. ASSUME Compute \/ PutZ
        PROVE  Unit!Next
    BY <1>1, <2>3, ShowsCompute, ShowsPutZ
  <2>4. ASSUME NEW p \in {TakenA(en, v) : en \in BOOLEAN, v \in FewFloats},
               NEW q \in {TakenB(v) : v \in FewFloats}, ResetWith(p, q)
        PROVE  Unit!Next
    <3>1. PICK en \in BOOLEAN, v \in FewFloats : p = TakenA(en, v)
      OBVIOUS
    <3>2. PICK w \in FewFloats : q = TakenB(w)
      OBVIOUS
    <3>3. v \in Float /\ w \in Float
      BY FewFloatsOK
    <3>4. ResetWith(TakenA(en, v), TakenB(w))
      BY <2>4, <3>1, <3>2
    <3>5. QED
      BY <1>1, <3>3, <3>4, ShowsReset
  <2>5. QED
    BY <1>3, <2>1, <2>2, <2>3, <2>4 DEF Change
<1>4. QED
  BY <1>2, <1>3

\* LoopsKeepTheValue follows of the divider: no bit of the dividend is lost.
LEMMA DivisionIsExact ==
  ASSUME DivInv
  PROVE  DivisionInvariant
<1> SUFFICES ASSUME d.state \in {"divide_1", "divide_3"}
             PROVE  LET taken == IF d.state = "divide_3" THEN Loops ELSE d.count
                    IN  /\ (d.a_m * Pow2[F + 4]) \div Pow2[DivBits - taken]
                             = d.quotient * d.divisor + d.remainder
                        /\ d.remainder < d.divisor
  BY DEF DivisionInvariant
<1> DEFINE n == IF d.state = "divide_3" THEN Loops ELSE d.count
           D == d.a_m * Pow2[F + 4]
           T == d.quotient * d.b_m + d.remainder
           k == Pow2[DivBits - n]
           p == Pow2[n]
           w == d.dividend
<1>1. /\ d.a_m \in Nat /\ d.b_m \in Nat /\ d.quotient \in Nat /\ d.remainder \in Nat
      /\ d.count \in 0 .. Loops - 1 /\ d.divisor = d.b_m /\ d.dividend \in DivideWords
      /\ F \in Nat
  BY DividingFacts, DividerWidths DEF Dividing
<1>2. Taken(d.a_m, d.b_m, n, d.quotient, d.remainder, d.dividend) /\ d.remainder < d.b_m
  BY DEF DivInv, DividesExactly, Dividing
<1>3. n \in Nat /\ DivBits - n \in Nat /\ DivBits - n + n = DivBits /\ F + 4 \in Nat
  BY <1>1, DividerWidths
<1> HIDE DEF n
<1>4. k \in Nat \ {0} /\ p \in Nat \ {0} /\ Pow2[DivBits] = k * p /\ Pow2[F + 4] \in Nat
  BY <1>3, PowNat, PowSum
<1>5. D \in Nat /\ T \in Nat
  BY <1>1, <1>4
<1>6. w \in 0 .. k * p - 1 /\ D * p = T * (k * p) + w
  BY <1>1, <1>2, <1>4 DEF Taken, DivideWords
<1> HIDE DEF D, T, k, p, w
<1>7. D \div k = T
  BY <1>4, <1>5, <1>6, TakenPart
<1>8. QED
  BY <1>1, <1>2, <1>7 DEF D, T, k, n

--------------------------------------------------------------------------------
(* The converter.                                                           *)

\* The bits of a word that do not fit a mantissa.
R == W - 1 - F

\* The converter's format is the divider's.
LEMMA CvtFormat ==
  /\ Cvt!Pow2 = Pow2 /\ Cvt!Bias = Bias /\ Cvt!EMax = EMax /\ Cvt!Float = Float
  /\ \A n \in Int : Cvt!OfInteger(n) = OfInteger(n)
<1>1. Cvt!Pow2 = Pow2
  BY DEF Cvt!Pow2, Pow2
<1>2. Cvt!Bias = Bias /\ Cvt!EMax = EMax
  BY <1>1, Zenon DEF Cvt!Bias, Bias, Cvt!EMax, EMax
<1>3. Cvt!Float = Float
  BY <1>1, <1>2, Zenon DEF Cvt!Float, Float
<1>4. Cvt!InfMag = InfMag /\ Cvt!One = One
  BY <1>1, <1>2, Zenon DEF Cvt!InfMag, InfMag, Cvt!One, One
<1>5. \A m : Cvt!Units(m) = Units(m)
  BY <1>1, Zenon DEF Cvt!Units, Units
<1>6. \A num, den : Cvt!Nearest(num, den) = Nearest(num, den)
  BY Zenon DEF Cvt!Nearest, Nearest, Cvt!Units, Units, Cvt!InfMag, InfMag, Cvt!One, One,
     Cvt!Bias, Bias, Cvt!EMax, EMax, Cvt!Pow2, Pow2
<1>7. \A s, num, den : Cvt!Round(s, num, den) = Round(s, num, den)
  BY <1>1, <1>6, Zenon DEF Cvt!Round, Round
<1>8. \A n : Cvt!OfInteger(n) = OfInteger(n)
  BY <1>7, Zenon DEF Cvt!OfInteger, OfInteger
<1>9. QED
  BY <1>1, <1>2, <1>3, <1>8

\* The widths of the converter's registers in terms of P, the rest and the bias.
LEMMA CvtWidths ==
  /\ W \in Nat /\ R \in Nat /\ R >= 2 /\ R - 2 \in Nat /\ R - 1 \in Nat /\ W - 1 = F + R
  /\ W - 1 \in Nat /\ W - 1 <= Bias /\ Bias \in Nat \ {0} /\ P \in Nat \ {0, 1} /\ F \in Nat \ {0}
  /\ Pow2[W] = 2 * Pow2[W - 1] /\ Pow2[W - 1] = P * Pow2[R] /\ Pow2[F + 1] = 2 * P
  /\ Pow2[R] = 4 * Pow2[R - 2] /\ Pow2[R - 1] = 2 * Pow2[R - 2] /\ Pow2[R - 2] \in Nat \ {0}
  /\ Pow2[EB] = 2 * Bias + 2 /\ Pow2[W - 1] \in Nat \ {0}
  /\ PowerUpWords \subseteq 0 .. Pow2[W] - 1
<1>1. /\ W \in Nat /\ R >= 2 /\ W - 1 + Bias < EMax /\ PowerUpWords \subseteq 0 .. Pow2[W] - 1
  BY UnitsAssumption, CvtFormat DEF Cvt!ConverterAssumption, Cvt!RestBits, R
<1>2. /\ F \in Nat \ {0} /\ Bias \in Nat \ {0} /\ P \in Nat \ {0, 1}
      /\ EMax = 2 * Bias + 1 /\ Pow2[EB] = 2 * Bias + 2 /\ Pow2[F + 1] = 2 * P /\ P = Pow2[F]
  BY FormatWidths DEF P
<1>3. /\ R \in Nat /\ R - 2 \in Nat /\ R - 1 \in Nat /\ W - 1 = F + R /\ W - 1 \in Nat
      /\ R - 2 + 1 = R - 1 /\ R - 1 + 1 = R /\ W - 1 + 1 = W
  BY <1>1, <1>2 DEF R
<1>4. /\ Pow2[W] = 2 * Pow2[W - 1] /\ Pow2[R] = 2 * Pow2[R - 1] /\ Pow2[R - 1] = 2 * Pow2[R - 2]
  BY <1>3, PowStep
<1>5. Pow2[W - 1] = P * Pow2[R] /\ Pow2[R - 2] \in Nat \ {0} /\ Pow2[W - 1] \in Nat \ {0}
  BY <1>2, <1>3, PowSum, PowNat
<1>6. QED
  BY <1>1, <1>2, <1>3, <1>4, <1>5

\* The working states and the registers of the converter, in the divider's terms.
CvtWorking == {"convert_0", "convert_1", "convert_2", "round", "pack"}
CvtRegs ==
  [state : CvtWorking \cup {"get_a", "put_z"},
   s_input_a_ack : BOOLEAN, s_output_z_stb : BOOLEAN, convert_valid_o : BOOLEAN,
   a : 0 .. Pow2[W] - 1, z : Float, s_output_z : Float, value : 0 .. Pow2[W] - 1,
   z_m : 0 .. Pow2[F + 1] - 1, z_r : 0 .. Pow2[R] - 1, z_e : 0 .. Pow2[EB] - 1, z_s : Bit,
   guard : Bit, round_bit : Bit, sticky : Bit, age : 0 .. W + 4]

\* What ages, rounds up and is packed.
CvtAged == IF c.age < W + 4 THEN c.age + 1 ELSE c.age
CvtUp   == c.guard = 1 /\ (c.round_bit = 1 \/ c.sticky = 1 \/ c.z_m % 2 = 1)
CvtPacked == [s |-> c.z_s, e |-> (c.z_e + Bias) % Pow2[EB], f |-> c.z_m % Pow2[F]]

\* The converter's definitions, restated in these terms: the registers,
LEMMA CvtType ==
  Cvt!TypeOK <=> c \in CvtRegs
<1>1. Cvt!RegType = CvtRegs
  BY Zenon DEF Cvt!RegType, Cvt!Working, CvtWorking, Cvt!IntWords, Cvt!Mantissas, Cvt!Bit, Bit,
     Cvt!RestBits, R, Cvt!MaxLatency, CvtRegs, Cvt!Float, Float, Cvt!EMax, EMax, Cvt!Pow2, Pow2
<1>2. QED
  BY <1>1, Zenon DEF Cvt!TypeOK

\* The steps of the converter, in these terms.
LEMMA CvtGetA ==
  ASSUME NEW en, NEW v
  PROVE  Cvt!GetA(en, v) <=>
    /\ c.state = "get_a"
    /\ IF c.s_input_a_ack /\ en
         THEN c' = [c EXCEPT !.convert_valid_o = FALSE, !.s_input_a_ack = FALSE, !.a = v,
                             !.state = "convert_0"]
         ELSE c' = [c EXCEPT !.convert_valid_o = FALSE, !.s_input_a_ack = TRUE]
BY Zenon DEF Cvt!GetA

\* convert_0,
LEMMA CvtConvert0 ==
  Cvt!Convert0 <=>
    /\ c.state = "convert_0"
    /\ IF c.a = 0
         THEN c' = [c EXCEPT !.z_s = 0, !.z_m = 0, !.z_e = -Bias % Pow2[EB],
                             !.state = "pack", !.age = CvtAged]
         ELSE c' = [c EXCEPT !.value = IF BitOf(c.a, W - 1) = 1 THEN Pow2[W] - c.a ELSE c.a,
                             !.z_s = BitOf(c.a, W - 1),
                             !.state = "convert_1", !.age = CvtAged]
BY Zenon DEF Cvt!Convert0, Cvt!BitOf, BitOf, Cvt!Aged, CvtAged, Cvt!MaxLatency, Cvt!Bias, Bias,
   Cvt!Pow2, Pow2

\* convert_1,
LEMMA CvtConvert1 ==
  Cvt!Convert1 <=>
    /\ c.state = "convert_1"
    /\ c' = [c EXCEPT !.z_e = W - 1, !.z_m = c.value \div Pow2[R],
                      !.z_r = c.value % Pow2[R],
                      !.state = "convert_2", !.age = CvtAged]
BY Zenon DEF Cvt!Convert1, Cvt!RestBits, R, Cvt!Aged, CvtAged, Cvt!MaxLatency, Cvt!Pow2, Pow2

\* convert_2,
LEMMA CvtConvert2 ==
  Cvt!Convert2 <=>
    /\ c.state = "convert_2"
    /\ IF BitOf(c.z_m, F) = 0
         THEN c' = [c EXCEPT !.z_e = (c.z_e - 1) % Pow2[EB],
                             !.z_m = (2 * c.z_m + BitOf(c.z_r, R - 1)) % Pow2[F + 1],
                             !.z_r = (2 * c.z_r) % Pow2[R], !.age = CvtAged]
         ELSE c' = [c EXCEPT !.guard = BitOf(c.z_r, R - 1),
                             !.round_bit = BitOf(c.z_r, R - 2),
                             !.sticky = IF c.z_r % Pow2[R - 2] # 0 THEN 1 ELSE 0,
                             !.state = "round", !.age = CvtAged]
BY Zenon DEF Cvt!Convert2, Cvt!RestBits, R, Cvt!BitOf, BitOf, Cvt!Aged, CvtAged,
   Cvt!MaxLatency, Cvt!Pow2, Pow2

\* round,
LEMMA CvtRoundZ ==
  Cvt!RoundZ <=>
    /\ c.state = "round"
    /\ c' = [c EXCEPT !.z_m = IF CvtUp THEN (c.z_m + 1) % Pow2[F + 1] ELSE c.z_m,
                      !.z_e = IF CvtUp /\ c.z_m = Pow2[F + 1] - 1 THEN (c.z_e + 1) % Pow2[EB]
                                                                   ELSE c.z_e,
                      !.state = "pack", !.age = CvtAged]
BY Zenon DEF Cvt!RoundZ, Cvt!RoundsUp, CvtUp, Cvt!Aged, CvtAged, Cvt!MaxLatency, Cvt!Pow2, Pow2

\* pack,
LEMMA CvtPack ==
  /\ Cvt!PackedZ = CvtPacked
  /\ Cvt!Pack <=> /\ c.state = "pack"
                  /\ c' = [c EXCEPT !.z = CvtPacked, !.state = "put_z", !.age = 0]
BY Zenon DEF Cvt!Pack, Cvt!PackedZ, CvtPacked, Cvt!Bias, Bias, Cvt!Pow2, Pow2

\* put_z,
LEMMA CvtPutZ ==
  Cvt!PutZ <=>
    /\ c.state = "put_z"
    /\ IF c.s_output_z_stb
         THEN c' = [c EXCEPT !.s_output_z = c.z, !.convert_valid_o = TRUE,
                             !.s_output_z_stb = FALSE, !.state = "get_a"]
         ELSE c' = [c EXCEPT !.s_output_z = c.z, !.convert_valid_o = TRUE,
                             !.s_output_z_stb = TRUE]
BY Zenon DEF Cvt!PutZ

\* reset,
LEMMA CvtReset ==
  ASSUME NEW v
  PROVE  Cvt!ResetWith(v) <=>
    c' = [c EXCEPT !.state = "get_a", !.s_input_a_ack = FALSE, !.s_output_z_stb = FALSE,
                   !.convert_valid_o = FALSE, !.age = 0, !.a = v,
                   !.z = IF c.state = "pack" THEN CvtPacked ELSE c.z,
                   !.s_output_z = IF c.state = "put_z" THEN c.z ELSE c.s_output_z]
BY CvtPack, Zenon DEF Cvt!ResetWith

\* The float nearest to the signed value of a word.
Converted(w) == OfInteger(IF w < Pow2[W - 1] THEN w ELSE w - Pow2[W])

\* and the result of a word.
LEMMA CvtResult ==
  ASSUME NEW w \in 0 .. Pow2[W] - 1
  PROVE  Cvt!OfInteger(Cvt!SignedOf(w)) = Converted(w)
<1>1. (IF w < Pow2[W - 1] THEN w ELSE w - Pow2[W]) \in Int
  BY CvtWidths
<1>2. Cvt!SignedOf(w) = IF w < Pow2[W - 1] THEN w ELSE w - Pow2[W]
  BY CvtFormat, Zenon DEF Cvt!SignedOf
<1>3. QED
  BY <1>1, <1>2, CvtFormat, Zenon DEF Converted

--------------------------------------------------------------------------------
(* Its invariant.                                                           *)

\* Magnitude and sign of a word.
Absolute(w, v, s) ==
  IF w < Pow2[W - 1] THEN v = w /\ s = 0 ELSE v = Pow2[W] - w /\ s = 1

\* Mantissa and rest, one number.
Joined == c.z_m * Pow2[R] + c.z_r

\* The states between split and packing.
Normalising == {"convert_2", "round"}

\* The inductive invariant of the converter.
CvtInv ==
  /\ c \in CvtRegs
  /\ c.state \in {"convert_1"} \cup Normalising =>
       c.a # 0 /\ Absolute(c.a, c.value, c.z_s)
  /\ c.state \in Normalising =>
       c.z_e <= W - 1 /\ Joined * Pow2[c.z_e] = c.value * Pow2[W - 1]
  /\ c.state = "round" =>
       /\ c.z_m >= P /\ Between(Joined, Pow2[R], c.z_m, c.guard, c.round_bit, c.sticky)
       /\ c.z_e = W - 1 => c.guard = 0
  /\ c.state = "pack" => CvtPacked = Converted(c.a)
  /\ c.state = "put_z" => c.z = Converted(c.a)
  /\ c.state \notin CvtWorking \/ c.state = "convert_0" => c.age = 0
  /\ c.state = "convert_1" => c.age = 1
  /\ c.state = "convert_2" => c.age = 1 + W - c.z_e
  /\ c.state = "round" => c.age = 2 + W - c.z_e
  /\ c.state = "pack" => c.age \in {1} \cup 4 .. W + 3

\* The fields of the converter's registers.
LEMMA CvtFields ==
  ASSUME c \in CvtRegs
  PROVE  /\ c.a \in 0 .. Pow2[W] - 1 /\ c.value \in 0 .. Pow2[W] - 1
         /\ c.z_m \in 0 .. 2 * P - 1 /\ c.z_r \in 0 .. Pow2[R] - 1
         /\ c.z_e \in 0 .. 2 * Bias + 1 /\ c.z_s \in {0, 1}
         /\ c.guard \in {0, 1} /\ c.round_bit \in {0, 1} /\ c.sticky \in {0, 1}
         /\ c.age \in 0 .. W + 4 /\ c.z \in Float /\ c.s_output_z \in Float
         /\ c.s_input_a_ack \in BOOLEAN /\ c.s_output_z_stb \in BOOLEAN
         /\ c.convert_valid_o \in BOOLEAN /\ c.state \in CvtWorking \cup {"get_a", "put_z"}
<1>1. Pow2[F + 1] = 2 * P /\ Pow2[EB] = 2 * Bias + 2 /\ Bias \in Nat
  BY CvtWidths
<1>2. QED
  BY <1>1 DEF CvtRegs, Bit

\* Assigning a register of the converter a value of its width keeps the type.
LEMMA CvtAssign ==
  ASSUME NEW r \in CvtRegs
  PROVE  /\ \A v \in CvtWorking \cup {"get_a", "put_z"} : [r EXCEPT !.state = v] \in CvtRegs
         /\ \A v \in BOOLEAN : [r EXCEPT !.s_input_a_ack = v] \in CvtRegs
         /\ \A v \in BOOLEAN : [r EXCEPT !.s_output_z_stb = v] \in CvtRegs
         /\ \A v \in BOOLEAN : [r EXCEPT !.convert_valid_o = v] \in CvtRegs
         /\ \A v \in 0 .. Pow2[W] - 1 : [r EXCEPT !.a = v] \in CvtRegs
         /\ \A v \in Float : [r EXCEPT !.z = v] \in CvtRegs
         /\ \A v \in Float : [r EXCEPT !.s_output_z = v] \in CvtRegs
         /\ \A v \in 0 .. W + 4 : [r EXCEPT !.age = v] \in CvtRegs
BY DEF CvtRegs

\* Assigning a data register a value of its width keeps the type.
LEMMA CvtAssignData ==
  ASSUME NEW r \in CvtRegs
  PROVE  /\ \A v \in 0 .. Pow2[W] - 1 : [r EXCEPT !.value = v] \in CvtRegs
         /\ \A v \in 0 .. Pow2[F + 1] - 1 : [r EXCEPT !.z_m = v] \in CvtRegs
         /\ \A v \in 0 .. Pow2[R] - 1 : [r EXCEPT !.z_r = v] \in CvtRegs
         /\ \A v \in 0 .. Pow2[EB] - 1 : [r EXCEPT !.z_e = v] \in CvtRegs
         /\ \A v \in Bit : [r EXCEPT !.z_s = v] \in CvtRegs
         /\ \A v \in Bit : [r EXCEPT !.guard = v] \in CvtRegs
         /\ \A v \in Bit : [r EXCEPT !.round_bit = v] \in CvtRegs
         /\ \A v \in Bit : [r EXCEPT !.sticky = v] \in CvtRegs
BY DEF CvtRegs

\* The count of cycles has not reached its bound.
LEMMA CvtAgedIs ==
  ASSUME c \in CvtRegs, c.age < W + 4
  PROVE  CvtAged = c.age + 1 /\ CvtAged \in 0 .. W + 4
<1>1. c.age \in 0 .. W + 4 /\ W \in Nat
  BY CvtFields, CvtWidths
<1>2. QED
  BY <1>1 DEF CvtAged

\* The integer zero becomes the float zero.
LEMMA ZeroConverts ==
  Converted(0) = [s |-> 0, e |-> 0, f |-> 0]
<1>1. 0 < Pow2[W - 1] /\ P \in Nat \ {0, 1} /\ P = Pow2[F] /\ 1 < EMax /\ Pow2[1 - 1] \in Nat \ {0}
      /\ 1 - 1 = 0 /\ EMax \in Nat
  <2>1. EMax = 2 * Bias + 1
    BY FormatWidths
  <2>2. QED
    BY <2>1, CvtWidths, PowStep DEF P
<1>2. Converted(0) = Round(0, 0, 1)
  BY <1>1 DEF Converted, OfInteger
<1>3. One * 0 = 0 /\ Pow2[1 - 1] * 1 = 1
  BY <1>1, FormatRange, PowStep
<1>4. Guarded(0, 1, 1, 0, 0, 0, 0, 0)
  BY <1>1, <1>3 DEF Guarded, Between, Upwards
<1>5. Round(0, 0, 1) = [s |-> 0, e |-> 0, f |-> 0]
  BY <1>1, <1>4, RoundsTo
<1>6. QED
  BY <1>2, <1>5

\* convert_0: zero is packed at once; otherwise magnitude and sign are those of the word.
LEMMA Convert0Keeps ==
  ASSUME CvtInv, Cvt!Convert0
  PROVE  CvtInv'
<1>1. c.state = "convert_0" /\ c \in CvtRegs /\ c.age = 0
  BY CvtConvert0 DEF CvtInv
<1>2. c.a \in 0 .. Pow2[W] - 1
  BY <1>1, CvtFields
<1>3. CvtAged = 1 /\ CvtAged \in 0 .. W + 4
  BY <1>1, CvtAgedIs, CvtWidths
<1>4. CASE c.a = 0
  <2> DEFINE ze == -Bias % Pow2[EB]
  <2>1. c' = [c EXCEPT !.z_s = 0, !.z_m = 0, !.z_e = ze, !.state = "pack", !.age = CvtAged]
    BY <1>4, CvtConvert0, Zenon
  <2>2. ze = Bias + 2 /\ (ze + Bias) % Pow2[EB] = 0
    <3>1. Bias \in Nat \ {0} /\ Pow2[EB] = 2 * Bias + 2
      BY CvtWidths
    <3>2. ze = Bias + 2
      <4> DEFINE k == 2 * Bias + 2
                 r == Bias + 2
                 n == -Bias
      <4>1. k \in Nat \ {0} /\ r \in 0 .. k - 1 /\ n = k * (-1) + r /\ -1 \in Int
        BY <3>1
      <4> HIDE DEF k, r, n
      <4>2. n % k = r
        BY <4>1, DivisionIs
      <4>3. QED
        BY <3>1, <4>2 DEF k, r, n
    <3>3. (2 * Bias + 2) % (2 * Bias + 2) = 0
      BY <3>1
    <3>4. QED
      BY <3>1, <3>2, <3>3, Bias + 2 + Bias = 2 * Bias + 2
  <2>3. ze \in 0 .. Pow2[EB] - 1 /\ 0 \in Bit /\ 0 \in 0 .. Pow2[F + 1] - 1
        /\ "pack" \in CvtWorking \cup {"get_a", "put_z"}
    BY <2>2, CvtWidths DEF Bit, CvtWorking
  <2> HIDE DEF ze
  <2>4. c' \in CvtRegs
    BY <1>1, <1>3, <2>1, <2>3, CvtAssign, CvtAssignData, Zenon
  <2>5. /\ c'.state = "pack" /\ c'.z_s = 0 /\ c'.z_m = 0 /\ c'.z_e = ze /\ c'.a = 0
        /\ c'.age = 1
    BY <1>1, <1>3, <1>4, <2>1 DEF CvtRegs
  <2>6. CvtPacked' = Converted(c'.a)
    <3>1. 0 % Pow2[F] = 0
      BY CvtWidths DEF P
    <3>2. CvtPacked' = [s |-> 0, e |-> 0, f |-> 0]
      BY <2>2, <2>5, <3>1 DEF CvtPacked
    <3>3. QED
      BY <2>5, <3>2, ZeroConverts
  <2>7. QED
    BY <2>4, <2>5, <2>6 DEF CvtInv, Normalising, CvtWorking
<1>5. CASE c.a # 0
  <2> DEFINE bit == BitOf(c.a, W - 1)
             v == IF bit = 1 THEN Pow2[W] - c.a ELSE c.a
  <2>1. c' = [c EXCEPT !.value = v, !.z_s = bit, !.state = "convert_1", !.age = CvtAged]
    BY <1>5, CvtConvert0, Zenon
  <2>2. IF c.a < Pow2[W - 1] THEN bit = 0 ELSE bit = 1
    <3> DEFINE k == Pow2[W - 1]
    <3>1. k \in Nat \ {0} /\ Pow2[W] = 2 * k
      BY CvtWidths
    <3>2. CASE c.a < k
      <4>1. c.a \div k = 0
        BY <1>2, <3>1, <3>2, c.a \in 0 .. k - 1, Small
      <4>2. QED
        BY <3>2, <4>1 DEF BitOf
    <3>3. CASE ~(c.a < k)
      <4>1. c.a \div k = 1
        BY <1>2, <3>1, <3>3, c.a \in k .. 2 * k - 1, Once
      <4>2. QED
        BY <3>3, <4>1 DEF BitOf
    <3>4. QED
      BY <3>2, <3>3
  <2> HIDE DEF bit
  <2>3. bit \in Bit /\ v \in 0 .. Pow2[W] - 1
        /\ "convert_1" \in CvtWorking \cup {"get_a", "put_z"}
    BY <1>2, <1>5, <2>2, CvtWidths DEF Bit, CvtWorking
  <2>4. Absolute(c.a, v, bit)
    BY <2>2 DEF Absolute
  <2> HIDE DEF v
  <2>5. c' \in CvtRegs
    BY <1>1, <1>3, <2>1, <2>3, CvtAssign, CvtAssignData, Zenon
  <2>6. /\ c'.state = "convert_1" /\ c'.value = v /\ c'.z_s = bit /\ c'.a = c.a /\ c'.age = 1
    BY <1>1, <1>3, <2>1 DEF CvtRegs
  <2>7. QED
    BY <1>5, <2>4, <2>5, <2>6 DEF CvtInv, Normalising, CvtWorking
<1>6. QED
  BY <1>4, <1>5

--------------------------------------------------------------------------------
(* Its working states.                                                      *)

\* The magnitude of a word that is not zero.
LEMMA ValueRange ==
  ASSUME c \in CvtRegs, c.a # 0, Absolute(c.a, c.value, c.z_s)
  PROVE  c.value \in 1 .. Pow2[W - 1]
BY CvtFields, CvtWidths DEF Absolute

\* The two leading bits of a number of two bits and more, and the rest.
LEMMA LeadingBits ==
  ASSUME NEW q \in Nat \ {0}, NEW n \in 0 .. 4 * q - 1
  PROVE  LET g == (n \div (2 * q)) % 2
             r == (n \div q) % 2
             t == n % q
         IN  /\ g \in {0, 1} /\ r \in {0, 1} /\ t \in 0 .. q - 1
             /\ n = 2 * (g * q) + r * q + t
<1> DEFINE k == 2 * q
<1>1. k \in Nat \ {0}
  OBVIOUS
<1>2. ASSUME NEW i \in {0, 1}, NEW j \in {0, 1}, NEW s \in 0 .. q - 1,
             n = k * i + (q * j + s)
      PROVE  n \div k = i /\ n \div q = 2 * i + j /\ n % q = s
  <2>1. q * j + s \in 0 .. k - 1
    <3>1. q * j \in {0, q}
      OBVIOUS
    <3>2. QED
      BY <3>1
  <2>2. n = q * (2 * i + j) + s
    BY <1>2
  <2> DEFINE u == q * j + s
             v == 2 * i + j
  <2>3. n = k * i + u /\ u \in 0 .. k - 1 /\ i \in Int /\ n = q * v + s /\ v \in Int
    BY <1>2, <2>1, <2>2
  <2> HIDE DEF u, v, k
  <2>4. n \div k = i /\ n \div q = v /\ n % q = s
    BY <1>1, <2>3, DivisionIs
  <2>5. QED
    BY <2>4 DEF v
<1>3. CASE n < q
  BY <1>2, <1>3, n = k * 0 + (q * 0 + n), n \in 0 .. q - 1
<1>4. CASE n >= q /\ n < 2 * q
  <2> DEFINE s == n - q
  <2>1. n = k * 0 + (q * 1 + s) /\ s \in 0 .. q - 1
    BY <1>4
  <2> HIDE DEF s, k
  <2>2. n \div k = 0 /\ n \div q = 1 /\ n % q = s
    BY <1>2, <2>1
  <2>3. QED
    BY <2>1, <2>2 DEF k
<1>5. CASE n >= 2 * q /\ n < 3 * q
  <2> DEFINE s == n - 2 * q
  <2>1. n = k * 1 + (q * 0 + s) /\ s \in 0 .. q - 1
    BY <1>5
  <2> HIDE DEF s, k
  <2>2. n \div k = 1 /\ n \div q = 2 /\ n % q = s
    BY <1>2, <2>1
  <2>3. QED
    BY <2>1, <2>2 DEF k
<1>6. CASE n >= 3 * q
  <2> DEFINE s == n - 3 * q
  <2>1. n = k * 1 + (q * 1 + s) /\ s \in 0 .. q - 1
    BY <1>6
  <2> HIDE DEF s, k
  <2>2. n \div k = 1 /\ n \div q = 3 /\ n % q = s
    BY <1>2, <2>1
  <2>3. QED
    BY <2>1, <2>2 DEF k
<1>7. QED
  BY <1>3, <1>4, <1>5, <1>6

\* Dividing a number that is at most p times the divisor.
LEMMA QuotientAtMost ==
  ASSUME NEW k \in Nat \ {0}, NEW p \in Nat \ {0, 1}, NEW v \in Nat, v <= p * k
  PROVE  /\ v \div k \in 0 .. 2 * p - 1 /\ v % k \in 0 .. k - 1
         /\ (v \div k) * k + (v % k) = v
<1> DEFINE m == v \div k
           r == v % k
<1>1. m \in Nat /\ r \in 0 .. k - 1 /\ v = (k * m) + r
  BY v \in Int, Division
<1> HIDE DEF m, r
<1>2. m <= p
  <2>1. SUFFICES ASSUME m >= p + 1 PROVE FALSE
    BY <1>1
  <2>2. PICK j \in Nat : m = p + 1 + j
    BY <1>1, <2>1, m - p - 1 \in Nat
  <2>3. k * m = p * k + k + k * j /\ p * k \in Nat /\ k * j \in Nat
    BY <2>2
  <2> DEFINE a == k * m
             b == p * k
             d1 == k * j
  <2>4. a = b + k + d1 /\ b \in Nat /\ d1 \in Nat /\ v = a + r /\ v <= b
    BY <1>1, <2>3
  <2> HIDE DEF a, b, d1
  <2>5. QED
    BY <1>1, <2>4
<1>3. m * k = k * m /\ k * m \in Nat
  BY <1>1
<1>4. m \in 0 .. 2 * p - 1 /\ r \in 0 .. k - 1 /\ m * k + r = v
  BY <1>1, <1>2, <1>3
<1>5. QED
  BY <1>4 DEF m, r

\* convert_1: the magnitude is split into mantissa and rest.
LEMMA Convert1Keeps ==
  ASSUME CvtInv, Cvt!Convert1
  PROVE  CvtInv'
<1> DEFINE zm == c.value \div Pow2[R]
           zr == c.value % Pow2[R]
<1>1. /\ c.state = "convert_1" /\ c \in CvtRegs /\ c.age = 1
      /\ c.a # 0 /\ Absolute(c.a, c.value, c.z_s)
  BY CvtConvert1 DEF CvtInv
<1>2. c.value \in 1 .. Pow2[W - 1] /\ c.a \in 0 .. Pow2[W] - 1
  BY <1>1, ValueRange, CvtFields
<1>3. CvtAged = 2 /\ CvtAged \in 0 .. W + 4
  BY <1>1, CvtAgedIs, CvtWidths
<1>4. /\ zm * Pow2[R] + zr = c.value /\ zm \in 0 .. 2 * P - 1 /\ zr \in 0 .. Pow2[R] - 1
  <2>1. /\ Pow2[R] \in Nat \ {0} /\ P \in Nat \ {0, 1} /\ c.value \in Nat
        /\ c.value <= P * Pow2[R]
    BY <1>2, CvtWidths, PowNat
  <2>2. QED
    BY <2>1, QuotientAtMost
<1>5. c' = [c EXCEPT !.z_e = W - 1, !.z_m = zm, !.z_r = zr, !.state = "convert_2",
                     !.age = CvtAged]
  BY CvtConvert1, Zenon
<1> HIDE DEF zm, zr
<1>6. /\ W - 1 \in 0 .. Pow2[EB] - 1 /\ zm \in 0 .. Pow2[F + 1] - 1
      /\ "convert_2" \in CvtWorking \cup {"get_a", "put_z"}
  BY <1>4, CvtWidths DEF CvtWorking
<1>7. c' \in CvtRegs
  BY <1>1, <1>3, <1>4, <1>5, <1>6, CvtAssign, CvtAssignData, Zenon
<1>8. /\ c'.state = "convert_2" /\ c'.z_e = W - 1 /\ c'.z_m = zm /\ c'.z_r = zr /\ c'.age = 2
      /\ c'.a = c.a /\ c'.value = c.value /\ c'.z_s = c.z_s
  BY <1>1, <1>3, <1>5 DEF CvtRegs
<1>9. c'.z_e <= W - 1 /\ Joined' * Pow2[c'.z_e] = c'.value * Pow2[W - 1]
      /\ c'.age = 1 + W - c'.z_e
  BY <1>4, <1>8, CvtWidths DEF Joined
<1>10. QED
  BY <1>1, <1>7, <1>8, <1>9 DEF CvtInv, Normalising, CvtWorking

\* What is known where convert_2 begins.
LEMMA Convert2Facts ==
  ASSUME CvtInv, Cvt!Convert2
  PROVE  /\ c.state = "convert_2" /\ c \in CvtRegs /\ c.a # 0 /\ Absolute(c.a, c.value, c.z_s)
         /\ c.value \in 1 .. Pow2[W - 1] /\ c.a \in 0 .. Pow2[W] - 1
         /\ c.z_e \in 0 .. W - 1 /\ Joined * Pow2[c.z_e] = c.value * Pow2[W - 1]
         /\ c.z_m \in 0 .. 2 * P - 1 /\ c.z_r \in 0 .. Pow2[R] - 1 /\ c.age = 1 + W - c.z_e
         /\ CvtAged = 2 + W - c.z_e /\ CvtAged \in 0 .. W + 4
         /\ BitOf(c.z_m, F) = IF c.z_m < P THEN 0 ELSE 1
<1>1. /\ c.state = "convert_2" /\ c \in CvtRegs /\ c.a # 0 /\ Absolute(c.a, c.value, c.z_s)
      /\ c.z_e <= W - 1 /\ Joined * Pow2[c.z_e] = c.value * Pow2[W - 1]
      /\ c.age = 1 + W - c.z_e
  BY CvtConvert2 DEF CvtInv, Normalising
<1>2. /\ c.value \in 1 .. Pow2[W - 1] /\ c.a \in 0 .. Pow2[W] - 1
      /\ c.z_m \in 0 .. 2 * P - 1 /\ c.z_r \in 0 .. Pow2[R] - 1 /\ c.z_e \in Nat
  BY <1>1, ValueRange, CvtFields, CvtWidths
<1>3. CvtAged = 2 + W - c.z_e /\ CvtAged \in 0 .. W + 4 /\ c.z_e \in 0 .. W - 1
  <2>1. c.age < W + 4 /\ c.age + 1 = 2 + W - c.z_e
    BY <1>1, <1>2, CvtWidths
  <2>2. QED
    BY <1>1, <1>2, <2>1, CvtAgedIs, CvtWidths
<1>4. BitOf(c.z_m, F) = IF c.z_m < P THEN 0 ELSE 1
  <2> DEFINE z == c.z_m
  <2>1. P \in Nat \ {0, 1} /\ P = Pow2[F]
    BY CvtWidths DEF P
  <2>2. CASE z < P
    <3>1. z \div P = 0
      BY <1>2, <2>1, <2>2, z \in 0 .. P - 1, P \in Nat \ {0}, Small
    <3>2. QED
      BY <2>1, <2>2, <3>1 DEF BitOf
  <2>3. CASE ~(z < P)
    <3>1. z \div P = 1
      BY <1>2, <2>1, <2>3, z \in P .. 2 * P - 1, P \in Nat \ {0}, Once
    <3>2. QED
      BY <2>1, <2>3, <3>1 DEF BitOf
  <2>4. QED
    BY <2>2, <2>3
<1>5. QED
  BY <1>1, <1>2, <1>3, <1>4

\* Shifting a number of two parts left by one position.
LEMMA ShiftsOn ==
  ASSUME NEW q \in Nat \ {0}, NEW m \in Nat, NEW n \in 0 .. 2 * q - 1
  PROVE  LET bit == (n \div q) % 2
             r == (2 * n) % (2 * q)
         IN  /\ bit \in {0, 1} /\ r \in 0 .. 2 * q - 1
             /\ (2 * m + bit) * (2 * q) + r = 2 * (m * (2 * q) + n)
<1> DEFINE k == 2 * q
<1>1. k \in Nat \ {0}
  OBVIOUS
<1>2. CASE n < q
  <2>1. n \in 0 .. q - 1 /\ 2 * n \in 0 .. k - 1
    BY <1>2
  <2> HIDE DEF k
  <2>2. n \div q = 0 /\ (2 * n) % k = 2 * n
    BY <1>1, <2>1, Small
  <2>3. (2 * m + 0) * k + 2 * n = 2 * (m * k + n)
    BY <1>1
  <2>4. (n \div q) % 2 = 0
    BY <2>2
  <2>5. QED
    BY <2>1, <2>2, <2>3, <2>4 DEF k
<1>3. CASE ~(n < q)
  <2>1. n \in q .. 2 * q - 1 /\ 2 * n \in k .. 2 * k - 1 /\ 2 * n - k \in 0 .. k - 1
    BY <1>3
  <2> HIDE DEF k
  <2>2. n \div q = 1 /\ (2 * n) % k = 2 * n - k
    BY <1>1, <2>1, Once
  <2>3. (2 * m + 1) * k + (2 * n - k) = 2 * (m * k + n)
    BY <1>1
  <2>4. (n \div q) % 2 = 1
    BY <2>2
  <2>5. QED
    BY <2>1, <2>2, <2>3, <2>4 DEF k
<1>4. QED
  BY <1>2, <1>3

\* What guard, round and sticky bit say of the rest.
Rest(q, m, n, g, r, t, s) ==
  /\ q \in Nat \ {0} /\ m \in Nat /\ n \in Nat
  /\ g \in {0, 1} /\ r \in {0, 1} /\ s \in {0, 1} /\ t \in 0 .. q - 1
  /\ s = 0 <=> t = 0
  /\ n = 2 * (g * q) + r * q + t

\* The guard bits of the rest bracket mantissa and rest.
LEMMA RestBracket ==
  ASSUME NEW q, NEW m, NEW n, NEW g, NEW r, NEW t, NEW s, Rest(q, m, n, g, r, t, s)
  PROVE  Between(m * (4 * q) + n, 4 * q, m, g, r, s)
<1>0. /\ q \in Nat \ {0} /\ m \in Nat /\ n \in Nat
      /\ g \in {0, 1} /\ r \in {0, 1} /\ s \in {0, 1} /\ t \in 0 .. q - 1
      /\ s = 0 <=> t = 0
      /\ n = 2 * (g * q) + r * q + t
  BY DEF Rest
<1> DEFINE X == m * q
<1>1. X \in Nat /\ m * (4 * q) = 4 * X
  BY <1>0
<1>2. ASSUME NEW i \in Nat, NEW j \in Nat, NEW l \in Nat, i = 4 * m + j
      PROVE  i * (4 * q) = 16 * X + 4 * (j * q)
  <2>1. i * (4 * q) = 4 * (4 * (m * q) + j * q)
    BY <1>0, <1>2
  <2>2. j * q \in Nat
    BY <1>0
  <2> DEFINE Y == j * q
  <2>3. i * (4 * q) = 4 * (4 * X + Y) /\ Y \in Nat
    BY <2>1, <2>2
  <2> HIDE DEF X, Y
  <2>4. 4 * (4 * X + Y) = 16 * X + 4 * Y
    BY <1>1, <2>3
  <2>5. QED
    BY <2>3, <2>4 DEF Y
<1>3. QED
  <2> DEFINE V == 4 * m + 2 * g + r
  <2>1. ASSUME NEW j \in Nat, V = 4 * m + j PROVE V * (4 * q) = 16 * X + 4 * (j * q)
    BY <1>0, <1>2, <2>1, V \in Nat
  <2>2. ASSUME NEW j \in Nat, V + 2 - r = 4 * m + j
        PROVE (V + 2 - r) * (4 * q) = 16 * X + 4 * (j * q)
    BY <1>0, <1>2, <2>2, V + 2 - r \in Nat
  <2>3. CASE g = 0 /\ r = 0
    <3>1. V = 4 * m + 0 /\ V + 2 - r = 4 * m + 2
      BY <1>0, <2>3
    <3>2. V * (4 * q) = 16 * X + 4 * (0 * q) /\ (V + 2 - r) * (4 * q) = 16 * X + 4 * (2 * q)
      BY <1>0, <2>1, <2>2, <3>1
    <3>3. n = t /\ 0 * q = 0
      BY <1>0, <2>3
    <3> HIDE DEF X
    <3>4. QED
      BY <1>0, <1>1, <3>2, <3>3 DEF Between
  <2>4. CASE g = 0 /\ r = 1
    <3>1. V = 4 * m + 1 /\ V + 2 - r = 4 * m + 2
      BY <1>0, <2>4
    <3>2. V * (4 * q) = 16 * X + 4 * (1 * q) /\ (V + 2 - r) * (4 * q) = 16 * X + 4 * (2 * q)
      BY <1>0, <2>1, <2>2, <3>1
    <3>3. n = q + t
      BY <1>0, <2>4
    <3> HIDE DEF X
    <3>4. QED
      BY <1>0, <1>1, <3>2, <3>3 DEF Between
  <2>5. CASE g = 1 /\ r = 0
    <3>1. V = 4 * m + 2 /\ V + 2 - r = 4 * m + 4
      BY <1>0, <2>5
    <3>2. V * (4 * q) = 16 * X + 4 * (2 * q) /\ (V + 2 - r) * (4 * q) = 16 * X + 4 * (4 * q)
      BY <1>0, <2>1, <2>2, <3>1
    <3>3. n = 2 * q + t
      BY <1>0, <2>5
    <3> HIDE DEF X
    <3>4. QED
      BY <1>0, <1>1, <3>2, <3>3 DEF Between
  <2>6. CASE g = 1 /\ r = 1
    <3>1. V = 4 * m + 3 /\ V + 2 - r = 4 * m + 4
      BY <1>0, <2>6
    <3>2. V * (4 * q) = 16 * X + 4 * (3 * q) /\ (V + 2 - r) * (4 * q) = 16 * X + 4 * (4 * q)
      BY <1>0, <2>1, <2>2, <3>1
    <3>3. n = 3 * q + t
      BY <1>0, <2>6
    <3> HIDE DEF X
    <3>4. QED
      BY <1>0, <1>1, <3>2, <3>3 DEF Between
  <2>7. QED
    BY <1>0, <2>3, <2>4, <2>5, <2>6

\* convert_2 that shifts: a shift left and a lower exponent are the same number.
LEMMA Convert2Shifts ==
  ASSUME CvtInv, Cvt!Convert2, c.z_m < P
  PROVE  CvtInv'
<1> DEFINE k == Pow2[R]
           q == Pow2[R - 1]
           bit == BitOf(c.z_r, R - 1)
           zm == (2 * c.z_m + bit) % Pow2[F + 1]
           zr == (2 * c.z_r) % k
           ze == (c.z_e - 1) % Pow2[EB]
           A == Pow2[c.z_e - 1]
           Y == c.value * Pow2[W - 1]
<1>1. /\ c.state = "convert_2" /\ c \in CvtRegs /\ c.a # 0 /\ Absolute(c.a, c.value, c.z_s)
      /\ c.value \in 1 .. Pow2[W - 1]
      /\ c.z_e \in 0 .. W - 1 /\ Joined * Pow2[c.z_e] = Y
      /\ c.z_r \in 0 .. k - 1 /\ c.age = 1 + W - c.z_e
      /\ CvtAged = 2 + W - c.z_e /\ CvtAged \in 0 .. W + 4
      /\ BitOf(c.z_m, F) = 0 /\ c.z_m \in 0 .. P - 1
  <2>1. c.z_m \in 0 .. 2 * P - 1 /\ P \in Nat
    BY Convert2Facts, CvtWidths
  <2>2. QED
    BY <2>1, Convert2Facts
<1>2. c' = [c EXCEPT !.z_e = ze, !.z_m = zm, !.z_r = zr, !.age = CvtAged]
  BY <1>1, CvtConvert2, Zenon
<1>3. /\ q \in Nat \ {0} /\ k = 2 * q /\ k \in Nat \ {0} /\ P \in Nat \ {0, 1}
      /\ Pow2[W - 1] = P * k /\ Pow2[W - 1] \in Nat \ {0}
  BY CvtWidths, PowNat
<1>4. Joined < Pow2[W - 1] /\ Joined \in Nat
  <2> DEFINE X == c.z_m * k
             Z == P * k
  <2>1. X + k <= Z /\ X \in Nat /\ Z \in Nat
    <3>1. PICK i \in Nat : P = c.z_m + 1 + i
      BY <1>1, <1>3, P - c.z_m - 1 \in Nat
    <3>2. P * k = c.z_m * k + k + i * k /\ i * k \in Nat /\ c.z_m * k \in Nat
      BY <1>1, <1>3, <3>1
    <3> HIDE DEF k
    <3>3. QED
      BY <1>3, <3>2
  <2>2. Joined = X + c.z_r /\ Pow2[W - 1] = Z
    BY <1>3 DEF Joined
  <2> HIDE DEF k, X, Z
  <2>3. QED
    BY <1>1, <1>3, <2>1, <2>2
<1>5. c.z_e # 0
  <2>1. SUFFICES ASSUME c.z_e = 0 PROVE FALSE
    OBVIOUS
  <2>2. Joined = Y
    BY <1>1, <1>4, <2>1, PowStep
  <2>3. Y >= Pow2[W - 1] /\ Y \in Nat
    <3>1. \A u \in Nat \ {0}, w \in Nat \ {0} : u * w >= w /\ u * w \in Nat
      <4>1. TAKE u \in Nat \ {0}, w \in Nat \ {0}
      <4>2. (u - 1) * w \in Nat /\ u * w = (u - 1) * w + w
        BY u - 1 \in Nat
      <4>3. QED
        BY <4>2
    <3>2. QED
      BY <1>1, <1>3, <3>1
  <2> HIDE DEF Y
  <2>4. QED
    BY <1>3, <1>4, <2>2, <2>3
<1>6. c.z_e - 1 \in Nat /\ ze = c.z_e - 1 /\ ze \in 0 .. Pow2[EB] - 1 /\ ze \in 0 .. W - 1
  <2>1. c.z_e - 1 \in 0 .. Pow2[EB] - 1 /\ Pow2[EB] \in Nat \ {0} /\ c.z_e - 1 \in Nat
        /\ c.z_e - 1 \in 0 .. W - 1
    BY <1>1, <1>5, CvtWidths
  <2>2. ze = c.z_e - 1
    BY <2>1, Small
  <2> HIDE DEF ze
  <2>3. QED
    BY <2>1, <2>2
<1>7. Pow2[c.z_e] = 2 * A /\ A \in Nat \ {0}
  <2>1. c.z_e - 1 + 1 = c.z_e
    BY <1>1
  <2>2. QED
    BY <1>6, <2>1, PowStep, PowNat
<1>8. /\ bit \in {0, 1} /\ zr \in 0 .. k - 1
      /\ (2 * c.z_m + bit) * k + zr = 2 * (c.z_m * k + c.z_r)
  <2>1. c.z_r \in 0 .. 2 * q - 1 /\ c.z_m \in Nat /\ bit = (c.z_r \div q) % 2
        /\ zr = (2 * c.z_r) % (2 * q)
    BY <1>1, <1>3 DEF BitOf
  <2> HIDE DEF bit, zr, q
  <2>2. /\ bit \in {0, 1} /\ zr \in 0 .. (2 * q) - 1
        /\ (2 * c.z_m + bit) * (2 * q) + zr = 2 * (c.z_m * (2 * q) + c.z_r)
    BY <1>3, <2>1, ShiftsOn
  <2> HIDE DEF k
  <2>3. QED
    BY <1>3, <2>2
<1> HIDE DEF bit, zr
<1>9. zm = 2 * c.z_m + bit /\ zm \in 0 .. Pow2[F + 1] - 1
  <2>1. 2 * c.z_m + bit \in 0 .. Pow2[F + 1] - 1 /\ Pow2[F + 1] \in Nat \ {0}
    BY <1>1, <1>8, CvtWidths
  <2>2. QED
    BY <2>1, Small
<1> HIDE DEF zm, ze, k
<1>10. zm * k + zr = 2 * Joined
  <2>1. Joined = c.z_m * k + c.z_r
    BY DEF Joined, k
  <2>2. QED
    BY <1>8, <1>9, <2>1
<1>11. (zm * k + zr) * A = Y
  <2> HIDE DEF A, Y
  <2>1. (2 * Joined) * A = Joined * (2 * A)
    BY <1>4, <1>7
  <2>2. QED
    BY <1>1, <1>7, <1>10, <2>1
<1>12. c' \in CvtRegs
  <2>1. zr \in 0 .. Pow2[R] - 1
    BY <1>8 DEF k
  <2>2. QED
    BY <1>1, <1>2, <1>6, <1>9, <2>1, CvtAssign, CvtAssignData, Zenon
<1>13. /\ c'.state = "convert_2" /\ c'.z_e = ze /\ c'.z_m = zm /\ c'.z_r = zr
       /\ c'.age = CvtAged
       /\ c'.a = c.a /\ c'.value = c.value /\ c'.z_s = c.z_s
  BY <1>1, <1>2 DEF CvtRegs
<1>14. c'.z_e <= W - 1 /\ Joined' * Pow2[c'.z_e] = c'.value * Pow2[W - 1]
       /\ c'.age = 1 + W - c'.z_e
  <2>1. Joined' = zm * k + zr
    BY <1>13 DEF Joined, k
  <2>2. Pow2[c'.z_e] = A
    BY <1>6, <1>13
  <2>3. c'.z_e <= W - 1 /\ c'.age = 1 + W - c'.z_e
    BY <1>1, <1>6, <1>13, CvtWidths
  <2>4. QED
    BY <1>11, <1>13, <2>1, <2>2, <2>3
<1>15. QED
  BY <1>1, <1>12, <1>13, <1>14 DEF CvtInv, Normalising, CvtWorking

\* convert_2 that ends: the rest becomes guard, round and sticky bit.
LEMMA Convert2Ends ==
  ASSUME CvtInv, Cvt!Convert2, ~(c.z_m < P)
  PROVE  CvtInv'
<1> DEFINE q == Pow2[R - 2]
           g == BitOf(c.z_r, R - 1)
           r == BitOf(c.z_r, R - 2)
           t == c.z_r % q
           s == IF t # 0 THEN 1 ELSE 0
<1>1. /\ c.state = "convert_2" /\ c \in CvtRegs /\ c.a # 0 /\ Absolute(c.a, c.value, c.z_s)
      /\ c.value \in 1 .. Pow2[W - 1]
      /\ c.z_e \in 0 .. W - 1 /\ Joined * Pow2[c.z_e] = c.value * Pow2[W - 1]
      /\ c.z_m \in 0 .. 2 * P - 1 /\ c.z_r \in 0 .. Pow2[R] - 1 /\ c.age = 1 + W - c.z_e
      /\ CvtAged = 2 + W - c.z_e /\ CvtAged \in 0 .. W + 4
      /\ BitOf(c.z_m, F) # 0
  BY Convert2Facts
<1>2. c' = [c EXCEPT !.guard = g, !.round_bit = r, !.sticky = s, !.state = "round",
                     !.age = CvtAged]
  BY <1>1, CvtConvert2, Zenon
<1>3. /\ q \in Nat \ {0} /\ Pow2[R] = 4 * q /\ Pow2[R - 1] = 2 * q /\ P \in Nat \ {0, 1}
      /\ Pow2[W - 1] = P * (4 * q) /\ Pow2[W - 1] \in Nat \ {0}
  BY CvtWidths
<1>4. /\ g \in {0, 1} /\ r \in {0, 1} /\ t \in 0 .. q - 1
      /\ c.z_r = 2 * (g * q) + r * q + t
  <2>1. c.z_r \in 0 .. 4 * q - 1 /\ g = (c.z_r \div (2 * q)) % 2 /\ r = (c.z_r \div q) % 2
    BY <1>1, <1>3 DEF BitOf
  <2> HIDE DEF q, g, r
  <2>2. QED
    BY <1>3, <2>1, LeadingBits
<1> HIDE DEF g, r, t, q
<1>5. s \in {0, 1} /\ (s = 0 <=> t = 0)
  BY <1>4
<1> HIDE DEF s
<1>6. Joined = c.z_m * (4 * q) + c.z_r /\ Joined \in Nat
  BY <1>1, <1>3 DEF Joined
<1>7. Between(Joined, Pow2[R], c.z_m, g, r, s)
  <2>1. c.z_m \in Nat /\ c.z_r \in Nat
    BY <1>1, <1>3
  <2>2. Rest(q, c.z_m, c.z_r, g, r, t, s)
    BY <1>3, <1>4, <1>5, <2>1 DEF Rest
  <2>3. Between(c.z_m * (4 * q) + c.z_r, 4 * q, c.z_m, g, r, s)
    BY <2>2, RestBracket
  <2>4. QED
    BY <1>3, <1>6, <2>3, Zenon
<1>8. c.z_e = W - 1 => g = 0
  <2>1. SUFFICES ASSUME c.z_e = W - 1 PROVE g = 0
    OBVIOUS
  <2>2. Joined = c.value
    BY <1>1, <1>3, <1>6, <2>1, Cancel
  <2>3. c.z_m * (4 * q) >= P * (4 * q)
    BY <1>1, <1>3
  <2>4. c.z_m * (4 * q) \in Int /\ P * (4 * q) \in Int
    BY <1>1, <1>3
  <2>5. c.z_r = 0
    <3> DEFINE X == c.z_m * (4 * q)
               Z == P * (4 * q)
    <3>1. Joined = X + c.z_r /\ X >= Z /\ Joined <= Z /\ X \in Int /\ Z \in Int
      BY <1>1, <1>3, <1>6, <2>2, <2>3, <2>4
    <3> HIDE DEF X, Z
    <3>2. QED
      BY <1>1, <3>1
  <2>6. ASSUME g = 1 PROVE FALSE
    <3>1. g * q = q /\ r * q \in Nat
      BY <1>3, <1>4, <2>6
    <3>2. QED
      BY <1>3, <1>4, <2>5, <3>1
  <2>7. QED
    BY <1>4, <2>6
<1>9. c' \in CvtRegs
  <2>1. "round" \in CvtWorking \cup {"get_a", "put_z"} /\ g \in Bit /\ r \in Bit /\ s \in Bit
    BY <1>4, <1>5 DEF CvtWorking, Bit
  <2>2. QED
    BY <1>1, <1>2, <2>1, CvtAssign, CvtAssignData, Zenon
<1>10. /\ c'.state = "round" /\ c'.guard = g /\ c'.round_bit = r /\ c'.sticky = s
       /\ c'.age = CvtAged /\ c'.a = c.a /\ c'.value = c.value /\ c'.z_s = c.z_s
       /\ c'.z_m = c.z_m /\ c'.z_r = c.z_r /\ c'.z_e = c.z_e
  BY <1>1, <1>2 DEF CvtRegs
<1>11. /\ Joined' = Joined /\ c'.z_m >= P
       /\ Between(Joined', Pow2[R], c'.z_m, c'.guard, c'.round_bit, c'.sticky)
       /\ c'.z_e = W - 1 => c'.guard = 0
       /\ c'.z_e <= W - 1 /\ Joined' * Pow2[c'.z_e] = c'.value * Pow2[W - 1]
       /\ c'.age = 2 + W - c'.z_e
  <2>1. Joined' = Joined
    BY <1>10 DEF Joined
  <2>2. c.z_m >= P
    BY <1>1, <1>3
  <2>3. QED
    BY <1>1, <1>7, <1>8, <1>10, <2>1, <2>2
<1>12. QED
  BY <1>1, <1>9, <1>10, <1>11 DEF CvtInv, Normalising, CvtWorking

\* Rounding a word is rounding its magnitude.
LEMMA ConvertedIs ==
  ASSUME c \in CvtRegs, c.a # 0, Absolute(c.a, c.value, c.z_s)
  PROVE  Converted(c.a) = Round(c.z_s, c.value, 1)
<1>1. c.a \in Nat /\ c.a < Pow2[W] /\ Pow2[W - 1] \in Nat \ {0} /\ Pow2[W] = 2 * Pow2[W - 1]
  BY CvtFields, CvtWidths
<1>2. CASE c.a < Pow2[W - 1]
  <2>1. c.value = c.a /\ c.z_s = 0
    BY <1>2 DEF Absolute
  <2>2. Converted(c.a) = OfInteger(c.a) /\ ~(c.a < 0)
    BY <1>1, <1>2 DEF Converted
  <2>3. QED
    BY <2>1, <2>2 DEF OfInteger
<1>3. CASE ~(c.a < Pow2[W - 1])
  <2> DEFINE n == c.a - Pow2[W]
  <2>1. c.value = Pow2[W] - c.a /\ c.z_s = 1
    BY <1>3 DEF Absolute
  <2>2. n < 0 /\ -n = c.value
    BY <1>1, <2>1
  <2>3. Converted(c.a) = OfInteger(n)
    BY <1>3 DEF Converted
  <2> HIDE DEF n
  <2>4. OfInteger(n) = Round(1, -n, 1)
    BY <2>2, Zenon DEF OfInteger
  <2>5. QED
    BY <2>1, <2>2, <2>3, <2>4
<1>4. QED
  BY <1>2, <1>3

\* The mantissa and the bits below it, as a part of the integer.
LEMMA IntegerPart ==
  ASSUME CvtInv, c.state = "round"
  PROVE  /\ c.value \in Nat /\ c.z_e \in 0 .. W - 1 /\ c.z_m \in P .. 2 * P - 1
         /\ c.guard \in {0, 1} /\ c.round_bit \in {0, 1} /\ c.sticky \in {0, 1}
         /\ Between(One * c.value, Pow2[c.z_e + Bias - 1] * 1,
                    c.z_m, c.guard, c.round_bit, c.sticky)
<1> DEFINE J == Joined
           K == Pow2[R]
           e == c.z_e
           v == c.value
           A == Pow2[e + Bias - 1]
           B == Pow2[Bias - 1]
<1>1. /\ c \in CvtRegs /\ c.a # 0 /\ Absolute(c.a, c.value, c.z_s)
      /\ e <= W - 1 /\ J * Pow2[e] = v * Pow2[W - 1] /\ c.z_m >= P
      /\ Between(J, K, c.z_m, c.guard, c.round_bit, c.sticky)
  BY DEF CvtInv, Normalising
<1>2. /\ v \in Nat /\ e \in 0 .. W - 1 /\ c.z_m \in P .. 2 * P - 1
      /\ c.guard \in {0, 1} /\ c.round_bit \in {0, 1} /\ c.sticky \in {0, 1}
      /\ c.z_m \in Nat /\ c.z_r \in Nat
  BY <1>1, CvtFields, CvtWidths
<1>3. K \in Nat \ {0} /\ J \in Nat
  <2>1. K \in Nat \ {0}
    BY CvtWidths, PowNat
  <2>2. J = c.z_m * K + c.z_r
    BY DEF Joined
  <2> HIDE DEF K, J
  <2>3. QED
    BY <1>2, <2>1, <2>2
<1>4. /\ e \in Nat /\ Bias - 1 \in Nat /\ e + Bias - 1 \in Nat /\ R \in Nat /\ W - 1 \in Nat
      /\ e + Bias - 1 = e + (Bias - 1) /\ Bias + F - 1 \in Nat
      /\ (W - 1) + (Bias - 1) = (Bias + F - 1) + R
  BY <1>2, CvtWidths
<1>5. /\ A = Pow2[e] * B /\ Pow2[W - 1] * B = One * K
      /\ A \in Nat \ {0} /\ One \in Nat \ {0} /\ B \in Nat \ {0} /\ Pow2[e] \in Nat \ {0}
      /\ Pow2[W - 1] \in Nat \ {0}
  <2>1. /\ Pow2[e + (Bias - 1)] = Pow2[e] * B
        /\ Pow2[(W - 1) + (Bias - 1)] = Pow2[W - 1] * B
        /\ Pow2[(Bias + F - 1) + R] = Pow2[Bias + F - 1] * K
    BY <1>4, PowSum, Zenon
  <2>2. A = Pow2[e] * B /\ Pow2[W - 1] * B = One * K
    BY <1>4, <2>1, Zenon DEF One
  <2>3. QED
    BY <1>4, <2>2, PowNat, FormatRange
<1>6. J * (A * 1) = (One * v) * K
  <2> DEFINE X == Pow2[e]
             Y == Pow2[W - 1]
             O == One
  <2>1. /\ A = X * B /\ Y * B = O * K /\ J * X = v * Y
        /\ X \in Nat /\ Y \in Nat /\ O \in Nat /\ B \in Nat /\ K \in Nat /\ J \in Nat /\ v \in Nat
    BY <1>1, <1>2, <1>3, <1>5
  <2> HIDE DEF X, Y, O, B, K, J, v, A
  <2>2. J * (A * 1) = (J * X) * B
    BY <2>1
  <2>3. (v * Y) * B = v * (Y * B)
    BY <2>1
  <2>4. v * (O * K) = (O * v) * K
    BY <2>1
  <2>5. J * (A * 1) = (O * v) * K
    BY <2>1, <2>2, <2>3, <2>4
  <2>6. QED
    BY <2>5 DEF O
<1>7. A * 1 \in Nat \ {0} /\ One * v \in Nat
  <2> HIDE DEF A, v
  <2>1. QED
    BY <1>2, <1>5
<1> DEFINE A2 == A * 1
           x2 == One * v
<1>8. Between(x2, A2, c.z_m, c.guard, c.round_bit, c.sticky)
  <2> HIDE DEF J, K, A, v, A2, x2
  <2>1. Bracket(J, K, c.z_m, c.guard, c.round_bit, c.sticky)
    BY <1>1, <1>2, <1>3 DEF Bracket
  <2>2. SameRatio(J, K, x2, A2)
    BY <1>6, <1>7 DEF SameRatio, x2, A2
  <2>3. QED
    BY <2>1, <2>2, Rescale
<1>9. QED
  BY <1>2, <1>8

\* round: what is rounded is, packed, the float nearest to the word's value.
LEMMA CvtRoundKeeps ==
  ASSUME CvtInv, Cvt!RoundZ
  PROVE  CvtInv'
<1> DEFINE up == Upwards(c.z_m, c.guard, c.round_bit, c.sticky)
           nm == IF up THEN (c.z_m + 1) % (2 * P) ELSE c.z_m
           ne == IF up /\ c.z_m = 2 * P - 1 THEN c.z_e + 1 ELSE c.z_e
<1>1. /\ c.state = "round" /\ c \in CvtRegs /\ c.a # 0 /\ Absolute(c.a, c.value, c.z_s)
      /\ c.z_e = W - 1 => c.guard = 0
      /\ c.age = 2 + W - c.z_e
  BY CvtRoundZ DEF CvtInv, Normalising
<1>2. /\ c.value \in Nat /\ c.z_e \in 0 .. W - 1 /\ c.z_m \in P .. 2 * P - 1
      /\ c.guard \in {0, 1} /\ c.round_bit \in {0, 1} /\ c.sticky \in {0, 1}
      /\ Between(One * c.value, Pow2[c.z_e + Bias - 1] * 1,
                 c.z_m, c.guard, c.round_bit, c.sticky)
  BY <1>1, IntegerPart
<1>3. /\ W \in Nat /\ W - 1 <= Bias /\ Bias \in Nat \ {0} /\ P \in Nat \ {0, 1}
      /\ Pow2[EB] = 2 * Bias + 2 /\ Pow2[F + 1] = 2 * P /\ W - 1 >= 3 /\ P = Pow2[F]
  BY CvtWidths DEF P
<1>4. ne \in 0 .. W - 1 /\ nm \in 0 .. 2 * P - 1 /\ (nm < P => nm = 0)
  <2>1. up => c.guard = 1
    BY DEF Upwards
  <2>2. ne \in 0 .. W - 1
    BY <1>1, <1>2, <1>3, <2>1
  <2>3. nm \in 0 .. 2 * P - 1 /\ (nm < P => nm = 0)
    <3> DEFINE z == c.z_m
               k == 2 * P
    <3>1. z \in P .. k - 1 /\ k \in Nat \ {0} /\ P \in Nat \ {0, 1} /\ k = 2 * P
      BY <1>2, <1>3
    <3> HIDE DEF z, k
    <3>2. CASE z = k - 1
      <4>1. (z + 1) % k = 0
        BY <3>1, <3>2, z + 1 \in k .. 2 * k - 1, Once
      <4>2. QED
        BY <3>1, <4>1 DEF z, k
    <3>3. CASE z # k - 1
      <4>1. (z + 1) % k = z + 1
        BY <3>1, <3>3, z + 1 \in 0 .. k - 1, Small
      <4>2. z + 1 \in P .. k - 1
        BY <3>1, <3>3
      <4>3. QED
        BY <3>1, <4>1, <4>2 DEF z, k
    <3>4. QED
      BY <3>2, <3>3
  <2>4. QED
    BY <2>2, <2>3
<1>5. c' = [c EXCEPT !.z_m = nm, !.z_e = ne, !.state = "pack", !.age = CvtAged]
  <2>1. CvtUp <=> up
    BY Zenon DEF CvtUp, Upwards
  <2>2. (c.z_e + 1) % Pow2[EB] = c.z_e + 1
    <3>1. c.z_e + 1 \in 0 .. Pow2[EB] - 1 /\ Pow2[EB] \in Nat \ {0}
      BY <1>2, <1>3
    <3>2. QED
      BY <3>1, Small
  <2>3. c' = [c EXCEPT !.z_m = IF CvtUp THEN (c.z_m + 1) % Pow2[F + 1] ELSE c.z_m,
                       !.z_e = IF CvtUp /\ c.z_m = Pow2[F + 1] - 1 THEN (c.z_e + 1) % Pow2[EB]
                                                                    ELSE c.z_e,
                       !.state = "pack", !.age = CvtAged]
    BY CvtRoundZ, Zenon
  <2> HIDE DEF up
  <2>4. QED
    BY <1>3, <2>1, <2>2, <2>3
<1>6. PackOf(c.z_s, ne, nm) = Converted(c.a) /\ c.z_s \in {0, 1}
  <2>1. c.z_s \in {0, 1}
    BY <1>1, CvtFields
  <2>2. Rounding(c.value, 1, c.z_e, c.z_m, c.guard, c.round_bit, c.sticky, ne, nm)
    <3>1. c.z_e \in Int /\ c.z_e >= 1 - Bias /\ c.z_m \in 0 .. 2 * P - 1 /\ c.z_m >= P
          /\ 1 \in Nat \ {0}
      BY <1>2, <1>3
    <3>2. QED
      BY <1>2, <3>1, Zenon DEF Rounding
  <2>3. PackOf(c.z_s, ne, nm) = Round(c.z_s, c.value, 1)
    BY <2>1, <2>2, RoundAndPack
  <2>4. QED
    BY <1>1, <2>1, <2>3, ConvertedIs
<1> HIDE DEF up, nm, ne
<1>7. CvtAged = c.age + 1 /\ CvtAged \in 0 .. W + 4
  BY <1>1, <1>2, <1>3, CvtAgedIs
<1>8. c' \in CvtRegs
  <2>1. "pack" \in CvtWorking \cup {"get_a", "put_z"} /\ nm \in 0 .. Pow2[F + 1] - 1
        /\ ne \in 0 .. Pow2[EB] - 1
    BY <1>3, <1>4 DEF CvtWorking
  <2>2. QED
    BY <1>1, <1>5, <1>7, <2>1, CvtAssign, CvtAssignData, Zenon
<1>9. /\ c'.state = "pack" /\ c'.age = c.age + 1 /\ c'.z_s = c.z_s /\ c'.z_e = ne
      /\ c'.z_m = nm /\ c'.a = c.a
  BY <1>1, <1>5, <1>7 DEF CvtRegs
<1>10. CvtPacked' = Converted(c'.a)
  <2>1. CvtPacked' = [s |-> c.z_s, e |-> (ne + Bias) % Pow2[EB], f |-> nm % P]
    BY <1>3, <1>9 DEF CvtPacked
  <2>2. ~(ne > Bias) /\ ne # 1 - Bias
    BY <1>3, <1>4
  <2>3. PackOf(c.z_s, ne, nm) = [s |-> c.z_s, f |-> nm % P, e |-> (ne + Bias) % Pow2[EB]]
    BY <2>2 DEF PackOf
  <2>4. QED
    BY <1>6, <1>9, <2>1, <2>3
<1>11. c'.age \in {1} \cup 4 .. W + 3
  BY <1>1, <1>2, <1>3, <1>9
<1>12. QED
  BY <1>8, <1>9, <1>10, <1>11 DEF CvtInv, Normalising, CvtWorking

\* In the states of the handshake CvtInv says little.
LEMMA CvtIdleNext ==
  ASSUME c' \in CvtRegs, c'.state \in {"get_a", "convert_0"}, c'.age = 0
  PROVE  CvtInv'
BY DEF CvtInv, Normalising, CvtWorking

\* Power-up.
LEMMA CvtInit ==
  ASSUME Cvt!Init
  PROVE  CvtInv /\ c.state = "get_a" /\ c.convert_valid_o = FALSE
<1>1. PICK w \in PowerUpWords, r \in PowerUp, o \in PowerUp :
        c = [state |-> "get_a", s_input_a_ack |-> FALSE, s_output_z_stb |-> FALSE,
             convert_valid_o |-> FALSE, a |-> w, z |-> r, s_output_z |-> o, value |-> 0,
             z_m |-> 0, z_r |-> 0, z_e |-> 0, z_s |-> 0,
             guard |-> 0, round_bit |-> 0, sticky |-> 0, age |-> 0]
  BY DEF Cvt!Init
<1>2. w \in 0 .. Pow2[W] - 1 /\ r \in Float /\ o \in Float
  BY CvtWidths, DividerAssumption
<1>3. /\ 0 \in 0 .. Pow2[W] - 1 /\ 0 \in 0 .. Pow2[F + 1] - 1 /\ 0 \in 0 .. Pow2[R] - 1
      /\ 0 \in 0 .. Pow2[EB] - 1 /\ 0 \in Bit /\ 0 \in 0 .. W + 4
  <2>1. Pow2[R] \in Nat \ {0} /\ Pow2[W] \in Nat \ {0} /\ Pow2[F + 1] \in Nat \ {0}
    BY CvtWidths, PowNat
  <2>2. QED
    BY <2>1, CvtWidths DEF Bit
<1>4. c \in CvtRegs
  BY <1>1, <1>2, <1>3 DEF CvtRegs
<1>5. c.state = "get_a" /\ c.age = 0 /\ c.convert_valid_o = FALSE
  BY <1>1
<1>6. QED
  BY <1>4, <1>5 DEF CvtInv, Normalising, CvtWorking

\* get_a: the operand is taken or waited for.
LEMMA CvtGetAKeeps ==
  ASSUME CvtInv, NEW en, NEW v \in 0 .. Pow2[W] - 1, Cvt!GetA(en, v)
  PROVE  /\ CvtInv' /\ c'.convert_valid_o = FALSE /\ c'.state \in {"get_a", "convert_0"}
         /\ c'.state = "convert_0" => c'.a = v
<1>1. c.state = "get_a" /\ c \in CvtRegs /\ c.age = 0
  BY CvtGetA DEF CvtInv, CvtWorking
<1>2. "convert_0" \in CvtWorking \cup {"get_a", "put_z"} /\ TRUE \in BOOLEAN /\ FALSE \in BOOLEAN
  BY DEF CvtWorking
<1>3. CASE c.s_input_a_ack /\ en
  <2>1. c' = [c EXCEPT !.convert_valid_o = FALSE, !.s_input_a_ack = FALSE, !.a = v,
                       !.state = "convert_0"]
    BY <1>3, CvtGetA
  <2>2. c' \in CvtRegs
    BY <1>1, <1>2, <2>1, CvtAssign, Zenon
  <2>3. c'.state = "convert_0" /\ c'.age = 0 /\ c'.convert_valid_o = FALSE /\ c'.a = v
    BY <1>1, <2>1 DEF CvtRegs
  <2>4. QED
    BY <2>2, <2>3, CvtIdleNext
<1>4. CASE ~(c.s_input_a_ack /\ en)
  <2>1. c' = [c EXCEPT !.convert_valid_o = FALSE, !.s_input_a_ack = TRUE]
    BY <1>4, CvtGetA
  <2>2. c' \in CvtRegs
    BY <1>1, <1>2, <2>1, CvtAssign, Zenon
  <2>3. c'.state = "get_a" /\ c'.age = 0 /\ c'.convert_valid_o = FALSE
    BY <1>1, <2>1 DEF CvtRegs
  <2>4. QED
    BY <2>2, <2>3, CvtIdleNext
<1>5. QED
  BY <1>3, <1>4

\* What pack stores is the converted word, a float.
LEMMA CvtPackedFloat ==
  ASSUME CvtInv, c.state = "pack"
  PROVE  CvtPacked \in Float /\ CvtPacked = Converted(c.a)
<1>1. c \in CvtRegs /\ CvtPacked = Converted(c.a)
  BY DEF CvtInv
<1>2. c.z_s \in {0, 1} /\ c.z_m \in Nat /\ c.z_e + Bias \in Nat
  BY <1>1, CvtFields, CvtWidths
<1>3. Pow2[F] \in Nat \ {0} /\ Pow2[EB] \in Nat \ {0} /\ EMax = Pow2[EB] - 1
  BY CvtWidths DEF P, EMax
<1>4. c.z_m % Pow2[F] \in 0 .. Pow2[F] - 1 /\ (c.z_e + Bias) % Pow2[EB] \in 0 .. EMax
  <2> DEFINE z == c.z_m
             e == c.z_e + Bias
             k == Pow2[F]
             q == Pow2[EB]
  <2>1. z \in Int /\ e \in Int /\ k \in Nat \ {0} /\ q \in Nat \ {0}
    BY <1>2, <1>3
  <2> HIDE DEF z, e, q, k
  <2>2. z % k \in 0 .. k - 1 /\ e % q \in 0 .. q - 1
    BY <2>1, Division
  <2>3. QED
    BY <1>3, <2>2 DEF z, e, q, k
<1>5. QED
  BY <1>1, <1>2, <1>4 DEF CvtPacked, Float

\* pack: the result is the conversion, and the age is a latency of the converter.
LEMMA CvtPackKeeps ==
  ASSUME CvtInv, Cvt!Pack
  PROVE  CvtInv' /\ c.age + 1 \in {2} \cup 5 .. W + 4
<1>1. c.state = "pack" /\ c \in CvtRegs /\ c.age \in {1} \cup 4 .. W + 3
  BY CvtPack DEF CvtInv
<1>2. CvtPacked \in Float /\ CvtPacked = Converted(c.a)
  BY <1>1, CvtPackedFloat
<1>3. c' = [c EXCEPT !.z = CvtPacked, !.state = "put_z", !.age = 0]
  BY CvtPack
<1>4. "put_z" \in CvtWorking \cup {"get_a", "put_z"} /\ 0 \in 0 .. W + 4
  BY CvtWidths
<1>5. c' \in CvtRegs
  BY <1>1, <1>2, <1>3, <1>4, CvtAssign, Zenon
<1>6. c'.state = "put_z" /\ c'.z = CvtPacked /\ c'.a = c.a /\ c'.age = 0
  BY <1>1, <1>3 DEF CvtRegs
<1>7. c.age + 1 \in {2} \cup 5 .. W + 4
  BY <1>1, CvtWidths
<1>8. QED
  BY <1>2, <1>5, <1>6, <1>7 DEF CvtInv, Normalising, CvtWorking

\* put_z: what is handed over is the conversion of the operand.
LEMMA CvtPutKeeps ==
  ASSUME CvtInv, Cvt!PutZ
  PROVE  /\ CvtInv' /\ c'.s_output_z = Converted(c.a) /\ c.state = "put_z"
         /\ c'.state \in {"get_a", "put_z"} /\ c'.a = c.a
<1>1. /\ c.state = "put_z" /\ c \in CvtRegs /\ c.age = 0 /\ c.z = Converted(c.a)
      /\ c.z \in Float
  BY CvtPutZ, CvtFields DEF CvtInv, CvtWorking
<1>2. "get_a" \in CvtWorking \cup {"get_a", "put_z"} /\ TRUE \in BOOLEAN /\ FALSE \in BOOLEAN
  OBVIOUS
<1>3. CASE c.s_output_z_stb
  <2>1. c' = [c EXCEPT !.s_output_z = c.z, !.convert_valid_o = TRUE,
                       !.s_output_z_stb = FALSE, !.state = "get_a"]
    BY <1>3, CvtPutZ
  <2>2. c' \in CvtRegs
    BY <1>1, <1>2, <2>1, CvtAssign, Zenon
  <2>3. c'.state = "get_a" /\ c'.age = 0 /\ c'.s_output_z = c.z /\ c'.a = c.a
    BY <1>1, <2>1 DEF CvtRegs
  <2>4. QED
    BY <1>1, <2>2, <2>3, CvtIdleNext
<1>4. CASE ~c.s_output_z_stb
  <2>1. c' = [c EXCEPT !.s_output_z = c.z, !.convert_valid_o = TRUE,
                       !.s_output_z_stb = TRUE]
    BY <1>4, CvtPutZ
  <2>2. c' \in CvtRegs
    BY <1>1, <1>2, <2>1, CvtAssign, Zenon
  <2>3. /\ c'.state = "put_z" /\ c'.age = 0 /\ c'.s_output_z = c.z /\ c'.a = c.a
        /\ c'.z = c.z
    BY <1>1, <2>1 DEF CvtRegs
  <2>4. QED
    BY <1>1, <2>2, <2>3 DEF CvtInv, Normalising, CvtWorking
<1>5. QED
  BY <1>3, <1>4

\* Reset, with what the unconditional assignments of the same edge leave.
LEMMA CvtResetKeeps ==
  ASSUME CvtInv, NEW v \in 0 .. Pow2[W] - 1, Cvt!ResetWith(v)
  PROVE  CvtInv'
<1> DEFINE nz == IF c.state = "pack" THEN CvtPacked ELSE c.z
           no == IF c.state = "put_z" THEN c.z ELSE c.s_output_z
<1>1. c \in CvtRegs /\ c.z \in Float /\ c.s_output_z \in Float
  BY CvtFields DEF CvtInv
<1>2. nz \in Float /\ no \in Float
  BY <1>1, CvtPackedFloat
<1>3. c' = [c EXCEPT !.state = "get_a", !.s_input_a_ack = FALSE, !.s_output_z_stb = FALSE,
                     !.convert_valid_o = FALSE, !.age = 0, !.a = v,
                     !.z = nz, !.s_output_z = no]
  BY CvtReset, Zenon
<1> HIDE DEF nz, no
<1>4. "get_a" \in CvtWorking \cup {"get_a", "put_z"} /\ FALSE \in BOOLEAN /\ 0 \in 0 .. W + 4
  BY CvtWidths
<1>5. c' \in CvtRegs
  <2> DEFINE r1 == [c EXCEPT !.state = "get_a", !.s_input_a_ack = FALSE,
                             !.s_output_z_stb = FALSE, !.convert_valid_o = FALSE]
             r2 == [r1 EXCEPT !.age = 0, !.a = v, !.z = nz, !.s_output_z = no]
  <2>1. r1 \in CvtRegs
    BY <1>1, <1>4, CvtAssign, Zenon
  <2>2. c' = r2
    BY <1>3
  <2> HIDE DEF r1
  <2>3. r2 \in CvtRegs
    BY <1>2, <1>4, <2>1, CvtAssign, Zenon
  <2>4. QED
    BY <2>2, <2>3
<1>6. c'.state = "get_a" /\ c'.age = 0
  BY <1>1, <1>3 DEF CvtRegs
<1>7. QED
  BY <1>5, <1>6, CvtIdleNext

\* What the working states leave alone.
CvtKept ==
  /\ c'.a = c.a /\ c'.s_output_z = c.s_output_z /\ c'.s_input_a_ack = c.s_input_a_ack
  /\ c'.s_output_z_stb = c.s_output_z_stb /\ c'.convert_valid_o = c.convert_valid_o

\* A working state that does not end the work.
CvtInner == c'.state \in CvtWorking /\ c'.age = CvtAged /\ c'.z = c.z

\* Every working state keeps the invariant.
LEMMA CvtComputeKeeps ==
  ASSUME CvtInv, Cvt!Compute
  PROVE  CvtInv'
<1>1. CASE Cvt!Convert2
  BY <1>1, Convert2Shifts, Convert2Ends
<1>2. QED
  BY <1>1, Convert0Keeps, Convert1Keeps, CvtRoundKeeps, CvtPackKeeps DEF Cvt!Compute

\* A working step is an inner one, or it is pack.
LEMMA CvtComputeSteps ==
  ASSUME c \in CvtRegs, Cvt!Compute
  PROVE  /\ c.state \in CvtWorking /\ CvtKept
         /\ (CvtInner /\ c.state # "pack") \/ Cvt!Pack
<1> USE DEF CvtRegs, CvtKept, CvtInner, CvtWorking
<1>1. CASE Cvt!Convert0
  <2> DEFINE v == IF BitOf(c.a, W - 1) = 1 THEN Pow2[W] - c.a ELSE c.a
             s == BitOf(c.a, W - 1)
             e == -Bias % Pow2[EB]
  <2>1. /\ c.state = "convert_0"
        /\ \/ c' = [c EXCEPT !.z_s = 0, !.z_m = 0, !.z_e = e, !.state = "pack", !.age = CvtAged]
           \/ c' = [c EXCEPT !.value = v, !.z_s = s, !.state = "convert_1", !.age = CvtAged]
    BY <1>1, CvtConvert0, Zenon
  <2> HIDE DEF v, s, e
  <2>2. ASSUME c' = [c EXCEPT !.z_s = 0, !.z_m = 0, !.z_e = e, !.state = "pack",
                              !.age = CvtAged]
        PROVE  CvtKept /\ CvtInner
    BY <2>2
  <2>3. ASSUME c' = [c EXCEPT !.value = v, !.z_s = s, !.state = "convert_1", !.age = CvtAged]
        PROVE  CvtKept /\ CvtInner
    BY <2>3
  <2>4. c.state \in CvtWorking /\ c.state # "pack"
    BY <2>1
  <2>5. QED
    BY <2>1, <2>2, <2>3, <2>4, Zenon
<1>2. CASE Cvt!Convert1
  <2> DEFINE m == c.value \div Pow2[R]
             r == c.value % Pow2[R]
  <2>1. /\ c.state = "convert_1"
        /\ c' = [c EXCEPT !.z_e = W - 1, !.z_m = m, !.z_r = r, !.state = "convert_2",
                          !.age = CvtAged]
    BY <1>2, CvtConvert1, Zenon
  <2> HIDE DEF m, r
  <2>2. CvtKept /\ CvtInner
    BY <2>1
  <2>3. c.state \in CvtWorking /\ c.state # "pack"
    BY <2>1
  <2>4. QED
    BY <2>2, <2>3, Zenon
<1>3. CASE Cvt!Convert2
  <2> DEFINE e == (c.z_e - 1) % Pow2[EB]
             m == (2 * c.z_m + BitOf(c.z_r, R - 1)) % Pow2[F + 1]
             n == (2 * c.z_r) % Pow2[R]
             g == BitOf(c.z_r, R - 1)
             r == BitOf(c.z_r, R - 2)
             t == IF c.z_r % Pow2[R - 2] # 0 THEN 1 ELSE 0
  <2>1. /\ c.state = "convert_2"
        /\ \/ c' = [c EXCEPT !.z_e = e, !.z_m = m, !.z_r = n, !.age = CvtAged]
           \/ c' = [c EXCEPT !.guard = g, !.round_bit = r, !.sticky = t, !.state = "round",
                             !.age = CvtAged]
    BY <1>3, CvtConvert2, Zenon
  <2> HIDE DEF e, m, n, g, r, t
  <2>2. ASSUME c' = [c EXCEPT !.z_e = e, !.z_m = m, !.z_r = n, !.age = CvtAged]
        PROVE  CvtKept /\ CvtInner
    BY <2>1, <2>2
  <2>3. ASSUME c' = [c EXCEPT !.guard = g, !.round_bit = r, !.sticky = t, !.state = "round",
                             !.age = CvtAged]
        PROVE  CvtKept /\ CvtInner
    BY <2>3
  <2>4. c.state \in CvtWorking /\ c.state # "pack"
    BY <2>1
  <2>5. QED
    BY <2>1, <2>2, <2>3, <2>4, Zenon
<1>4. CASE Cvt!RoundZ
  <2> DEFINE m == IF CvtUp THEN (c.z_m + 1) % Pow2[F + 1] ELSE c.z_m
             e == IF CvtUp /\ c.z_m = Pow2[F + 1] - 1 THEN (c.z_e + 1) % Pow2[EB] ELSE c.z_e
  <2>1. /\ c.state = "round"
        /\ c' = [c EXCEPT !.z_m = m, !.z_e = e, !.state = "pack", !.age = CvtAged]
    BY <1>4, CvtRoundZ, Zenon
  <2> HIDE DEF m, e
  <2>2. CvtKept /\ CvtInner
    BY <2>1
  <2>3. c.state \in CvtWorking /\ c.state # "pack"
    BY <2>1
  <2>4. QED
    BY <2>2, <2>3, Zenon
<1>5. CASE Cvt!Pack
  <2>1. c.state = "pack" /\ c' = [c EXCEPT !.z = CvtPacked, !.state = "put_z", !.age = 0]
    BY <1>5, CvtPack
  <2>2. CvtKept
    BY <2>1
  <2>3. c.state \in CvtWorking
    BY <2>1
  <2>4. QED
    BY <1>5, <2>2, <2>3, Zenon
<1>6. QED
  BY <1>1, <1>2, <1>3, <1>4, <1>5, Zenon DEF Cvt!Compute

--------------------------------------------------------------------------------
(* The converter under its clients.                                         *)

\* What a patient client of the converter knows.
CvtServed ==
  cvtHolds =>
    /\ cvtX \in 0 .. Pow2[W] - 1
    /\ c.state # "get_a" => c.a = cvtX
    /\ c.convert_valid_o => c.s_output_z = Converted(cvtX)

\* The converter and its client.
ConverterInv == CvtInv /\ CvtServed

\* The words of the impatient client are words.
LEMMA FewWordsOK ==
  /\ Cvt!FewWords \subseteq 0 .. Pow2[W] - 1
  /\ Cvt!IntWords = 0 .. Pow2[W] - 1
<1>1. Pow2[F + 2] \in Nat \ {0} /\ Pow2[F + 2] <= Pow2[W]
  <2>1. F + 2 \in Nat /\ W \in Nat /\ F + 2 <= W
    BY CvtWidths
  <2>2. QED
    BY <2>1, PowNat, PowOrder
<1>2. Cvt!FewWords = {0, 1, Pow2[W - 1], Pow2[F + 2] - 1}
  BY CvtFormat DEF Cvt!FewWords
<1>3. Cvt!IntWords = 0 .. Pow2[W] - 1
  BY CvtFormat DEF Cvt!IntWords
<1>4. \A w \in Cvt!FewWords : w \in 0 .. Pow2[W] - 1
  <2>1. /\ Pow2[W - 1] \in Nat \ {0} /\ Pow2[W] = 2 * Pow2[W - 1] /\ Pow2[W] \in Nat \ {0}
    BY CvtWidths
  <2>2. /\ 0 \in 0 .. Pow2[W] - 1 /\ 1 \in 0 .. Pow2[W] - 1
        /\ Pow2[W - 1] \in 0 .. Pow2[W] - 1 /\ Pow2[F + 2] - 1 \in 0 .. Pow2[W] - 1
    BY <1>1, <2>1
  <2>3. QED
    BY <1>2, <2>2
<1>5. QED
  BY <1>3, <1>4

\* The client's start and its renewed beginning.
LEMMA ConverterStarts ==
  ASSUME Cvt!ClientInit \/ Cvt!Quiet
  PROVE  ConverterInv
<1>1. Cvt!Init /\ (cvtHolds => cvtX \in 0 .. Pow2[W] - 1)
  BY FewWordsOK DEF Cvt!ClientInit, Cvt!Quiet
<1>2. CvtInv /\ c.state = "get_a" /\ c.convert_valid_o = FALSE
  BY <1>1, CvtInit
<1>3. QED
  BY <1>1, <1>2 DEF ConverterInv, CvtServed

\* The steps of the converter under a client that holds its operand,
LEMMA CvtHoldKeeps ==
  ASSUME ConverterInv, Cvt!Hold
  PROVE  ConverterInv'
<1>1. /\ CvtInv /\ c \in CvtRegs /\ cvtHolds /\ cvtHolds' /\ cvtX' = cvtX
      /\ cvtX \in 0 .. Pow2[W] - 1
      /\ c.state # "get_a" => c.a = cvtX
      /\ c.convert_valid_o => c.s_output_z = Converted(cvtX)
  BY DEF ConverterInv, CvtServed, Cvt!Hold, CvtInv
<1>2. Converted(cvtX)' = Converted(cvtX)
  BY <1>1 DEF Converted
<1>3. CASE Cvt!GetA(TRUE, cvtX)
  <2>1. /\ CvtInv' /\ c'.convert_valid_o = FALSE /\ c'.state \in {"get_a", "convert_0"}
        /\ c'.state = "convert_0" => c'.a = cvtX
    BY <1>1, <1>3, CvtGetAKeeps
  <2>2. QED
    BY <1>1, <2>1 DEF ConverterInv, CvtServed
<1>4. CASE Cvt!Compute
  <2>1. CvtInv'
    BY <1>1, <1>4, CvtComputeKeeps
  <2>2. c.state \in CvtWorking /\ CvtKept
    BY <1>1, <1>4, CvtComputeSteps
  <2>3. c.state # "get_a"
    BY <2>2 DEF CvtWorking
  <2>4. QED
    BY <1>1, <1>2, <2>1, <2>2, <2>3 DEF ConverterInv, CvtServed, CvtKept
<1>5. CASE Cvt!PutZ
  <2>1. /\ CvtInv' /\ c'.s_output_z = Converted(c.a) /\ c.state = "put_z" /\ c'.a = c.a
    BY <1>1, <1>5, CvtPutKeeps
  <2>2. c.a = cvtX
    BY <1>1, <2>1
  <2>3. QED
    BY <1>1, <1>2, <2>1, <2>2 DEF ConverterInv, CvtServed
<1>6. QED
  BY <1>3, <1>4, <1>5 DEF Cvt!Hold

\* and under one that changes it, leaves, or resets.
LEMMA CvtChangeKeeps ==
  ASSUME ConverterInv, Cvt!Change
  PROVE  ConverterInv'
<1>1. CvtInv /\ c \in CvtRegs /\ ~cvtHolds /\ cvtHolds' = cvtHolds
      /\ c.a \in 0 .. Pow2[W] - 1
  BY CvtFields DEF ConverterInv, CvtInv, Cvt!Change
<1>2. ASSUME NEW en \in BOOLEAN, NEW v \in Cvt!FewWords, Cvt!GetA(en, v)
      PROVE  CvtInv'
  BY <1>1, <1>2, FewWordsOK, CvtGetAKeeps
<1>3. ASSUME Cvt!Compute \/ Cvt!PutZ
      PROVE  CvtInv'
  BY <1>1, <1>3, CvtComputeKeeps, CvtPutKeeps
<1>4. ASSUME NEW p \in {Cvt!TakenA(en, v) : en \in BOOLEAN, v \in Cvt!FewWords},
             Cvt!ResetWith(p)
      PROVE  CvtInv'
  <2>1. PICK en \in BOOLEAN, v \in Cvt!FewWords : p = Cvt!TakenA(en, v)
    OBVIOUS
  <2>2. p = v \/ p = c.a
    BY <2>1 DEF Cvt!TakenA
  <2>3. p \in 0 .. Pow2[W] - 1
    BY <1>1, <2>2, FewWordsOK
  <2>4. QED
    BY <1>1, <1>4, <2>3, CvtResetKeeps
<1>5. CvtInv'
  BY <1>2, <1>3, <1>4 DEF Cvt!Change
<1>6. QED
  BY <1>1, <1>5 DEF ConverterInv, CvtServed

\* What the invariant says of the three properties of the converter.
LEMMA ConverterSays ==
  ASSUME ConverterInv
  PROVE  Cvt!TypeOK /\ Cvt!ShiftInvariant /\ Cvt!EveryResultIsRounded
<1>1. CvtInv /\ CvtServed /\ c \in CvtRegs
  BY DEF ConverterInv, CvtInv
<1>2. Cvt!TypeOK
  BY <1>1, CvtType
<1>3. Cvt!ShiftInvariant
  <2>1. ASSUME c.state = "convert_2"
        PROVE  (c.z_m * Pow2[R] + c.z_r) * Pow2[c.z_e] = c.value * Pow2[W - 1]
    BY <1>1, <2>1 DEF CvtInv, Normalising, Joined
  <2>2. Cvt!RestBits = R
    BY DEF Cvt!RestBits, R
  <2>3. QED
    BY <2>1, <2>2, CvtFormat, Zenon DEF Cvt!ShiftInvariant
<1>4. Cvt!EveryResultIsRounded
  <2>1. ASSUME cvtHolds, c.convert_valid_o
        PROVE  c.s_output_z = Cvt!OfInteger(Cvt!SignedOf(cvtX))
    BY <1>1, <2>1, CvtResult DEF CvtServed
  <2>2. QED
    BY <2>1, Zenon DEF Cvt!EveryResultIsRounded
<1>5. QED
  BY <1>2, <1>3, <1>4

--------------------------------------------------------------------------------
(* The converter implements its unit.                                       *)

\* The registers as the unit of ConverterUnit shows them.
CvtShown == [st |-> IF c.state \in CvtWorking THEN "work" ELSE c.state,
             ack_a |-> c.s_input_a_ack, stb |-> c.s_output_z_stb,
             valid |-> c.convert_valid_o, a |-> c.a, z |-> c.z,
             out |-> c.s_output_z, age |-> c.age]

\* The cycles a conversion can take.
CvtLatencies == {2} \cup 5 .. W + 4

\* The result the unit gives for a word.
CvtOf(w) == Cvt!OfInteger(Cvt!SignedOf(w))

\* The steps of the unit, said of what is shown.
LEMMA CvtUnitSteps ==
  /\ \A en, v : Cvt!Unit!GetA(en, v) <=>
       /\ CvtShown.st = "get_a"
       /\ IF CvtShown.ack_a /\ en
            THEN CvtShown' = [CvtShown EXCEPT !.valid = FALSE, !.ack_a = FALSE, !.a = v,
                                              !.st = "work"]
            ELSE CvtShown' = [CvtShown EXCEPT !.valid = FALSE, !.ack_a = TRUE]
  /\ Cvt!Unit!Work <=>
       /\ CvtShown.st = "work"
       /\ \E n \in CvtLatencies : n > CvtShown.age + 1
       /\ CvtShown' = [CvtShown EXCEPT !.age = @ + 1]
  /\ Cvt!Unit!Finish <=>
       /\ CvtShown.st = "work" /\ CvtShown.age + 1 \in CvtLatencies
       /\ CvtShown' = [CvtShown EXCEPT !.age = 0, !.z = CvtOf(CvtShown.a), !.st = "put_z"]
  /\ Cvt!Unit!PutZ <=>
       /\ CvtShown.st = "put_z"
       /\ IF CvtShown.stb
            THEN CvtShown' = [CvtShown EXCEPT !.out = CvtShown.z, !.valid = TRUE, !.stb = FALSE,
                                              !.st = "get_a"]
            ELSE CvtShown' = [CvtShown EXCEPT !.out = CvtShown.z, !.valid = TRUE, !.stb = TRUE]
<1>1. \A en, v : Cvt!Unit!GetA(en, v) <=>
       /\ CvtShown.st = "get_a"
       /\ IF CvtShown.ack_a /\ en
            THEN CvtShown' = [CvtShown EXCEPT !.valid = FALSE, !.ack_a = FALSE, !.a = v,
                                              !.st = "work"]
            ELSE CvtShown' = [CvtShown EXCEPT !.valid = FALSE, !.ack_a = TRUE]
  BY Zenon DEF CvtShown, Cvt!Unit!GetA, Cvt!Working, CvtWorking
<1>2. Cvt!Unit!Work <=>
       /\ CvtShown.st = "work"
       /\ \E n \in CvtLatencies : n > CvtShown.age + 1
       /\ CvtShown' = [CvtShown EXCEPT !.age = @ + 1]
  BY Zenon DEF CvtShown, Cvt!Unit!Work, Cvt!Working, CvtWorking, CvtLatencies, Cvt!Latencies,
     Cvt!MaxLatency
<1>3. Cvt!Unit!Finish <=>
       /\ CvtShown.st = "work" /\ CvtShown.age + 1 \in CvtLatencies
       /\ CvtShown' = [CvtShown EXCEPT !.age = 0, !.z = CvtOf(CvtShown.a), !.st = "put_z"]
  BY Zenon DEF CvtShown, Cvt!Unit!Finish, Cvt!Working, CvtWorking, CvtLatencies,
     Cvt!Latencies, Cvt!MaxLatency, CvtOf
<1>4. Cvt!Unit!PutZ <=>
       /\ CvtShown.st = "put_z"
       /\ IF CvtShown.stb
            THEN CvtShown' = [CvtShown EXCEPT !.out = CvtShown.z, !.valid = TRUE, !.stb = FALSE,
                                              !.st = "get_a"]
            ELSE CvtShown' = [CvtShown EXCEPT !.out = CvtShown.z, !.valid = TRUE, !.stb = TRUE]
  BY Zenon DEF CvtShown, Cvt!Unit!PutZ, Cvt!Working, CvtWorking
<1>5. QED
  BY <1>1, <1>2, <1>3, <1>4, Zenon

\* A reset of the unit, said of what is shown.
LEMMA CvtUnitReset ==
  /\ \A p : Cvt!Unit!ResetWith(p) <=>
       \E r \in IF CvtShown.st = "work" THEN {CvtShown.z, CvtOf(CvtShown.a)} ELSE {CvtShown.z} :
         CvtShown' = [CvtShown EXCEPT !.st = "get_a", !.ack_a = FALSE, !.stb = FALSE,
                                      !.valid = FALSE, !.age = 0, !.a = p, !.z = r,
                                      !.out = IF CvtShown.st = "put_z" THEN CvtShown.z ELSE @]
  /\ Cvt!Unit!Takeable =
       {CvtShown.a} \cup (IF CvtShown.st = "get_a" /\ CvtShown.ack_a THEN 0 .. Pow2[W] - 1
                                                                      ELSE {})
<1>1. \A p : Cvt!Unit!ResetWith(p) <=>
       \E r \in IF CvtShown.st = "work" THEN {CvtShown.z, CvtOf(CvtShown.a)} ELSE {CvtShown.z} :
         CvtShown' = [CvtShown EXCEPT !.st = "get_a", !.ack_a = FALSE, !.stb = FALSE,
                                      !.valid = FALSE, !.age = 0, !.a = p, !.z = r,
                                      !.out = IF CvtShown.st = "put_z" THEN CvtShown.z ELSE @]
  BY Zenon DEF CvtShown, Cvt!Unit!ResetWith, Cvt!Working, CvtWorking, CvtOf
<1>2. Cvt!Unit!Takeable =
       {CvtShown.a} \cup (IF CvtShown.st = "get_a" /\ CvtShown.ack_a THEN 0 .. Pow2[W] - 1
                                                                      ELSE {})
  BY Zenon DEF CvtShown, Cvt!Unit!Takeable, Cvt!Working, CvtWorking, Cvt!IntWords, Cvt!Pow2, Pow2
<1>3. QED
  BY <1>1, <1>2, Zenon

\* Every step the unit may take.
LEMMA CvtUnitNext ==
  /\ Cvt!Unit!Work => Cvt!Unit!Next
  /\ Cvt!Unit!Finish => Cvt!Unit!Next
  /\ Cvt!Unit!PutZ => Cvt!Unit!Next
  /\ \A en \in BOOLEAN, v \in 0 .. Pow2[W] - 1 : Cvt!Unit!GetA(en, v) => Cvt!Unit!Next
  /\ \A p \in Cvt!Unit!Takeable : Cvt!Unit!ResetWith(p) => Cvt!Unit!Next
<1>1. /\ Cvt!Unit!Work => Cvt!Unit!Next
      /\ Cvt!Unit!Finish => Cvt!Unit!Next
      /\ Cvt!Unit!PutZ => Cvt!Unit!Next
      /\ \A p \in Cvt!Unit!Takeable : Cvt!Unit!ResetWith(p) => Cvt!Unit!Next
  BY Zenon DEF Cvt!Unit!Next
<1>2. \A en \in BOOLEAN, v \in Cvt!IntWords : Cvt!Unit!GetA(en, v) => Cvt!Unit!Next
  BY Zenon DEF Cvt!Unit!Next, Cvt!Unit!GetA
<1>3. QED
  BY <1>1, <1>2, FewWordsOK, Zenon

\* What the unit's registers hold.
CvtRecords ==
  [st : {"get_a", "work", "put_z"}, ack_a : BOOLEAN, stb : BOOLEAN, valid : BOOLEAN,
   a : 0 .. Pow2[W] - 1, z : Float, out : Float, age : Nat]

\* Assignments of the converter's unit: it takes its operand,
LEMMA CvtAssignTake ==
  ASSUME NEW r \in CvtRecords, NEW q \in CvtRecords, NEW v \in 0 .. Pow2[W] - 1,
         q.valid = FALSE, q.ack_a = FALSE, q.a = v, q.st = "work",
         q.stb = r.stb, q.z = r.z, q.out = r.out, q.age = r.age
  PROVE  q = [r EXCEPT !.valid = FALSE, !.ack_a = FALSE, !.a = v, !.st = "work"]
BY DEF CvtRecords

\* it asks for it,
LEMMA CvtAssignOffer ==
  ASSUME NEW r \in CvtRecords, NEW q \in CvtRecords,
         q.valid = FALSE, q.ack_a = TRUE, q.st = r.st, q.stb = r.stb,
         q.a = r.a, q.z = r.z, q.out = r.out, q.age = r.age
  PROVE  q = [r EXCEPT !.valid = FALSE, !.ack_a = TRUE]
BY DEF CvtRecords

\* it works,
LEMMA CvtAssignAge ==
  ASSUME NEW r \in CvtRecords, NEW q \in CvtRecords, NEW n \in Nat,
         q.age = n, q.st = r.st, q.ack_a = r.ack_a, q.stb = r.stb,
         q.valid = r.valid, q.a = r.a, q.z = r.z, q.out = r.out
  PROVE  q = [r EXCEPT !.age = n]
BY DEF CvtRecords

\* it ends its work,
LEMMA CvtAssignDone ==
  ASSUME NEW r \in CvtRecords, NEW q \in CvtRecords, NEW v \in Float,
         q.age = 0, q.z = v, q.st = "put_z", q.ack_a = r.ack_a, q.stb = r.stb,
         q.valid = r.valid, q.a = r.a, q.out = r.out
  PROVE  q = [r EXCEPT !.age = 0, !.z = v, !.st = "put_z"]
BY DEF CvtRecords

\* it shows its result,
LEMMA CvtAssignShow ==
  ASSUME NEW r \in CvtRecords, NEW q \in CvtRecords, NEW v \in Float,
         q.out = v, q.stb = FALSE, q.valid = TRUE, q.st = "get_a", q.ack_a = r.ack_a,
         q.a = r.a, q.z = r.z, q.age = r.age
  PROVE  q = [r EXCEPT !.out = v, !.valid = TRUE, !.stb = FALSE, !.st = "get_a"]
BY DEF CvtRecords

\* it announces it,
LEMMA CvtAssignStrobe ==
  ASSUME NEW r \in CvtRecords, NEW q \in CvtRecords, NEW v \in Float,
         q.out = v, q.stb = TRUE, q.valid = TRUE, q.st = r.st, q.ack_a = r.ack_a,
         q.a = r.a, q.z = r.z, q.age = r.age
  PROVE  q = [r EXCEPT !.out = v, !.valid = TRUE, !.stb = TRUE]
BY DEF CvtRecords

\* What a reset leaves in the converter's unit.
CvtIsReset(q, v, k, o) ==
  /\ q \in CvtRecords /\ v \in 0 .. Pow2[W] - 1 /\ k \in Float /\ o \in Float
  /\ q.st = "get_a" /\ q.ack_a = FALSE /\ q.stb = FALSE
  /\ q.valid = FALSE /\ q.age = 0 /\ q.a = v /\ q.z = k /\ q.out = o

\* and it is reset.
LEMMA CvtAssignReset ==
  ASSUME NEW r \in CvtRecords, NEW q, NEW v, NEW k, NEW o, CvtIsReset(q, v, k, o)
  PROVE  q = [r EXCEPT !.st = "get_a", !.ack_a = FALSE, !.stb = FALSE, !.valid = FALSE,
                       !.age = 0, !.a = v, !.z = k, !.out = o]
BY DEF CvtRecords, CvtIsReset

\* What is shown, field by field.
LEMMA CvtShownFields ==
  /\ c.state \in CvtWorking => CvtShown.st = "work"
  /\ c.state \notin CvtWorking => CvtShown.st = c.state
  /\ CvtShown.ack_a = c.s_input_a_ack /\ CvtShown.stb = c.s_output_z_stb
  /\ CvtShown.valid = c.convert_valid_o /\ CvtShown.a = c.a /\ CvtShown.z = c.z
  /\ CvtShown.out = c.s_output_z /\ CvtShown.age = c.age
BY Zenon DEF CvtShown

\* The unit's registers, before a step
LEMMA CvtShownType ==
  c \in CvtRegs => CvtShown \in CvtRecords
<1> SUFFICES ASSUME c \in CvtRegs PROVE CvtShown \in CvtRecords
  OBVIOUS
<1>1. /\ c.state \in CvtWorking \cup {"get_a", "put_z"} /\ c.s_input_a_ack \in BOOLEAN
      /\ c.s_output_z_stb \in BOOLEAN /\ c.convert_valid_o \in BOOLEAN
      /\ c.a \in 0 .. Pow2[W] - 1 /\ c.z \in Float /\ c.s_output_z \in Float /\ c.age \in Nat
  BY DEF CvtRegs
<1>2. QED
  BY <1>1 DEF CvtShown, CvtRecords

\* The same at the next step.
LEMMA CvtShownFieldsNext ==
  /\ c'.state \in CvtWorking => CvtShown'.st = "work"
  /\ c'.state \notin CvtWorking => CvtShown'.st = c'.state
  /\ CvtShown'.ack_a = c'.s_input_a_ack /\ CvtShown'.stb = c'.s_output_z_stb
  /\ CvtShown'.valid = c'.convert_valid_o /\ CvtShown'.a = c'.a /\ CvtShown'.z = c'.z
  /\ CvtShown'.out = c'.s_output_z /\ CvtShown'.age = c'.age
BY Zenon DEF CvtShown

\* and after it.
LEMMA CvtShownTypeNext ==
  c' \in CvtRegs => CvtShown' \in CvtRecords
<1> SUFFICES ASSUME c' \in CvtRegs PROVE CvtShown' \in CvtRecords
  OBVIOUS
<1>1. /\ c'.state \in CvtWorking \cup {"get_a", "put_z"} /\ c'.s_input_a_ack \in BOOLEAN
      /\ c'.s_output_z_stb \in BOOLEAN /\ c'.convert_valid_o \in BOOLEAN
      /\ c'.a \in 0 .. Pow2[W] - 1 /\ c'.z \in Float /\ c'.s_output_z \in Float
      /\ c'.age \in Nat
  BY DEF CvtRegs
<1>2. QED
  BY <1>1 DEF CvtShown, CvtRecords

\* Every step of the converter is a step or a stutter of the unit: get_a,
LEMMA CvtShowsGetA ==
  ASSUME CvtInv, NEW en \in BOOLEAN, NEW v \in 0 .. Pow2[W] - 1, Cvt!GetA(en, v)
  PROVE  Cvt!Unit!Next
<1>1. /\ c.state = "get_a" /\ c \in CvtRegs /\ c.state \notin CvtWorking
      /\ CvtShown \in CvtRecords
  BY CvtGetA, CvtShownType DEF CvtInv, CvtWorking
<1>2. c' \in CvtRegs /\ CvtShown' \in CvtRecords
  BY CvtGetAKeeps, CvtShownTypeNext DEF CvtInv
<1>3. CASE c.s_input_a_ack /\ en
  <2>1. c' = [c EXCEPT !.convert_valid_o = FALSE, !.s_input_a_ack = FALSE, !.a = v,
                       !.state = "convert_0"]
    BY <1>3, CvtGetA, Zenon
  <2>2. /\ c'.state = "convert_0" /\ c'.s_input_a_ack = FALSE /\ c'.convert_valid_o = FALSE
        /\ c'.a = v /\ c'.s_output_z_stb = c.s_output_z_stb
        /\ c'.z = c.z /\ c'.s_output_z = c.s_output_z /\ c'.age = c.age
    BY <1>1, <2>1 DEF CvtRegs
  <2>3. c'.state \in CvtWorking
    BY <2>2 DEF CvtWorking
  <2>4. /\ CvtShown'.st = "work" /\ CvtShown'.ack_a = FALSE /\ CvtShown'.valid = FALSE
        /\ CvtShown'.a = v /\ CvtShown'.stb = CvtShown.stb /\ CvtShown'.z = CvtShown.z
        /\ CvtShown'.out = CvtShown.out /\ CvtShown'.age = CvtShown.age
    BY <1>1, <2>2, <2>3, CvtShownFields, CvtShownFieldsNext
  <2>5. CvtShown' = [CvtShown EXCEPT !.valid = FALSE, !.ack_a = FALSE, !.a = v, !.st = "work"]
    BY <1>1, <1>2, <2>4, CvtAssignTake, Zenon
  <2>6. CvtShown.st = "get_a" /\ CvtShown.ack_a /\ en
    BY <1>1, <1>3, CvtShownFields
  <2>7. QED
    BY <2>5, <2>6, CvtUnitSteps, CvtUnitNext, Zenon
<1>4. CASE ~(c.s_input_a_ack /\ en)
  <2>1. c' = [c EXCEPT !.convert_valid_o = FALSE, !.s_input_a_ack = TRUE]
    BY <1>4, CvtGetA, Zenon
  <2>2. /\ c'.state = "get_a" /\ c'.s_input_a_ack = TRUE /\ c'.convert_valid_o = FALSE
        /\ c'.a = c.a /\ c'.s_output_z_stb = c.s_output_z_stb
        /\ c'.z = c.z /\ c'.s_output_z = c.s_output_z /\ c'.age = c.age
    BY <1>1, <2>1 DEF CvtRegs
  <2>3. c'.state \notin CvtWorking
    BY <2>2 DEF CvtWorking
  <2>4. /\ CvtShown'.ack_a = TRUE /\ CvtShown'.valid = FALSE /\ CvtShown'.st = CvtShown.st
        /\ CvtShown'.stb = CvtShown.stb /\ CvtShown'.a = CvtShown.a
        /\ CvtShown'.z = CvtShown.z /\ CvtShown'.out = CvtShown.out
        /\ CvtShown'.age = CvtShown.age
    BY <1>1, <2>2, <2>3, CvtShownFields, CvtShownFieldsNext
  <2>5. CvtShown' = [CvtShown EXCEPT !.valid = FALSE, !.ack_a = TRUE]
    BY <1>1, <1>2, <2>4, CvtAssignOffer, Zenon
  <2>6. CvtShown.st = "get_a" /\ ~(CvtShown.ack_a /\ en)
    BY <1>1, <1>4, CvtShownFields
  <2>7. QED
    BY <2>5, <2>6, CvtUnitSteps, CvtUnitNext, Zenon
<1>5. QED
  BY <1>3, <1>4

\* put_z,
LEMMA CvtShowsPutZ ==
  ASSUME CvtInv, Cvt!PutZ
  PROVE  Cvt!Unit!Next
<1>1. /\ c.state = "put_z" /\ c \in CvtRegs /\ c.state \notin CvtWorking
      /\ CvtShown \in CvtRecords /\ CvtShown.z = c.z /\ c.z \in Float
  BY CvtPutZ, CvtFields, CvtShownType, CvtShownFields DEF CvtInv, CvtWorking
<1>2. c' \in CvtRegs /\ CvtShown' \in CvtRecords
  BY CvtPutKeeps, CvtShownTypeNext DEF CvtInv
<1>3. CASE c.s_output_z_stb
  <2>1. c' = [c EXCEPT !.s_output_z = c.z, !.convert_valid_o = TRUE,
                       !.s_output_z_stb = FALSE, !.state = "get_a"]
    BY <1>3, CvtPutZ, Zenon
  <2>2. /\ c'.state = "get_a" /\ c'.s_output_z = c.z /\ c'.s_output_z_stb = FALSE
        /\ c'.convert_valid_o = TRUE /\ c'.s_input_a_ack = c.s_input_a_ack
        /\ c'.a = c.a /\ c'.z = c.z /\ c'.age = c.age
    BY <1>1, <2>1 DEF CvtRegs
  <2>3. c'.state \notin CvtWorking
    BY <2>2 DEF CvtWorking
  <2>4. /\ CvtShown'.st = "get_a" /\ CvtShown'.out = c.z /\ CvtShown'.stb = FALSE
        /\ CvtShown'.valid = TRUE /\ CvtShown'.ack_a = CvtShown.ack_a
        /\ CvtShown'.a = CvtShown.a /\ CvtShown'.z = CvtShown.z
        /\ CvtShown'.age = CvtShown.age
    BY <1>1, <2>2, <2>3, CvtShownFields, CvtShownFieldsNext
  <2>5. CvtShown' = [CvtShown EXCEPT !.out = c.z, !.valid = TRUE, !.stb = FALSE,
                                     !.st = "get_a"]
    BY <1>1, <1>2, <2>4, CvtAssignShow, Zenon
  <2>6. CvtShown.st = "put_z" /\ CvtShown.stb
    BY <1>1, <1>3, CvtShownFields
  <2>7. CvtShown' = [CvtShown EXCEPT !.out = CvtShown.z, !.valid = TRUE, !.stb = FALSE,
                                     !.st = "get_a"]
    BY <1>1, <2>5, Zenon
  <2>8. QED
    BY <2>6, <2>7, CvtUnitSteps, CvtUnitNext, Zenon
<1>4. CASE ~c.s_output_z_stb
  <2>1. c' = [c EXCEPT !.s_output_z = c.z, !.convert_valid_o = TRUE,
                       !.s_output_z_stb = TRUE]
    BY <1>4, CvtPutZ, Zenon
  <2>2. /\ c'.state = "put_z" /\ c'.s_output_z = c.z /\ c'.s_output_z_stb = TRUE
        /\ c'.convert_valid_o = TRUE /\ c'.s_input_a_ack = c.s_input_a_ack
        /\ c'.a = c.a /\ c'.z = c.z /\ c'.age = c.age
    BY <1>1, <2>1 DEF CvtRegs
  <2>3. c'.state \notin CvtWorking
    BY <2>2 DEF CvtWorking
  <2>4. /\ CvtShown'.st = CvtShown.st /\ CvtShown'.out = c.z /\ CvtShown'.stb = TRUE
        /\ CvtShown'.valid = TRUE /\ CvtShown'.ack_a = CvtShown.ack_a
        /\ CvtShown'.a = CvtShown.a /\ CvtShown'.z = CvtShown.z
        /\ CvtShown'.age = CvtShown.age
    BY <1>1, <2>2, <2>3, CvtShownFields, CvtShownFieldsNext
  <2>5. CvtShown' = [CvtShown EXCEPT !.out = c.z, !.valid = TRUE, !.stb = TRUE]
    BY <1>1, <1>2, <2>4, CvtAssignStrobe, Zenon
  <2>6. CvtShown.st = "put_z" /\ ~CvtShown.stb
    BY <1>1, <1>4, CvtShownFields
  <2>7. CvtShown' = [CvtShown EXCEPT !.out = CvtShown.z, !.valid = TRUE, !.stb = TRUE]
    BY <1>1, <2>5, Zenon
  <2>8. QED
    BY <2>6, <2>7, CvtUnitSteps, CvtUnitNext, Zenon
<1>5. QED
  BY <1>3, <1>4

\* While it works the converter is not yet as old as it can be.
LEMMA CvtAgeBound ==
  ASSUME CvtInv, c.state \in CvtWorking, c.state # "pack"
  PROVE  c.age \in Nat /\ c.age + 1 < W + 4 /\ CvtAged = c.age + 1
<1>1. c \in CvtRegs /\ W \in Nat /\ W >= 4 /\ c.age \in Nat /\ c.z_e \in Nat
  BY CvtFields, CvtWidths DEF CvtInv
<1>2. c.age + 1 < W + 4
  BY <1>1 DEF CvtInv, CvtWorking, Normalising
<1>3. QED
  BY <1>1, <1>2 DEF CvtAged

\* the working states,
LEMMA CvtShowsCompute ==
  ASSUME CvtInv, Cvt!Compute
  PROVE  Cvt!Unit!Next
<1>1. c \in CvtRegs /\ CvtShown \in CvtRecords /\ c.a \in 0 .. Pow2[W] - 1
  BY CvtFields, CvtShownType DEF CvtInv
<1>2. CvtInv' /\ c' \in CvtRegs /\ CvtShown' \in CvtRecords /\ c'.z \in Float
  BY CvtComputeKeeps, CvtShownTypeNext DEF CvtInv, CvtRegs
<1>3. /\ c.state \in CvtWorking /\ CvtKept
      /\ (CvtInner /\ c.state # "pack") \/ Cvt!Pack
  BY <1>1, CvtComputeSteps
<1>4. CASE CvtInner /\ c.state # "pack"
  <2>1. c.age \in Nat /\ c.age + 1 < W + 4 /\ CvtAged = c.age + 1
    BY <1>3, <1>4, CvtAgeBound
  <2>2. /\ CvtShown'.age = c.age + 1 /\ CvtShown.age = c.age /\ CvtShown'.z = CvtShown.z
        /\ CvtShown.st = "work" /\ CvtShown'.st = CvtShown.st
        /\ CvtShown'.ack_a = CvtShown.ack_a /\ CvtShown'.stb = CvtShown.stb
        /\ CvtShown'.valid = CvtShown.valid /\ CvtShown'.a = CvtShown.a
        /\ CvtShown'.out = CvtShown.out
    BY <1>3, <1>4, <2>1, CvtShownFields, CvtShownFieldsNext DEF CvtKept, CvtInner
  <2>3. CvtShown' = [CvtShown EXCEPT !.age = c.age + 1]
    <3> DEFINE n == c.age + 1
    <3>1. n \in Nat /\ CvtShown'.age = n
      BY <2>1, <2>2
    <3> HIDE DEF n
    <3>2. CvtShown' = [CvtShown EXCEPT !.age = n]
      BY <1>1, <1>2, <2>2, <3>1, CvtAssignAge, Zenon
    <3>3. QED
      BY <3>2 DEF n
  <2>4. CvtShown' = [CvtShown EXCEPT !.age = CvtShown.age + 1]
    BY <2>2, <2>3, Zenon
  <2>5. W + 4 \in CvtLatencies
    BY CvtWidths DEF CvtLatencies
  <2>6. \E n \in CvtLatencies : n > CvtShown.age + 1
    BY <2>1, <2>2, <2>5, W + 4 > c.age + 1, CvtWidths
  <2>7. Cvt!Unit!Work
    BY <2>2, <2>4, <2>6, CvtUnitSteps, Zenon
  <2>8. QED
    BY <2>7, CvtUnitNext, Zenon
<1>5. CASE Cvt!Pack
  <2>1. c.age + 1 \in CvtLatencies /\ c.state = "pack"
    BY <1>5, CvtPackKeeps, CvtPack DEF CvtLatencies
  <2>2. c' = [c EXCEPT !.z = CvtPacked, !.state = "put_z", !.age = 0]
    BY <1>5, CvtPack
  <2>3. CvtPacked = Converted(c.a) /\ CvtPacked \in Float
    BY <2>1, CvtPackedFloat
  <2>4. c'.state = "put_z" /\ c'.age = 0 /\ c'.z = CvtPacked
    BY <1>1, <2>2 DEF CvtRegs
  <2>5. c'.state \notin CvtWorking
    BY <2>4 DEF CvtWorking
  <2>6. /\ CvtShown'.age = 0 /\ CvtShown'.z = CvtPacked
        /\ CvtShown.st = "work" /\ CvtShown'.st = "put_z"
        /\ CvtShown'.ack_a = CvtShown.ack_a /\ CvtShown'.stb = CvtShown.stb
        /\ CvtShown'.valid = CvtShown.valid /\ CvtShown'.a = CvtShown.a
        /\ CvtShown'.out = CvtShown.out
    BY <1>3, <2>4, <2>5, CvtShownFields, CvtShownFieldsNext DEF CvtKept
  <2>7. CvtShown' = [CvtShown EXCEPT !.age = 0, !.z = CvtPacked, !.st = "put_z"]
    BY <1>1, <1>2, <2>3, <2>6, CvtAssignDone, Zenon
  <2>8. CvtShown.a = c.a /\ CvtShown.age = c.age /\ CvtPacked = CvtOf(c.a)
    BY <1>1, <2>3, CvtShownFields, CvtResult DEF CvtOf
  <2>9. CvtShown' = [CvtShown EXCEPT !.age = 0, !.z = CvtOf(CvtShown.a), !.st = "put_z"]
    BY <2>7, <2>8, Zenon
  <2>10. Cvt!Unit!Finish
    BY <2>1, <2>6, <2>8, <2>9, CvtUnitSteps, Zenon
  <2>11. QED
    BY <2>10, CvtUnitNext, Zenon
<1>6. QED
  BY <1>3, <1>4, <1>5

\* reset,
LEMMA CvtShowsReset ==
  ASSUME CvtInv, NEW en \in BOOLEAN, NEW v \in 0 .. Pow2[W] - 1,
         Cvt!ResetWith(Cvt!TakenA(en, v))
  PROVE  Cvt!Unit!Next
<1> DEFINE p == Cvt!TakenA(en, v)
           nz == IF c.state = "pack" THEN CvtPacked ELSE c.z
           no == IF c.state = "put_z" THEN c.z ELSE c.s_output_z
<1>1. /\ c \in CvtRegs /\ CvtShown \in CvtRecords /\ c.a \in 0 .. Pow2[W] - 1
      /\ c.z \in Float /\ c.s_output_z \in Float
  BY CvtFields, CvtShownType DEF CvtInv
<1>2. (p = v /\ c.state = "get_a" /\ c.s_input_a_ack) \/ p = c.a
  BY DEF Cvt!TakenA
<1>3. p \in 0 .. Pow2[W] - 1 /\ (p = c.a \/ (c.state = "get_a" /\ c.s_input_a_ack))
  BY <1>1, <1>2
<1>4. nz \in Float /\ (nz = c.z \/ (c.state \in CvtWorking /\ nz = CvtOf(c.a)))
  <2>1. CASE c.state = "pack"
    <3>1. CvtPacked \in Float /\ CvtPacked = Converted(c.a)
      BY <2>1, CvtPackedFloat
    <3>2. Converted(c.a) = CvtOf(c.a)
      BY <1>1, CvtResult DEF CvtOf
    <3>3. QED
      BY <2>1, <3>1, <3>2 DEF CvtWorking
  <2>2. CASE c.state # "pack"
    BY <1>1, <2>2
  <2>3. QED
    BY <2>1, <2>2
<1>5. no \in Float
  BY <1>1
<1>6. c' = [c EXCEPT !.state = "get_a", !.s_input_a_ack = FALSE, !.s_output_z_stb = FALSE,
                     !.convert_valid_o = FALSE, !.age = 0, !.a = p,
                     !.z = nz, !.s_output_z = no]
  BY CvtReset, Zenon
<1> HIDE DEF p
<1>7. CvtInv' /\ c' \in CvtRegs /\ CvtShown' \in CvtRecords
  <2>1. CvtInv'
    BY <1>3, CvtResetKeeps DEF p
  <2>2. QED
    BY <2>1, CvtShownTypeNext DEF CvtInv
<1>8. no = IF CvtShown.st = "put_z" THEN CvtShown.z ELSE CvtShown.out
  <2>1. c.state = "put_z" <=> CvtShown.st = "put_z"
    BY CvtShownFields DEF CvtWorking
  <2>2. QED
    BY <2>1, CvtShownFields, Zenon
<1> HIDE DEF nz, no
<1>9. /\ c'.state = "get_a" /\ c'.s_input_a_ack = FALSE
      /\ c'.s_output_z_stb = FALSE /\ c'.convert_valid_o = FALSE /\ c'.age = 0
      /\ c'.a = p /\ c'.z = nz /\ c'.s_output_z = no
  BY <1>1, <1>6 DEF CvtRegs
<1>10. c'.state \notin CvtWorking
  BY <1>9 DEF CvtWorking
<1>11. /\ CvtShown'.st = "get_a" /\ CvtShown'.ack_a = FALSE
       /\ CvtShown'.stb = FALSE /\ CvtShown'.valid = FALSE /\ CvtShown'.age = 0
       /\ CvtShown'.a = p /\ CvtShown'.z = nz /\ CvtShown'.out = no
  BY <1>9, <1>10, CvtShownFieldsNext
<1>12. CvtShown' = [CvtShown EXCEPT !.st = "get_a", !.ack_a = FALSE, !.stb = FALSE,
                                    !.valid = FALSE, !.age = 0, !.a = p, !.z = nz, !.out = no]
  <2>1. CvtIsReset(CvtShown', p, nz, no)
    BY <1>3, <1>4, <1>5, <1>7, <1>11, Zenon DEF CvtIsReset
  <2>2. QED
    BY <1>1, <2>1, CvtAssignReset, Zenon
<1>13. nz \in IF CvtShown.st = "work" THEN {CvtShown.z, CvtOf(CvtShown.a)} ELSE {CvtShown.z}
  BY <1>4, CvtShownFields, Zenon
<1>14. Cvt!Unit!ResetWith(p)
  <2>1. CvtShown' = [CvtShown EXCEPT !.st = "get_a", !.ack_a = FALSE, !.stb = FALSE,
                                     !.valid = FALSE, !.age = 0, !.a = p, !.z = nz,
                                     !.out = IF CvtShown.st = "put_z" THEN CvtShown.z ELSE @]
    BY <1>8, <1>12, Zenon
  <2>2. QED
    BY <1>13, <2>1, CvtUnitReset, Zenon
<1>15. p \in Cvt!Unit!Takeable
  <2>1. p \in {CvtShown.a} \cup (IF CvtShown.st = "get_a" /\ CvtShown.ack_a
                                   THEN 0 .. Pow2[W] - 1 ELSE {})
    <3>1. c.state = "get_a" => CvtShown.st = "get_a"
      BY CvtShownFields DEF CvtWorking
    <3>2. QED
      BY <1>3, <3>1, CvtShownFields, Zenon
  <2>2. QED
    BY <2>1, CvtUnitReset, Zenon
<1>16. QED
  BY <1>14, <1>15, CvtUnitNext, Zenon

\* and power-up.
LEMMA CvtShowsInit ==
  ASSUME Cvt!Init
  PROVE  Cvt!Unit!Init
<1>1. PICK w \in PowerUpWords, r \in PowerUp, o \in PowerUp :
        c = [state |-> "get_a", s_input_a_ack |-> FALSE, s_output_z_stb |-> FALSE,
             convert_valid_o |-> FALSE, a |-> w, z |-> r, s_output_z |-> o, value |-> 0,
             z_m |-> 0, z_r |-> 0, z_e |-> 0, z_s |-> 0,
             guard |-> 0, round_bit |-> 0, sticky |-> 0, age |-> 0]
  BY DEF Cvt!Init
<1>2. /\ c.state = "get_a" /\ c.s_input_a_ack = FALSE /\ c.s_output_z_stb = FALSE
      /\ c.convert_valid_o = FALSE /\ c.a = w /\ c.z = r /\ c.s_output_z = o /\ c.age = 0
  BY <1>1
<1>3. c.state \notin CvtWorking
  BY <1>2 DEF CvtWorking
<1>4. CvtShown = [st |-> "get_a", ack_a |-> FALSE, stb |-> FALSE,
                  valid |-> FALSE, a |-> w, z |-> r, out |-> o, age |-> 0]
  BY <1>2, <1>3, Zenon DEF CvtShown
<1>5. w \in Cvt!IntWords
  BY CvtWidths, FewWordsOK
<1>6. QED
  BY <1>4, <1>5, Zenon DEF Cvt!Unit!Init, CvtShown, Cvt!Working, CvtWorking

\* With its client the converter implements the unit.
LEMMA ConverterShows ==
  ASSUME ConverterInv, Cvt!Hold \/ Cvt!Change
  PROVE  Cvt!Unit!Next
<1>1. CvtInv
  BY DEF ConverterInv
<1>2. CASE Cvt!Hold
  <2>1. cvtX \in 0 .. Pow2[W] - 1 /\ TRUE \in BOOLEAN
    BY <1>2 DEF ConverterInv, CvtServed, Cvt!Hold
  <2>2. QED
    BY <1>1, <1>2, <2>1, CvtShowsGetA, CvtShowsCompute, CvtShowsPutZ DEF Cvt!Hold
<1>3. CASE Cvt!Change
  <2>1. ASSUME NEW en \in BOOLEAN, NEW v \in Cvt!FewWords, Cvt!GetA(en, v)
        PROVE  Cvt!Unit!Next
    BY <1>1, <2>1, FewWordsOK, CvtShowsGetA
  <2>2. ASSUME Cvt!Compute \/ Cvt!PutZ
        PROVE  Cvt!Unit!Next
    BY <1>1, <2>2, CvtShowsCompute, CvtShowsPutZ
  <2>3. ASSUME NEW p \in {Cvt!TakenA(en, v) : en \in BOOLEAN, v \in Cvt!FewWords},
               Cvt!ResetWith(p)
        PROVE  Cvt!Unit!Next
    <3>1. PICK en \in BOOLEAN, v \in Cvt!FewWords : p = Cvt!TakenA(en, v)
      OBVIOUS
    <3>2. v \in 0 .. Pow2[W] - 1 /\ Cvt!ResetWith(Cvt!TakenA(en, v))
      BY <2>3, <3>1, FewWordsOK
    <3>3. QED
      BY <1>1, <3>2, CvtShowsReset
  <2>4. QED
    BY <1>3, <2>1, <2>2, <2>3 DEF Cvt!Change
<1>4. QED
  BY <1>2, <1>3

--------------------------------------------------------------------------------
(* The combinational unit: its results are floats.                          *)

\* The operations with their operands.
FpuRecords == [op : FpuOps, a : Float, b : Float, c : Float]

\* Fields and neighbours of floats.
LEMMA FloatFields ==
  ASSUME NEW v \in Float
  PROVE  /\ v.s \in {0, 1} /\ v.e \in 0 .. EMax /\ v.f \in 0 .. P - 1
         /\ v.e \in Nat /\ v.f \in Nat /\ EMax \in Nat /\ P \in Nat \ {0, 1}
         /\ v = [s |-> v.s, e |-> v.e, f |-> v.f]
         /\ Exponent(v) \in Nat \ {0} /\ Mantissa(v) \in 0 .. 2 * P - 1
         /\ ~LooksZero(v) /\ (LooksNaN(v) <=> v.e = EMax)
         /\ Negated(v) \in Float /\ [v EXCEPT !.s = 0] \in Float
<1>1. /\ v.s \in {0, 1} /\ v.e \in 0 .. EMax /\ v.f \in 0 .. P - 1
      /\ EMax \in Nat /\ P \in Nat \ {0, 1} /\ P = Pow2[F]
      /\ v = [s |-> v.s, e |-> v.e, f |-> v.f]
  BY DividerWidths DEF Float, P
<1>2. Exponent(v) \in Nat \ {0} /\ Mantissa(v) \in 0 .. 2 * P - 1
  BY <1>1 DEF Exponent, Mantissa
<1>3. ~LooksZero(v) /\ (LooksNaN(v) <=> v.e = EMax)
  BY <1>1 DEF LooksZero, LooksNaN
<1>4. Negated(v) \in Float /\ [v EXCEPT !.s = 0] \in Float
  <2>1. 1 - v.s \in {0, 1} /\ 0 \in {0, 1}
    BY <1>1
  <2>2. \A t \in {0, 1} : [v EXCEPT !.s = t] \in Float
    BY DEF Float
  <2>3. QED
    BY <2>1, <2>2 DEF Negated
<1>5. QED
  BY <1>1, <1>2, <1>3, <1>4

\* The numbers in a float.
LEMMA FloatNumbers ==
  \A v \in Float :
    /\ v.s \in {0, 1} /\ Exponent(v) \in Nat \ {0} /\ Exponent(v) <= EMax
    /\ Mantissa(v) \in Nat /\ Mantissa(v) < 2 * P
<1> SUFFICES ASSUME NEW v \in Float
             PROVE  /\ v.s \in {0, 1} /\ Exponent(v) \in Nat \ {0} /\ Exponent(v) <= EMax
                    /\ Mantissa(v) \in Nat /\ Mantissa(v) < 2 * P
  OBVIOUS
<1>1. /\ v.s \in {0, 1} /\ v.e \in 0 .. EMax /\ v.f \in 0 .. P - 1 /\ EMax \in Nat \ {0}
      /\ P \in Nat \ {0, 1} /\ P = Pow2[F]
  <2>1. v.s \in {0, 1} /\ v.e \in 0 .. EMax /\ v.f \in 0 .. P - 1 /\ P \in Nat \ {0, 1}
    BY FloatFields
  <2>2. EMax \in Nat \ {0}
    BY DividerWidths
  <2>3. QED
    BY <2>1, <2>2 DEF P
<1> HIDE DEF P
<1>2. CASE v.e = 0
  <2>1. Exponent(v) = 1 /\ Mantissa(v) = v.f
    BY <1>2 DEF Exponent, Mantissa
  <2>2. QED
    BY <1>1, <2>1
<1>3. CASE v.e # 0
  <2>1. Exponent(v) = v.e /\ Mantissa(v) = P + v.f
    BY <1>1, <1>3, Zenon DEF Exponent, Mantissa
  <2>2. QED
    BY <1>1, <1>3, <2>1
<1>4. QED
  BY <1>2, <1>3

\* A packed result is a float (the output fields of the adder and the multiplier),
LEMMA PackedIsFloat ==
  ASSUME NEW s \in {0, 1}, NEW e \in Int, NEW m \in Int, NEW low \in Nat
  PROVE  Packed(s, e, m, low) \in Float
<1> DEFINE k == Pow2[low]
           q == Pow2[EB]
           p == Pow2[F]
<1>1. k \in Nat \ {0} /\ q \in Nat \ {0} /\ p \in Nat \ {0} /\ EMax = q - 1
  BY PowNat, DividerWidths DEF EMax, P
<1> HIDE DEF k, q, p
<1> DEFINE w == m \div k
<1>2. w \in Int
  BY <1>1, Division
<1> HIDE DEF w
<1>3. w % p \in 0 .. p - 1 /\ e % q \in 0 .. q - 1
  BY <1>1, <1>2, Division
<1>4. QED
  BY <1>1, <1>3 DEF Packed, Float, w, k, p, q

\* and so is each that normalising and packing can give.
LEMMA NormalisedIsFloat ==
  ASSUME NEW s \in {0, 1}, NEW e \in Int, NEW m \in Int, NEW low \in Nat, NEW max \in Nat
  PROVE  Normalised(s, e, m, low, max) \subseteq Float
<1> DEFINE top == low + F
<1>1. m \div 2 \in Int /\ e + 1 \in Int
  BY 2 \in Nat \ {0}, Division
<1>2. Packed(s, e + 1, m \div 2, low) \in Float /\ Packed(s, e, m, low) \in Float
  BY <1>1, PackedIsFloat
<1>3. ASSUME NEW k \in 1 .. max PROVE Packed(s, e - k, m * Pow2[k], low) \in Float
  <2>1. e - k \in Int /\ Pow2[k] \in Int
    BY PowNat
  <2>2. m * Pow2[k] \in Int
    BY <2>1
  <2>3. QED
    BY <2>1, <2>2, PackedIsFloat
<1>4. ASSUME NEW h \in Held PROVE [h EXCEPT !.s = s] \in Float
  BY FpuAssumption DEF Float
<1> DEFINE Left == {Packed(s, e - k, m * Pow2[k], low) :
                      k \in {i \in 1 .. max : Pow2[top - i] <= m /\ m < Pow2[top - i + 1]}}
           Latched == {[h EXCEPT !.s = s] : h \in Held}
<1>5. Left \subseteq Float /\ Latched \subseteq Float
  BY <1>3, <1>4
<1>6. \/ Normalised(s, e, m, low, max) = {Packed(s, e + 1, m \div 2, low)}
      \/ Normalised(s, e, m, low, max) = {Packed(s, e, m, low)}
      \/ Normalised(s, e, m, low, max) = Left
      \/ Normalised(s, e, m, low, max) = Latched
  BY Zenon DEF Normalised
<1> HIDE DEF Left, Latched
<1>7. QED
  BY <1>2, <1>5, <1>6

\* The adder's results are floats,
LEMMA AdderIsFloat ==
  ASSUME NEW u \in Float, NEW v \in Float
  PROVE  Adder(u, v) \subseteq Float
<1> DEFINE equal == Exponent(u) = Exponent(v)
           big   == IF IF equal THEN Mantissa(u) > Mantissa(v) ELSE Exponent(u) > Exponent(v)
                      THEN u ELSE v
           small == IF big = u THEN v ELSE u
           tmp   == Mantissa(small) \div Pow2[Exponent(big) - Exponent(small)]
           sum   == Mantissa(big) + tmp
           carry == IF equal /\ sum < Pow2[F + 1] THEN Pow2[F + 1] ELSE 0
           m     == IF u.s = v.s THEN sum + carry ELSE Mantissa(big) - tmp
<1>1. Adder(u, v) = Normalised(big.s, Exponent(big), m, 0, AddShifts)
  BY Zenon DEF Adder
<1>2. big \in Float /\ small \in Float /\ Exponent(big) >= Exponent(small)
  <2>1. Exponent(u) \in Nat /\ Exponent(v) \in Nat
    BY FloatNumbers
  <2>2. CASE big = u
    <3>1. small = v /\ Exponent(u) >= Exponent(v)
      BY <2>1, <2>2
    <3>2. QED
      BY <2>2, <3>1
  <2>3. CASE big # u
    <3>1. big = v /\ small = u /\ Exponent(v) >= Exponent(u)
      BY <2>1, <2>3
    <3>2. QED
      BY <3>1
  <2>4. QED
    BY <2>2, <2>3
<1> HIDE DEF equal, big, small
<1>3. /\ big.s \in {0, 1} /\ Exponent(big) \in Int /\ Mantissa(big) \in Int
      /\ Mantissa(small) \in Int /\ Exponent(big) - Exponent(small) \in Nat
  BY <1>2, FloatNumbers
<1>4. Pow2[Exponent(big) - Exponent(small)] \in Nat \ {0} /\ Pow2[F + 1] \in Nat
  BY <1>3, PowNat, DividerWidths
<1>5. tmp \in Int
  BY <1>3, <1>4, Division
<1> HIDE DEF tmp
<1>6. m \in Int
  BY <1>3, <1>4, <1>5
<1>7. 0 \in Nat /\ AddShifts \in Nat
  BY FpuAssumption, DividerWidths
<1> HIDE DEF m
<1>8. QED
  BY <1>1, <1>3, <1>6, <1>7, NormalisedIsFloat

\* and the multiplier's.
LEMMA MultiplierIsFloat ==
  ASSUME NEW u \in Float, NEW v \in Float
  PROVE  Multiplier(u, v) \subseteq Float
<1> DEFINE s == Xor(u.s, v.s)
           e == (Exponent(u) + Exponent(v) - Bias) % Pow2[EB]
           m == Mantissa(u) * Mantissa(v)
<1>1. s \in {0, 1}
  BY FloatFields, SpecialValues
<1>2. e \in Int
  <2> DEFINE n == Exponent(u) + Exponent(v) - Bias
             k == Pow2[EB]
  <2>1. n \in Int /\ k \in Nat \ {0}
    BY FloatNumbers, DividerWidths
  <2> HIDE DEF n, k
  <2>2. n % k \in 0 .. k - 1
    BY <2>1, Division
  <2>3. n % k \in Int
    BY <2>1, <2>2
  <2>4. QED
    BY <2>3 DEF n, k
<1>3. m \in Int
  <2>1. Mantissa(u) \in Int /\ Mantissa(v) \in Int
    BY FloatNumbers
  <2>2. QED
    BY <2>1
<1>4. F \in Nat /\ MulShifts \in Nat
  BY FpuAssumption, DividerWidths
<1>5. Multiplier(u, v) = Normalised(s, e, m, F, MulShifts)
  BY Zenon DEF Multiplier
<1> HIDE DEF s, e, m
<1>6. QED
  BY <1>1, <1>2, <1>3, <1>4, <1>5, NormalisedIsFloat

\* The results of an operation are floats, those of a comparison are truth values.
LEMMA OutcomesTyped ==
  ASSUME NEW op \in FpuOps, NEW u \in Float, NEW v \in Float, NEW w \in Float
  PROVE  Outcomes(op, u, v, w) \subseteq IF op \in Comparisons THEN BOOLEAN ELSE Float
<1>1. \A s \in {0, 1} : Infinity(s) \in Float /\ Zero(s) \in Float
  BY SpecialValues
<1>2. /\ Xor(u.s, v.s) \in {0, 1} /\ Xor(u.s, w.s) \in {0, 1} /\ Xor(v.s, w.s) \in {0, 1}
      /\ u.s \in {0, 1}
  BY FloatFields, SpecialValues
<1>3. Sum(op, u, v) \subseteq Float
  <2>1. Negated(v) \in Float
    BY FloatFields
  <2>2. Adder(u, IF op = "ADD" THEN v ELSE Negated(v)) \subseteq Float
    BY <2>1, AdderIsFloat
  <2>3. \/ Sum(op, u, v) \in {{u}, {v}, {Infinity(Xor(u.s, v.s))}, {Zero(0)}}
        \/ Sum(op, u, v) = Adder(u, IF op = "ADD" THEN v ELSE Negated(v))
    BY DEF Sum
  <2>4. QED
    BY <1>1, <1>2, <2>2, <2>3
<1>4. Product(u, v) \subseteq Float
  <2>1. \/ Product(u, v) \in {{u}, {v}, {Infinity(u.s)}, {Zero(Xor(u.s, v.s))}}
        \/ Product(u, v) = Multiplier(u, v)
    BY DEF Product
  <2>2. QED
    BY <1>1, <1>2, <2>1, MultiplierIsFloat
<1>5. MultiplyAdd(op, u, v, w) \subseteq Float
  <2> DEFINE sums == UNION {Adder(p, Addend(op, w)) : p \in Multiplier(u, v)}
  <2>1. Addend(op, w) \in Float
    BY FloatFields DEF Addend
  <2>2. \A p \in Multiplier(u, v) : p \in Float /\ Adder(p, Addend(op, w)) \subseteq Float
    BY <2>1, MultiplierIsFloat, AdderIsFloat
  <2>3. sums \subseteq Float
    BY <2>2
  <2>4. {Infinity(Xor(p.s, w.s)) : p \in Multiplier(u, v)} \subseteq Float
    <3>1. ASSUME NEW p \in Multiplier(u, v) PROVE Infinity(Xor(p.s, w.s)) \in Float
      <4>1. p \in Float
        BY <2>2
      <4>2. Xor(p.s, w.s) \in {0, 1}
        BY <4>1, FloatFields, SpecialValues
      <4>3. QED
        BY <1>1, <4>2
    <3>2. QED
      BY <3>1
  <2>5. {Negated(r) : r \in sums} \subseteq Float
    BY <2>3, FloatFields
  <2>6. \/ MultiplyAdd(op, u, v, w) \in {{u}, {v}, {w}, {Infinity(Xor(u.s, w.s))},
                                        {Infinity(Xor(v.s, w.s))}}
        \/ MultiplyAdd(op, u, v, w) = Multiplier(u, v)
        \/ MultiplyAdd(op, u, v, w) = {Infinity(Xor(p.s, w.s)) : p \in Multiplier(u, v)}
        \/ MultiplyAdd(op, u, v, w) = {Negated(r) : r \in sums}
        \/ MultiplyAdd(op, u, v, w) = sums
    <3> DEFINE inf == {Infinity(Xor(p.s, w.s)) : p \in Multiplier(u, v)}
               neg == {Negated(r) : r \in sums}
    <3>1. MultiplyAdd(op, u, v, w) =
            IF LooksNaN(u) THEN {u}
            ELSE IF LooksNaN(v) THEN {v}
            ELSE IF LooksZero(w) THEN Multiplier(u, v)
            ELSE IF LooksZero(u) \/ LooksZero(v) \/ LooksNaN(w) THEN {w}
            ELSE IF u.e = EMax THEN {Infinity(Xor(u.s, w.s))}
            ELSE IF v.e = EMax THEN {Infinity(Xor(v.s, w.s))}
            ELSE IF w.e = EMax THEN inf
            ELSE IF op \in {"NMADD", "NMSUB"} THEN neg
            ELSE sums
      BY Zenon DEF MultiplyAdd
    <3> HIDE DEF inf, neg, sums
    <3>2. QED
      BY <3>1 DEF inf, neg
  <2> HIDE DEF sums
  <2>7. QED
    BY <1>1, <1>2, <2>3, <2>4, <2>5, <2>6, MultiplierIsFloat
<1>6. Holds(op, u, v) \in BOOLEAN
  BY DEF Holds
<1> DEFINE abs == {[r EXCEPT !.s = 0] : r \in Sum(op, u, v)}
<1>0. Outcomes(op, u, v, w) =
        CASE op \in {"ADD", "SUB"}  -> Sum(op, u, v)
          [] op = "SUBABS"          -> abs
          [] op = "MUL"             -> Product(u, v)
          [] op \in Fused           -> MultiplyAdd(op, u, v, w)
          [] op \in Comparisons     -> {Holds(op, u, v)}
  BY Zenon DEF Outcomes
<1>01. /\ op \in {"ADD", "SUB"} => Outcomes(op, u, v, w) = Sum(op, u, v)
       /\ op = "SUBABS" => Outcomes(op, u, v, w) = abs
       /\ op = "MUL" => Outcomes(op, u, v, w) = Product(u, v)
       /\ op \in Fused => Outcomes(op, u, v, w) = MultiplyAdd(op, u, v, w)
       /\ op \in Comparisons => Outcomes(op, u, v, w) = {Holds(op, u, v)}
  <2> HIDE DEF abs
  <2>1. QED
    BY <1>0 DEF Fused, Comparisons
<1>7. CASE op \in {"ADD", "SUB"}
  BY <1>01, <1>3, <1>7 DEF Comparisons
<1>8. CASE op = "SUBABS"
  <2>1. Outcomes(op, u, v, w) = {[r EXCEPT !.s = 0] : r \in Sum(op, u, v)}
    BY <1>01, <1>8
  <2>2. Outcomes(op, u, v, w) \subseteq Float
    BY <1>3, <2>1, FloatFields
  <2>3. QED
    BY <1>8, <2>2 DEF Comparisons
<1>9. CASE op = "MUL"
  BY <1>01, <1>4, <1>9 DEF Comparisons
<1>10. CASE op \in Fused
  BY <1>01, <1>5, <1>10 DEF Comparisons, Fused
<1>11. CASE op \in Comparisons
  <2>1. Outcomes(op, u, v, w) = {Holds(op, u, v)}
    BY <1>01, <1>11
  <2>2. QED
    BY <1>6, <1>11, <2>1
<1>12. QED
  BY <1>7, <1>8, <1>9, <1>10, <1>11 DEF FpuOps, Sums

--------------------------------------------------------------------------------
(* Comparisons.                                                             *)

\* Pairs of an exponent and a fraction are ordered as the magnitudes they stand for.
LEMMA Lexicographic ==
  ASSUME NEW p \in Nat \ {0}, NEW e \in Nat, NEW f \in 0 .. p - 1,
         NEW g \in Nat, NEW h \in 0 .. p - 1
  PROVE  /\ e * p + f \in Nat
         /\ e < g \/ (e = g /\ f < h) => e * p + f < g * p + h
<1>1. e * p + f \in Nat
  <2>1. e * p \in Nat
    OBVIOUS
  <2>2. QED
    BY <2>1
<1>2. ASSUME e < g PROVE e * p + f < g * p + h
  <2>1. g - e - 1 \in Nat
    BY <1>2
  <2>2. (g - e - 1) * p \in Nat /\ e * p \in Nat /\ g * p \in Nat
    BY <2>1
  <2>3. g * p = e * p + (g - e - 1) * p + p
    OBVIOUS
  <2>4. QED
    BY <2>2, <2>3
<1>3. ASSUME e = g, f < h PROVE e * p + f < g * p + h
  <2>1. e * p \in Nat /\ e * p = g * p
    BY <1>3
  <2>2. QED
    BY <1>3, <2>1
<1>4. QED
  BY <1>1, <1>2, <1>3

\* The sign comes first, then exponent and fraction.
Below(u, v) == u.e < v.e \/ (u.e = v.e /\ u.f < v.f)

\* Magnitudes are ordered as exponent and fraction are, taken as one word.
LEMMA MagnitudesOrder ==
  ASSUME NEW u \in Float, NEW v \in Float
  PROVE  /\ Magnitude(u) \in Nat /\ Magnitude(v) \in Nat
         /\ Below(u, v) => Magnitude(u) < Magnitude(v)
         /\ Below(v, u) => Magnitude(v) < Magnitude(u)
         /\ u.e = v.e /\ u.f = v.f => Magnitude(u) = Magnitude(v)
<1>1. /\ u.e \in Nat /\ v.e \in Nat /\ u.f \in 0 .. P - 1 /\ v.f \in 0 .. P - 1
      /\ P \in Nat \ {0}
  BY FloatFields
<1> DEFINE m == u.e * P + u.f
           n == v.e * P + v.f
<1>2. /\ m \in Nat /\ n \in Nat
      /\ Below(u, v) => m < n
      /\ Below(v, u) => n < m
  <2>1. m \in Nat /\ (u.e < v.e \/ (u.e = v.e /\ u.f < v.f) => m < n)
    BY <1>1, Lexicographic
  <2>2. n \in Nat /\ (v.e < u.e \/ (v.e = u.e /\ v.f < u.f) => n < m)
    BY <1>1, Lexicographic
  <2>3. QED
    BY <2>1, <2>2, Zenon DEF Below
<1>3. Magnitude(u) = Units(m) /\ Magnitude(v) = Units(n)
  BY DEF Magnitude, P
<1>4. u.e = v.e /\ u.f = v.f => m = n
  OBVIOUS
<1> HIDE DEF m, n
<1>5. Units(m) \in Nat /\ Units(n) \in Nat
  BY <1>2, UnitsGrow
<1>6. (m < n => Units(m) < Units(n)) /\ (n < m => Units(n) < Units(m))
  BY <1>2, UnitsOrder
<1>7. QED
  BY <1>2, <1>3, <1>4, <1>5, <1>6

\* The least magnitude is zero's alone.
LEMMA ZeroIsLeast ==
  ASSUME NEW u \in Float
  PROVE  /\ Magnitude(u) \in Nat
         /\ Magnitude(u) = 0 <=> u.e = 0 /\ u.f = 0
<1>1. Zero(0) \in Float /\ Zero(0).e = 0 /\ Zero(0).f = 0 /\ u.e \in Nat /\ u.f \in Nat
  BY FloatFields, SpecialValues DEF Zero
<1>2. Magnitude(Zero(0)) = 0
  <2>1. 0 * P + 0 = 0
    <3>1. P \in Int
      BY DividerWidths
    <3>2. QED
      BY <3>1
  <2>2. Magnitude(Zero(0)) = Units(0 * P + 0)
    BY <1>1 DEF Magnitude, P
  <2>3. QED
    BY <2>1, <2>2, UnitsGrow, 0 \in Nat
<1>3. (u.e = 0 /\ u.f = 0) \/ Below(Zero(0), u)
  BY <1>1 DEF Below
<1>4. QED
  BY <1>1, <1>2, <1>3, MagnitudesOrder

\* The comparison of the bits (ibex_fpu.sv:400) is the comparison of the values.
LEMMA OrderIsRight ==
  ASSUME NEW u \in Float, NEW v \in Float
  PROVE  /\ Equal(u, v) <=> Value(u) = Value(v)
         /\ Less(u, v) <=> Value(u) < Value(v)
<1>1. /\ u.s \in {0, 1} /\ v.s \in {0, 1} /\ u.e \in Nat /\ v.e \in Nat
      /\ u.f \in Nat /\ v.f \in Nat
      /\ u = [s |-> u.s, e |-> u.e, f |-> u.f] /\ v = [s |-> v.s, e |-> v.e, f |-> v.f]
  BY FloatFields
<1> DEFINE null == u.e = 0 /\ u.f = 0 /\ v.e = 0 /\ v.f = 0
           same == u.e = v.e /\ u.f = v.f
<1>2. /\ u = Zero(1) <=> u.s = 1 /\ u.e = 0 /\ u.f = 0
      /\ u = Zero(0) <=> u.s = 0 /\ u.e = 0 /\ u.f = 0
      /\ v = Zero(1) <=> v.s = 1 /\ v.e = 0 /\ v.f = 0
      /\ v = Zero(0) <=> v.s = 0 /\ v.e = 0 /\ v.f = 0
      /\ u = v <=> u.s = v.s /\ same
  BY <1>1 DEF Zero
<1>3. Equal(u, v) <=> same /\ (u.s = v.s \/ null)
  <2>1. Zero(0) # Zero(1)
    BY DEF Zero
  <2>2. {u, v} = {Zero(0), Zero(1)} <=>
          \/ u = Zero(0) /\ v = Zero(1)
          \/ u = Zero(1) /\ v = Zero(0)
    BY <2>1
  <2>3. QED
    BY <1>1, <1>2, <2>2 DEF Equal
<1>4. Less(u, v) <=>
        /\ ~(null /\ u.s = 1 /\ v.s = 0)
        /\ \/ u.s = 1 /\ v.s = 0
           \/ u.s = 1 /\ v.s = 1 /\ Below(v, u)
           \/ u.s = 0 /\ v.s = 0 /\ Below(u, v)
  BY <1>1, <1>2 DEF Less, Below
<1>5. Below(u, v) \/ Below(v, u) \/ same
  BY <1>1 DEF Below
<1> DEFINE m == Magnitude(u)
           n == Magnitude(v)
<1>6. /\ m \in Nat /\ n \in Nat /\ (Below(u, v) => m < n) /\ (Below(v, u) => n < m)
      /\ (same => m = n)
  BY MagnitudesOrder
<1>7. null <=> m = 0 /\ n = 0
  BY ZeroIsLeast
<1>8. /\ Value(u) = IF u.s = 1 THEN -m ELSE m
      /\ Value(v) = IF v.s = 1 THEN -n ELSE n
  BY DEF Value
<1>9. same => (null <=> m = 0)
  BY <1>6, <1>7
<1> HIDE DEF m, n, null, same
<1>10. Equal(u, v) <=> Value(u) = Value(v)
  BY <1>1, <1>3, <1>5, <1>6, <1>7, <1>8
<1>11. Less(u, v) <=> Value(u) < Value(v)
  BY <1>1, <1>4, <1>5, <1>6, <1>7, <1>8
<1>12. QED
  BY <1>10, <1>11

\* What the unit shows is an outcome of its operation.
FpuInv ==
  /\ in \in FpuRecords
  /\ out # NoResult => out \in Outcomes(in.op, in.a, in.b, in.c)

\* The shown result has the type of its operation.
LEMMA FpuIsTyped ==
  FpuInv => FpuTypeOK
<1> SUFFICES ASSUME FpuInv PROVE FpuTypeOK
  OBVIOUS
<1>1. in.op \in FpuOps /\ in.a \in Float /\ in.b \in Float /\ in.c \in Float
  BY DEF FpuInv, FpuRecords
<1>2. Outcomes(in.op, in.a, in.b, in.c) \subseteq
        IF in.op \in Comparisons THEN BOOLEAN ELSE Float
  BY <1>1, OutcomesTyped
<1>3. out # NoResult => out \in IF in.op \in Comparisons THEN BOOLEAN ELSE Float
  BY <1>2, Zenon DEF FpuInv
<1>4. QED
  BY <1>1, <1>3, Zenon DEF FpuTypeOK

\* What the unit shows of a comparison is the order of the values.
LEMMA ComparisonsAreRight ==
  FpuInv => ComparisonsOrder
<1> SUFFICES ASSUME FpuInv, Computed(Comparisons), in.a.e # EMax, in.b.e # EMax
             PROVE  out = IF in.op = "EQ" THEN Value(in.a) = Value(in.b)
                                          ELSE Value(in.a) < Value(in.b)
  BY Zenon DEF ComparisonsOrder
<1>1. in.op \in Comparisons /\ in.a \in Float /\ in.b \in Float
      /\ out \in Outcomes(in.op, in.a, in.b, in.c)
  BY DEF FpuInv, FpuRecords, Computed
<1> DEFINE op == in.op
           u == in.a
           v == in.b
<1>2. Outcomes(op, u, v, in.c) = {Holds(op, u, v)}
  <2>1. Outcomes(op, u, v, in.c) =
          CASE op \in {"ADD", "SUB"}  -> Sum(op, u, v)
            [] op = "SUBABS"          -> {[r EXCEPT !.s = 0] : r \in Sum(op, u, v)}
            [] op = "MUL"             -> Product(u, v)
            [] op \in Fused           -> MultiplyAdd(op, u, v, in.c)
            [] op \in Comparisons     -> {Holds(op, u, v)}
    BY Zenon DEF Outcomes
  <2> DEFINE abs == {[r EXCEPT !.s = 0] : r \in Sum(op, u, v)}
             h == {Holds(op, u, v)}
  <2> HIDE DEF abs, h
  <2>2. Outcomes(op, u, v, in.c) = h
    BY <1>1, <2>1 DEF Fused, Comparisons, h
  <2>3. QED
    BY <2>2 DEF h
<1>3. out = Holds(op, u, v)
  BY <1>1, <1>2
<1>4. ~LooksNaN(u) /\ ~LooksNaN(v)
  BY <1>1 DEF LooksNaN
<1>5. Holds(op, u, v) \in BOOLEAN
  BY DEF Holds
<1>6. Holds(op, u, v) <=> IF op = "EQ" THEN Equal(u, v) ELSE Less(u, v)
  BY <1>4, Zenon DEF Holds
<1>7. /\ Equal(u, v) <=> Value(u) = Value(v)
      /\ Less(u, v) <=> Value(u) < Value(v)
  BY <1>1, OrderIsRight
<1> HIDE DEF op, u, v
<1>8. CASE op = "EQ"
  <2>1. out \in BOOLEAN /\ (out <=> Value(u) = Value(v))
    BY <1>3, <1>5, <1>6, <1>7, <1>8, Zenon
  <2>2. out = (Value(u) = Value(v))
    BY <2>1, Zenon
  <2>3. QED
    BY <1>8, <2>2, Zenon DEF op, u, v
<1>9. CASE op # "EQ"
  <2>1. out \in BOOLEAN /\ (out <=> Value(u) < Value(v))
    BY <1>3, <1>5, <1>6, <1>7, <1>9, Zenon
  <2>2. out = (Value(u) < Value(v))
    BY <2>1
  <2>3. QED
    BY <1>9, <2>2, Zenon DEF op, u, v
<1>10. QED
  BY <1>8, <1>9

--------------------------------------------------------------------------------
(* Products.                                                                *)

\* A mantissa with its leading one in place is packed without loss above its low bits.
LEMMA PackedKeeps ==
  ASSUME NEW s \in {0, 1}, NEW e \in 1 .. EMax, NEW m \in Nat, NEW low \in Nat,
         NEW q, q = m \div Pow2[low], q \in P .. 2 * P - 1
  PROVE  /\ Packed(s, e, m, low) \in Float
         /\ Packed(s, e, m, low).s = s /\ Packed(s, e, m, low).e = e
         /\ Magnitude(Packed(s, e, m, low)) = q * Pow2[e - 1]
<1> DEFINE r == Packed(s, e, m, low)
           k == Pow2[EB]
<1>1. /\ P \in Nat \ {0, 1} /\ Pow2[F] = P /\ k \in Nat \ {0} /\ EMax = k - 1
      /\ EMax \in Nat
  BY DividerWidths DEF EMax
<1>2. r \in Float
  <2>1. e \in Int /\ m \in Int
    BY <1>1
  <2>2. QED
    BY <2>1, PackedIsFloat
<1> HIDE DEF k
<1>3. e \in 0 .. k - 1 /\ e \in Nat \ {0}
  BY <1>1
<1>4. e % k = e
  BY <1>1, <1>3, Small
<1>5. q \in Nat /\ q % P = q - P
  <2>1. P \in Nat \ {0} /\ q \in P .. 2 * P - 1
    BY <1>1
  <2>2. q % P = q - P
    BY <2>1, Once
  <2>3. QED
    BY <2>1, <2>2
<1>6. r.s = s /\ r.e = e /\ r.f = q - P
  <2>1. r.s = s /\ r.e = e % k /\ r.f = (m \div Pow2[low]) % Pow2[F]
    BY DEF Packed, k
  <2>2. r.f = q % P
    BY <1>1, <2>1
  <2>3. QED
    BY <1>4, <1>5, <2>1, <2>2
<1>7. e * P + (q - P) = (e - 1) * P + q
  <2>1. e \in Int /\ P \in Int /\ q \in Int
    BY <1>1, <1>3, <1>5
  <2>2. QED
    BY <2>1
<1>8. Units((e - 1) * P + q) = q * Pow2[e - 1]
  <2>1. e \in Nat \ {0} /\ q \in 0 .. 2 * Pow2[F] /\ q >= Pow2[F]
    BY <1>1, <1>3
  <2>2. QED
    BY <1>1, <2>1, UnitsOfMantissa
<1> HIDE DEF r
<1>9. Magnitude(r) = Units(e * P + (q - P))
  BY <1>1, <1>6, Zenon DEF Magnitude
<1>10. QED
  BY <1>2, <1>6, <1>7, <1>8, <1>9 DEF r

\* A normal number is its mantissa times the weight of its last place.
LEMMA NormalMagnitude ==
  ASSUME NEW v \in Float, v.e # 0
  PROVE  /\ Exponent(v) = v.e /\ v.e \in Nat \ {0}
         /\ Mantissa(v) \in P .. 2 * P - 1
         /\ Magnitude(v) = Mantissa(v) * Pow2[v.e - 1]
<1>1. /\ v.e \in Nat \ {0} /\ v.f \in 0 .. P - 1 /\ P \in Nat \ {0, 1} /\ Pow2[F] = P
  BY FloatFields, DividerWidths
<1>2. Exponent(v) = v.e /\ Mantissa(v) = P + v.f
  BY <1>1, Zenon DEF Exponent, Mantissa
<1> DEFINE M == Mantissa(v)
<1>3. M \in P .. 2 * P - 1 /\ v.f = M - P
  BY <1>1, <1>2
<1> HIDE DEF M
<1>4. v.e * P + v.f = (v.e - 1) * P + M
  <2>1. v.e \in Int /\ P \in Int /\ M \in Int
    BY <1>1, <1>3
  <2>2. QED
    BY <1>3, <2>1
<1>5. Units((v.e - 1) * P + M) = M * Pow2[v.e - 1]
  <2>1. M \in 0 .. 2 * Pow2[F] /\ M >= Pow2[F]
    BY <1>1, <1>3
  <2>2. QED
    BY <1>1, <2>1, UnitsOfMantissa
<1>6. Magnitude(v) = Units(v.e * P + v.f)
  BY <1>1, Zenon DEF Magnitude
<1>7. QED
  BY <1>1, <1>2, <1>3, <1>4, <1>5, <1>6 DEF M

\* The product of two mantissas has its leading one in one of two places.
LEMMA ProductOfMantissas ==
  ASSUME NEW p \in Nat \ {0}, NEW m \in p .. 2 * p - 1, NEW n \in p .. 2 * p - 1
  PROVE  m * n \in Nat /\ m * n >= p * p /\ m * n < 4 * (p * p)
<1>1. m \in Nat /\ n \in Nat
  OBVIOUS
<1>2. m * n \in Nat /\ p * n \in Nat /\ p * p \in Nat
  BY <1>1
<1>3. m * n >= p * n
  <2>1. (m - p) * n \in Nat
    BY <1>1, m - p \in Nat
  <2>2. m * n = p * n + (m - p) * n
    BY <1>1
  <2>3. QED
    BY <1>2, <2>1, <2>2
<1>4. p * n >= p * p
  <2>1. p * (n - p) \in Nat
    BY <1>1, n - p \in Nat
  <2>2. p * n = p * p + p * (n - p)
    BY <1>1
  <2>3. QED
    BY <1>2, <2>1, <2>2
<1>5. m * n < 2 * (p * n)
  <2>1. (2 * p - m) * n \in Nat \ {0}
    BY <1>1, 2 * p - m \in Nat \ {0}, n \in Nat \ {0}
  <2>2. 2 * (p * n) = m * n + (2 * p - m) * n
    BY <1>1
  <2>3. QED
    BY <1>2, <2>1, <2>2
<1>6. p * n <= 2 * (p * p)
  <2>1. p * (2 * p - n) \in Nat
    BY <1>1, 2 * p - n \in Nat
  <2>2. 2 * (p * p) = p * n + p * (2 * p - n)
    BY <1>1
  <2>3. QED
    BY <1>2, <2>1, <2>2
<1>7. QED
  BY <1>2, <1>3, <1>4, <1>5, <1>6

\* The high bits of a number.
LEMMA Truncated ==
  ASSUME NEW m \in Nat, NEW k \in Nat \ {0}, NEW lo \in Nat, NEW hi \in Nat,
         k * lo <= m, m < k * hi
  PROVE  /\ m \div k \in lo .. hi - 1
         /\ k * (m \div k) <= m /\ m < k * (m \div k + 1)
<1> DEFINE q == m \div k
           r == m % k
<1>1. m = (k * q) + r /\ q \in Nat /\ r \in 0 .. k - 1
  <2>1. m \in Int
    OBVIOUS
  <2>2. QED
    BY <2>1, Division
<1> HIDE DEF q, r
<1>2. k * (q + 1) = k * q + k /\ k * q \in Nat
  BY <1>1
<1>3. k * q <= m /\ m < k * (q + 1)
  BY <1>1, <1>2
<1>4. q >= lo
  <2>1. SUFFICES ASSUME q + 1 <= lo PROVE FALSE
    BY <1>1
  <2>2. k * (lo - (q + 1)) \in Nat
    BY <1>1, <2>1, lo - (q + 1) \in Nat
  <2>3. k * lo = k * (q + 1) + k * (lo - (q + 1))
    BY <1>1
  <2>4. k * lo \in Nat /\ k * (q + 1) \in Nat
    BY <1>1
  <2>5. QED
    BY <1>3, <2>2, <2>3, <2>4
<1>5. q <= hi - 1
  <2>1. SUFFICES ASSUME hi <= q PROVE FALSE
    BY <1>1
  <2>2. k * (q - hi) \in Nat
    BY <1>1, <2>1, q - hi \in Nat
  <2>3. k * q = k * hi + k * (q - hi)
    BY <1>1
  <2>4. k * hi \in Nat /\ k * q \in Nat
    BY <1>1
  <2>5. QED
    BY <1>3, <2>2, <2>3, <2>4
<1>6. QED
  BY <1>1, <1>3, <1>4, <1>5 DEF q

\* What the multiplier makes of two normal numbers whose product is in range.
LEMMA MultiplierTruncates ==
  ASSUME NEW u \in Float, NEW v \in Float, u.e # 0, v.e # 0,
         NEW e, e = u.e + v.e - Bias, e \in 1 .. EMax - 2,
         NEW r \in Multiplier(u, v)
  PROVE  /\ r \in Float /\ r.s = Xor(u.s, v.s) /\ r.e \in {e, e + 1}
         /\ Magnitude(r) * One <= Magnitude(u) * Magnitude(v)
         /\ Magnitude(u) * Magnitude(v) < (Magnitude(r) + Pow2[r.e - 1]) * One
<1> DEFINE Mu == Mantissa(u)
           Mv == Mantissa(v)
           M  == Mu * Mv
           s  == Xor(u.s, v.s)
<1>1. /\ P \in Nat \ {0, 1} /\ Pow2[F] = P /\ EMax = Pow2[EB] - 1 /\ EMax \in Nat
      /\ F \in Nat \ {0} /\ Bias \in Nat \ {0}
  BY DividerWidths DEF EMax
<1>2. /\ Exponent(u) = u.e /\ u.e \in Nat \ {0} /\ Mu \in P .. 2 * P - 1
      /\ Magnitude(u) = Mu * Pow2[u.e - 1]
  BY NormalMagnitude
<1>3. /\ Exponent(v) = v.e /\ v.e \in Nat \ {0} /\ Mv \in P .. 2 * P - 1
      /\ Magnitude(v) = Mv * Pow2[v.e - 1]
  BY NormalMagnitude
<1>4. e \in Nat \ {0} /\ e % Pow2[EB] = e /\ e + 1 \in 1 .. EMax /\ e \in 1 .. EMax
  <2>1. e \in Nat \ {0} /\ e + 1 \in 1 .. EMax /\ e \in 1 .. EMax
    BY <1>1
  <2>2. e \in 0 .. Pow2[EB] - 1 /\ Pow2[EB] \in Nat \ {0}
    <3>1. Pow2[EB] = EMax + 1
      BY DividerWidths
    <3>2. QED
      BY <1>1, <2>1, <3>1
  <2>3. QED
    BY <2>1, <2>2, Small
<1>5. s \in {0, 1}
  BY FloatFields, SpecialValues
<1>6. M \in Nat /\ M >= P * P /\ M < 4 * (P * P) /\ P * P \in Nat
  <2>1. M \in Nat /\ M >= P * P /\ M < 4 * (P * P)
    BY <1>1, <1>2, <1>3, ProductOfMantissas
  <2>2. QED
    BY <1>1, <2>1
<1>7. Pow2[F + F] = P * P /\ Pow2[F + F + 1] = 2 * (P * P)
  <2>1. Pow2[F + F] = P * P
    BY <1>1, PowSum
  <2>2. F + F \in Nat
    BY <1>1
  <2>3. QED
    BY <2>1, <2>2, PowStep
<1>8. r \in Normalised(s, e, M, F, MulShifts)
  <2>1. Multiplier(u, v) =
          Normalised(s, (Exponent(u) + Exponent(v) - Bias) % Pow2[EB], M, F, MulShifts)
    BY Zenon DEF Multiplier
  <2>2. (Exponent(u) + Exponent(v) - Bias) % Pow2[EB] = e
    BY <1>2, <1>3, <1>4
  <2>3. QED
    BY <2>1, <2>2
\* The weights of the exact product.
<1> DEFINE K == Pow2[e + Bias - 2]
<1>9. K \in Nat \ {0}
  BY <1>1, <1>4, e + Bias - 2 \in Nat, PowNat
<1>10. Magnitude(u) * Magnitude(v) = M * K
  <2> DEFINE ku == Pow2[u.e - 1]
             kv == Pow2[v.e - 1]
  <2>1. ku \in Nat /\ kv \in Nat /\ Mu \in Nat /\ Mv \in Nat
    BY <1>1, <1>2, <1>3, PowNat
  <2>2. K = ku * kv
    <3>1. u.e - 1 \in Nat /\ v.e - 1 \in Nat /\ e + Bias - 2 = (u.e - 1) + (v.e - 1)
      BY <1>1, <1>2, <1>3
    <3>2. QED
      BY <3>1, PowSum
  <2> HIDE DEF ku, kv, K, Mu, Mv
  <2>3. (Mu * ku) * (Mv * kv) = (Mu * Mv) * (ku * kv)
    BY <2>1
  <2>4. QED
    BY <1>2, <1>3, <2>2, <2>3 DEF ku, kv
<1>11. \A i \in Nat \ {0} : i >= e =>
         Pow2[i - 1] * One = P * (Pow2[i - e] * K)
  <2> TAKE i \in Nat \ {0}
  <2> HAVE i >= e
  <2>1. One = Pow2[Bias + F - 1]
    BY DEF One
  <2>2. /\ i - 1 \in Nat /\ Bias + F - 1 \in Nat /\ F \in Nat /\ i - e \in Nat
        /\ e + Bias - 2 \in Nat /\ (i - e) + (e + Bias - 2) \in Nat
        /\ (i - 1) + (Bias + F - 1) = F + ((i - e) + (e + Bias - 2))
    BY <1>1, <1>4
  <2>3. Pow2[(i - 1) + (Bias + F - 1)] = Pow2[i - 1] * Pow2[Bias + F - 1]
    BY <2>2, PowSum
  <2>4. Pow2[F + ((i - e) + (e + Bias - 2))] = Pow2[F] * Pow2[(i - e) + (e + Bias - 2)]
    BY <2>2, PowSum
  <2>5. Pow2[(i - e) + (e + Bias - 2)] = Pow2[i - e] * K
    BY <2>2, PowSum
  <2>6. QED
    BY <1>1, <2>1, <2>2, <2>3, <2>4, <2>5
<1>12. One \in Nat
  BY <1>1, Bias + F - 1 \in Nat, PowNat DEF One
<1> HIDE DEF K
\* What remains, once the result is known.
<1>13. ASSUME NEW i \in {e, e + 1}, NEW q \in Nat,
              r \in Float, r.s = s, r.e = i, Magnitude(r) = q * Pow2[i - 1],
              P * Pow2[i - e] * q <= M, M < P * Pow2[i - e] * (q + 1)
       PROVE  /\ r \in Float /\ r.s = Xor(u.s, v.s) /\ r.e \in {e, e + 1}
              /\ Magnitude(r) * One <= Magnitude(u) * Magnitude(v)
              /\ Magnitude(u) * Magnitude(v) < (Magnitude(r) + Pow2[r.e - 1]) * One
  <2> DEFINE w == Pow2[i - 1]
             g == Pow2[i - e]
  <2>1. /\ i \in Nat \ {0} /\ i >= e /\ i - 1 \in Nat /\ i - e \in Nat
    BY <1>4
  <2>2. w \in Nat /\ g \in Nat
    BY <2>1, PowNat
  <2>3. w * One = P * (g * K)
    BY <1>11, <2>1
  <2> HIDE DEF w, g
  <2>4. (q * w) * One = q * (w * One) /\ (q * w + w) * One = (q + 1) * (w * One)
    BY <1>12, <2>2
  <2>5. q * (P * (g * K)) = (P * g * q) * K /\ (q + 1) * (P * (g * K)) = (P * g * (q + 1)) * K
    BY <1>1, <1>9, <2>2
  <2> DEFINE L == P * g * q
             H == P * g * (q + 1)
  <2>6. L \in Nat /\ H \in Nat /\ L <= M /\ M < H
    BY <1>1, <1>13, <2>2 DEF g
  <2> HIDE DEF L, H, M
  <2>7. L * K <= M * K /\ M * K < H * K
    <3>1. (M - L) * K \in Nat /\ (H - M) * K \in Nat \ {0}
      BY <1>6, <1>9, <2>6, M - L \in Nat, H - M \in Nat \ {0}
    <3>2. /\ M * K = L * K + (M - L) * K /\ H * K = M * K + (H - M) * K
          /\ M * K \in Nat /\ L * K \in Nat /\ H * K \in Nat
      BY <1>6, <1>9, <2>6
    <3>3. QED
      BY <3>1, <3>2
  <2>8. Magnitude(r) * One = L * K /\ (Magnitude(r) + Pow2[r.e - 1]) * One = H * K
    BY <1>13, <2>3, <2>4, <2>5 DEF w, L, H
  <2>9. QED
    BY <1>10, <1>13, <2>7, <2>8
<1>14. CASE M >= 2 * (P * P)
  <2> DEFINE m == M \div 2
             q == m \div P
  <2>1. m \in Nat /\ 2 * m <= M /\ M < 2 * (m + 1) /\ m >= P * P /\ m < 2 * (P * P)
    <3>1. 2 * (P * P) <= M /\ M < 2 * (2 * (P * P)) /\ 2 * (P * P) \in Nat /\ 2 \in Nat \ {0}
      BY <1>6, <1>14
    <3>2. m \in (P * P) .. (2 * (P * P) - 1) /\ 2 * m <= M /\ M < 2 * (m + 1)
      BY <1>6, <3>1, Truncated
    <3>3. QED
      BY <1>6, <3>2
  <2>2. r = Packed(s, e + 1, m, F)
    <3>1. M >= Pow2[F + F + 1]
      BY <1>7, <1>14
    <3>2. Normalised(s, e, M, F, MulShifts) = {Packed(s, e + 1, M \div 2, F)}
      BY <3>1, Zenon DEF Normalised
    <3>3. QED
      BY <1>8, <3>2
  <2> HIDE DEF m
  <2>3. q \in P .. 2 * P - 1 /\ P * q <= m /\ m < P * (q + 1)
    <3>1. P * P <= m /\ m < P * (2 * P) /\ P \in Nat /\ 2 * P \in Nat /\ P \in Nat \ {0}
      BY <1>1, <2>1
    <3>2. QED
      BY <2>1, <3>1, Truncated
  <2>4. q = m \div Pow2[F]
    BY <1>1
  <2> HIDE DEF q
  <2>5. /\ r \in Float /\ r.s = s /\ r.e = e + 1
        /\ Magnitude(r) = q * Pow2[e + 1 - 1]
    <3> DEFINE i == e + 1
    <3>1. i \in 1 .. EMax /\ F \in Nat /\ r = Packed(s, i, m, F)
      BY <1>1, <1>4, <2>2
    <3> HIDE DEF i
    <3>2. r \in Float /\ r.s = s /\ r.e = i /\ Magnitude(r) = q * Pow2[i - 1]
      BY <1>5, <2>1, <2>3, <2>4, <3>1, PackedKeeps
    <3>3. QED
      BY <3>2 DEF i
  <2>6. q \in Nat /\ Pow2[e + 1 - e] = 2
    <3>1. e + 1 - e = 0 + 1 /\ 0 \in Nat
      BY <1>4
    <3>2. QED
      BY <1>1, <2>3, <3>1, PowStep
  <2>7. P * 2 * q <= M /\ M < P * 2 * (q + 1)
    <3>1. P * q \in Nat /\ P * (q + 1) = P * q + P /\ P * 2 * q = 2 * (P * q)
          /\ P * 2 * (q + 1) = 2 * (P * (q + 1))
      BY <1>1, <2>6
    <3>2. m + 1 <= P * (q + 1)
      BY <1>1, <2>1, <2>3, <3>1
    <3>3. QED
      BY <1>1, <1>6, <2>1, <2>3, <3>1, <3>2
  <2>8. e + 1 \in {e, e + 1}
    OBVIOUS
  <2>9. QED
    BY <1>13, <2>5, <2>6, <2>7, <2>8
<1>15. CASE M < 2 * (P * P)
  <2> DEFINE q == M \div P
  <2>1. r = Packed(s, e, M, F)
    <3>1. ~(M >= Pow2[F + F + 1]) /\ M >= Pow2[F + F]
      BY <1>6, <1>7, <1>15
    <3>2. Normalised(s, e, M, F, MulShifts) = {Packed(s, e, M, F)}
      BY <3>1, Zenon DEF Normalised
    <3>3. QED
      BY <1>8, <3>2
  <2>2. q \in P .. 2 * P - 1 /\ P * q <= M /\ M < P * (q + 1)
    <3>1. P * P <= M /\ M < P * (2 * P) /\ P \in Nat /\ 2 * P \in Nat /\ P \in Nat \ {0}
      BY <1>1, <1>6, <1>15
    <3>2. QED
      BY <1>6, <3>1, Truncated
  <2>3. q = M \div Pow2[F]
    BY <1>1
  <2> HIDE DEF q
  <2>4. /\ r \in Float /\ r.s = s /\ r.e = e
        /\ Magnitude(r) = q * Pow2[e - 1]
    BY <1>1, <1>4, <1>5, <1>6, <2>1, <2>2, <2>3, PackedKeeps
  <2>5. q \in Nat /\ Pow2[e - e] = 1
    <3>1. e - e = 0
      BY <1>4
    <3>2. QED
      BY <1>1, <2>2, <3>1, PowStep
  <2>6. P * 1 * q <= M /\ M < P * 1 * (q + 1)
    BY <1>1, <2>2, <2>5
  <2>7. e \in {e, e + 1}
    OBVIOUS
  <2>8. QED
    BY <1>13, <2>4, <2>5, <2>6, <2>7
<1>16. QED
  BY <1>6, <1>14, <1>15

\* What the unit shows of a product is below it by less than a place, or a special value.
LEMMA ProductsAreTruncated ==
  FpuInv => ProductsTruncate
<1> DEFINE u == in.a
           v == in.b
           e == in.a.e + in.b.e - Bias
<1> SUFFICES ASSUME FpuInv, Computed({"MUL"}), u.e \in 1 .. EMax - 1, v.e \in 1 .. EMax - 1,
                    e \in 1 .. EMax - 2
             PROVE  /\ out.s = Xor(u.s, v.s)
                    /\ Magnitude(out) * One <= Magnitude(u) * Magnitude(v)
                    /\ Magnitude(u) * Magnitude(v) < (Magnitude(out) + Ulp(out.e)) * One
  BY Zenon DEF ProductsTruncate
<1>1. /\ in.op = "MUL" /\ u \in Float /\ v \in Float
      /\ out \in Outcomes(in.op, u, v, in.c)
  BY DEF FpuInv, FpuRecords, Computed
<1>2. EMax \in Nat /\ u.e \in Nat \ {0} /\ v.e \in Nat \ {0} /\ u.e # EMax /\ v.e # EMax
  BY DividerWidths
<1>3. ~LooksNaN(u) /\ ~LooksNaN(v) /\ ~LooksZero(u) /\ ~LooksZero(v)
  BY <1>2 DEF LooksNaN, LooksZero
<1>4. Outcomes(in.op, u, v, in.c) = Product(u, v)
  <2> DEFINE op == in.op
             abs == {[r EXCEPT !.s = 0] : r \in Sum(op, u, v)}
  <2>1. Outcomes(op, u, v, in.c) =
          CASE op \in {"ADD", "SUB"}  -> Sum(op, u, v)
            [] op = "SUBABS"          -> abs
            [] op = "MUL"             -> Product(u, v)
            [] op \in Fused           -> MultiplyAdd(op, u, v, in.c)
            [] op \in Comparisons     -> {Holds(op, u, v)}
    BY Zenon DEF Outcomes
  <2> HIDE DEF abs
  <2>2. QED
    BY <1>1, <2>1 DEF Fused, Comparisons
<1>5. Product(u, v) = Multiplier(u, v)
  BY <1>2, <1>3, Zenon DEF Product
<1>6. /\ out \in Float /\ out.s = Xor(u.s, v.s) /\ out.e \in {e, e + 1}
      /\ Magnitude(out) * One <= Magnitude(u) * Magnitude(v)
      /\ Magnitude(u) * Magnitude(v) < (Magnitude(out) + Pow2[out.e - 1]) * One
  <2>1. out \in Multiplier(u, v)
    BY <1>1, <1>4, <1>5
  <2>2. u.e # 0 /\ v.e # 0
    BY <1>2
  <2> HIDE DEF u, v
  <2>3. e = u.e + v.e - Bias
    BY DEF u, v
  <2> HIDE DEF e
  <2>4. QED
    BY <1>1, <2>1, <2>2, <2>3, MultiplierTruncates
<1>7. Ulp(out.e) = Pow2[out.e - 1]
  <2>1. e \in Nat \ {0}
    BY <1>2
  <2>2. out.e # 0
    BY <1>6, <2>1
  <2>3. QED
    BY <2>2, Zenon DEF Ulp
<1>8. QED
  BY <1>6, <1>7

--------------------------------------------------------------------------------
(* Sums.                                                                    *)

\* What aligning a mantissa leaves of a number, and what it loses.
LEMMA ShiftLoses ==
  ASSUME NEW m \in Nat, NEW k \in Nat \ {0}, NEW w \in Nat \ {0}, NEW t, t = m \div k
  PROVE  /\ t \in Nat /\ k * t <= m
         /\ k * w \in Nat \ {0} /\ t * (k * w) <= m * w /\ m * w < t * (k * w) + k * w
<1> DEFINE r == m % k
<1>1. m = (k * t) + r /\ t \in Nat /\ r \in 0 .. k - 1
  <2>1. m \in Int
    OBVIOUS
  <2>2. QED
    BY <2>1, Division
<1> HIDE DEF r
<1>2. k * w \in Nat \ {0} /\ k * t \in Nat /\ t * (k * w) = (k * t) * w
  BY <1>1
<1>3. m * w = (k * t) * w + r * w
  <2> DEFINE n == k * t
  <2>1. n \in Nat /\ m = n + r /\ r \in Nat
    BY <1>1, <1>2
  <2> HIDE DEF n
  <2>2. m * w = n * w + r * w
    BY <2>1
  <2>3. QED
    BY <2>2 DEF n
<1>4. r * w \in Nat /\ r * w < k * w
  <2>1. (k - r) * w \in Nat \ {0}
    BY <1>1, k - r \in Nat \ {0}
  <2>2. k * w = r * w + (k - r) * w /\ r * w \in Nat
    BY <1>1
  <2>3. QED
    BY <1>2, <2>1, <2>2
<1>5. t * (k * w) \in Nat
  BY <1>1, <1>2
<1>6. QED
  BY <1>1, <1>2, <1>3, <1>4, <1>5

\* A mantissa that the adder's normaliser can handle, in the middle of the range.
LEMMA NormalisesExactly ==
  ASSUME NEW s \in {0, 1}, NEW e \in Nat, AddShifts < e, e < EMax - 1,
         NEW m \in Nat, Pow2[F - AddShifts] <= m, m < 4 * P,
         NEW r \in Normalised(s, e, m, 0, AddShifts)
  PROVE  /\ r \in Float /\ r.s = s /\ r.e \in Nat \ {0}
         /\ \/ r.e = e + 1 /\ Magnitude(r) = (m \div 2) * Pow2[e]
            \/ r.e <= e /\ Magnitude(r) = m * Pow2[e - 1]
<1>1. /\ P \in Nat \ {0, 1} /\ Pow2[F] = P /\ Pow2[F + 1] = 2 * P /\ Pow2[0] = 1
      /\ EMax \in Nat /\ EMax + 1 = Pow2[EB] /\ F \in Nat \ {0}
      /\ AddShifts \in 1 .. F - 1 /\ 0 + F = F
  <2>1. /\ P \in Nat \ {0, 1} /\ Pow2[F] = P /\ EMax \in Nat /\ EMax + 1 = Pow2[EB]
        /\ F \in Nat \ {0}
    BY DividerWidths
  <2>2. AddShifts \in 1 .. F - 1
    BY FpuAssumption
  <2>3. Pow2[F + 1] = 2 * Pow2[F] /\ Pow2[0] = 1
    BY <2>1, PowStep
  <2>4. QED
    BY <2>1, <2>2, <2>3
<1>2. /\ e \in 1 .. EMax /\ e + 1 \in 1 .. EMax /\ e % Pow2[EB] = e /\ e # 0
  <2>1. e \in 0 .. Pow2[EB] - 1 /\ Pow2[EB] \in Nat \ {0}
    BY <1>1
  <2>2. e % Pow2[EB] = e
    BY <2>1, Small
  <2>3. QED
    BY <1>1, <2>2
<1>3. CASE m >= 2 * P
  <2> DEFINE h == m \div 2
  <2>1. h \in P .. 2 * P - 1
    <3>1. 2 * P <= m /\ m < 2 * (2 * P) /\ P \in Nat /\ 2 * P \in Nat /\ 2 \in Nat \ {0}
      BY <1>1, <1>3
    <3>2. QED
      BY <3>1, Truncated
  <2>2. r = Packed(s, e + 1, h, 0)
    <3>1. m >= Pow2[0 + F + 1]
      BY <1>1, <1>3
    <3>2. Normalised(s, e, m, 0, AddShifts) = {Packed(s, e + 1, m \div 2, 0)}
      BY <3>1, Zenon DEF Normalised
    <3>3. QED
      BY <3>2
  <2> HIDE DEF h
  <2>3. h = h \div Pow2[0] /\ h \in Nat /\ 0 \in Nat
    <3>1. h \in Nat
      BY <1>1, <2>1
    <3>2. h \div 1 = h
      <4>1. h = 1 * h + 0 /\ h \in Int /\ 0 \in 0 .. 1 - 1 /\ 1 \in Nat \ {0}
        BY <3>1
      <4>2. QED
        BY <4>1, DivisionIs
    <3>3. QED
      BY <1>1, <3>1, <3>2
  <2> DEFINE i == e + 1
  <2>4. i \in 1 .. EMax /\ r = Packed(s, i, h, 0) /\ i - 1 = e /\ i \in Nat \ {0}
    BY <1>2, <2>2
  <2> HIDE DEF i
  <2>5. r \in Float /\ r.s = s /\ r.e = i /\ Magnitude(r) = h * Pow2[i - 1]
    BY <2>1, <2>3, <2>4, PackedKeeps
  <2>6. QED
    BY <2>4, <2>5 DEF i, h
<1>4. ASSUME NEW j \in 0 .. AddShifts, NEW q, q = m * Pow2[j], q \in P .. 2 * P - 1,
             r = Packed(s, e - j, q, 0)
      PROVE  r \in Float /\ r.s = s /\ r.e \in Nat \ {0} /\ r.e <= e
             /\ Magnitude(r) = m * Pow2[e - 1]
  <2> DEFINE i == e - j
  <2>1. i \in 1 .. EMax /\ i \in Nat \ {0} /\ i <= e /\ j \in Nat /\ i - 1 \in Nat
        /\ j + (i - 1) = e - 1
    BY <1>1, <1>2
  <2>2. q = q \div Pow2[0] /\ q \in Nat /\ 0 \in Nat
    <3>1. q \in Nat
      BY <1>1, <1>4
    <3>2. q \div 1 = q
      <4>1. q = 1 * q + 0 /\ q \in Int /\ 0 \in 0 .. 1 - 1 /\ 1 \in Nat \ {0}
        BY <3>1
      <4>2. QED
        BY <4>1, DivisionIs
    <3>3. QED
      BY <1>1, <3>1, <3>2
  <2>3. r = Packed(s, i, q, 0)
    BY <1>4
  <2> HIDE DEF i
  <2>4. r \in Float /\ r.s = s /\ r.e = i /\ Magnitude(r) = q * Pow2[i - 1]
    BY <1>4, <2>1, <2>2, <2>3, PackedKeeps
  <2>5. Pow2[e - 1] = Pow2[j] * Pow2[i - 1] /\ Pow2[j] \in Nat /\ Pow2[i - 1] \in Nat
    BY <2>1, PowSum, PowNat
  <2>6. q * Pow2[i - 1] = m * Pow2[e - 1]
    BY <1>4, <2>5
  <2>7. QED
    BY <2>1, <2>4, <2>6
<1>5. CASE m < 2 * P /\ m >= P
  <2>1. r = Packed(s, e, m, 0)
    <3>1. ~(m >= Pow2[0 + F + 1]) /\ m >= Pow2[0 + F]
      BY <1>1, <1>5
    <3>2. Normalised(s, e, m, 0, AddShifts) = {Packed(s, e, m, 0)}
      BY <3>1, Zenon DEF Normalised
    <3>3. QED
      BY <3>2
  <2>2. /\ 0 \in 0 .. AddShifts /\ e - 0 = e /\ m * Pow2[0] = m /\ m \in P .. 2 * P - 1
    BY <1>1, <1>5
  <2>3. QED
    BY <1>4, <2>1, <2>2
<1>6. CASE m < P
  <2>1. PICK j \in 1 .. AddShifts : /\ Pow2[F - j] <= m /\ m < Pow2[F - j + 1]
                                    /\ r = Packed(s, e - j, m * Pow2[j], 0)
    <3> DEFINE top == 0 + F
               Left == {Packed(s, e - k, m * Pow2[k], 0) :
                          k \in {i \in 1 .. AddShifts :
                                   Pow2[top - i] <= m /\ m < Pow2[top - i + 1]}}
               Carried == {Packed(s, e + 1, m \div 2, 0)}
               Placed  == {Packed(s, e, m, 0)}
               Latched == {[h EXCEPT !.s = s] : h \in Held}
    <3>1. ~(m >= Pow2[top + 1]) /\ ~(m >= Pow2[top]) /\ e % Pow2[EB] # 0
          /\ m >= Pow2[top - AddShifts]
      BY <1>1, <1>2, <1>6
    <3>2. Normalised(s, e, m, 0, AddShifts) =
            IF m >= Pow2[top + 1] THEN Carried
            ELSE IF m >= Pow2[top] \/ e % Pow2[EB] = 0 THEN Placed
            ELSE IF m >= Pow2[top - AddShifts] THEN Left
            ELSE Latched
      BY Zenon DEF Normalised
    <3>3. r \in Left
      <4> HIDE DEF Left, Carried, Placed, Latched, top
      <4> QED BY <3>1, <3>2
    <3> DEFINE Found == {i \in 1 .. AddShifts : Pow2[top - i] <= m /\ m < Pow2[top - i + 1]}
    <3>4. PICK j \in Found : r = Packed(s, e - j, m * Pow2[j], 0)
      BY <3>3, Zenon
    <3>5. j \in 1 .. AddShifts /\ Pow2[top - j] <= m /\ m < Pow2[top - j + 1]
      BY <3>4, Zenon
    <3>6. top - j = F - j
      BY <1>1
    <3>7. QED
      BY <3>4, <3>5, <3>6
  <2> DEFINE q == m * Pow2[j]
             k == Pow2[j]
             p == Pow2[F - j]
  <2>2. k \in Nat \ {0} /\ p \in Nat \ {0} /\ P = p * k /\ Pow2[F - j + 1] = 2 * p
    <3> DEFINE n == F - j
    <3>1. j \in Nat /\ n \in Nat /\ n + j = F
      BY <1>1
    <3> HIDE DEF n
    <3>2. Pow2[n + j] = Pow2[n] * Pow2[j] /\ Pow2[n + 1] = 2 * Pow2[n]
          /\ Pow2[n] \in Nat \ {0} /\ Pow2[j] \in Nat \ {0}
      BY <3>1, PowSum, PowNat, PowStep
    <3>3. QED
      BY <1>1, <3>1, <3>2 DEF n
  <2>3. p <= m /\ m < 2 * p
    BY <2>1, <2>2
  <2>4. q \in P .. 2 * P - 1
    <3> DEFINE pk == p * k
               mk == m * k
    <3>1. (m - p) * k \in Nat /\ (2 * p - m) * k \in Nat \ {0}
      <4> HIDE DEF p, k
      <4>1. m - p \in Nat /\ 2 * p - m \in Nat \ {0}
        BY <2>2, <2>3
      <4>2. QED
        BY <2>2, <4>1
    <3>2. mk = pk + (m - p) * k /\ 2 * pk = mk + (2 * p - m) * k /\ mk \in Nat /\ pk \in Nat
      <4> HIDE DEF p, k
      <4>1. QED
        BY <2>2
    <3>3. q = mk /\ P = pk
      BY <2>2
    <3> HIDE DEF pk, mk, p, k, q
    <3>4. QED
      BY <3>1, <3>2, <3>3
  <2>5. j \in 0 .. AddShifts
    BY <1>1
  <2> HIDE DEF q, k, p
  <2>6. q = m * Pow2[j] /\ r = Packed(s, e - j, q, 0)
    BY <2>1 DEF q
  <2>7. QED
    BY <1>4, <2>4, <2>5, <2>6
<1>7. QED
  BY <1>1, <1>3, <1>5, <1>6

\* An exponent and a mantissa with what the value they stand for is off: the adder's
\* number before it is normalised, its operands having mantissas M and N, of which the
\* second is shifted k places.
Aligning(p, M, N, k, w, t) ==
  /\ p \in Nat \ {0, 1} /\ M \in p .. 2 * p - 1 /\ N \in p .. 2 * p - 1
  /\ k \in Nat \ {0} /\ w \in Nat \ {0} /\ t = N \div k
  /\ k = 1 => M >= N

\* Adding what is left of the smaller number to the larger one.
LEMMA AlignedSum ==
  ASSUME NEW p, NEW M, NEW N, NEW k, NEW w, NEW t, Aligning(p, M, N, k, w, t)
  PROVE  LET g == N * w - t * (k * w)
         IN  /\ M + t \in p .. 4 * p - 1 /\ (k = 1 => M + t >= 2 * p)
             /\ g \in Nat /\ g < k * w /\ k * w \in Nat \ {0}
             /\ M * (k * w) + N * w = (M + t) * (k * w) + g
             /\ t \in Nat /\ t < 2 * p
<1> USE DEF Aligning
<1>1. p \in Nat \ {0, 1} /\ M \in Nat /\ N \in Nat /\ k \in Nat \ {0} /\ w \in Nat \ {0}
  OBVIOUS
<1>2. /\ t \in Nat /\ k * t <= N
      /\ k * w \in Nat \ {0} /\ t * (k * w) <= N * w /\ N * w < t * (k * w) + k * w
  BY <1>1, ShiftLoses
<1>3. t <= k * t
  <2> DEFINE n == k - 1
  <2>1. n \in Nat /\ k = n + 1
    BY <1>1
  <2> HIDE DEF n
  <2>2. (n + 1) * t = n * t + t /\ n * t \in Nat
    BY <1>2, <2>1
  <2>3. QED
    BY <1>2, <2>1, <2>2
<1>4. t <= N /\ (k = 1 => t = N)
  <2>1. t <= N
    <3>1. k * t \in Nat
      BY <1>1, <1>2
    <3>2. QED
      BY <1>1, <1>2, <1>3, <3>1
  <2>2. k = 1 => t = N
    <3>1. N = 1 * N + 0 /\ N \in Int /\ 0 \in 0 .. 1 - 1 /\ 1 \in Nat \ {0}
      BY <1>1
    <3>2. N \div 1 = N
      BY <3>1, DivisionIs
    <3>3. QED
      BY <3>2
  <2>3. QED
    BY <2>1, <2>2
<1> DEFINE K == k * w
<1>5. K \in Nat \ {0} /\ N * w \in Nat /\ t * K \in Nat
  BY <1>1, <1>2
<1>6. (M + t) * K = M * K + t * K /\ M * K \in Nat
  <2> HIDE DEF K
  <2>1. QED
    BY <1>1, <1>2, <1>5
<1>7. t * K <= N * w /\ N * w < t * K + K
  BY <1>2
<1> HIDE DEF K
<1> DEFINE g == N * w - t * K
<1>8. g \in Nat /\ g < K /\ M * K + N * w = (M + t) * K + g
  <2> DEFINE nw == N * w
             tk == t * K
             mk == M * K
  <2> HIDE DEF nw, tk, mk
  <2>1. nw \in Nat /\ tk \in Nat /\ mk \in Nat /\ tk <= nw /\ nw < tk + K
    BY <1>5, <1>6, <1>7 DEF nw, tk, mk
  <2>2. nw - tk \in Nat /\ nw - tk < K /\ mk + nw = (mk + tk) + (nw - tk)
    BY <1>5, <2>1
  <2>3. QED
    BY <1>6, <2>2 DEF nw, tk, mk
<1>9. M + t \in p .. 4 * p - 1 /\ (k = 1 => M + t >= 2 * p) /\ t < 2 * p
  BY <1>1, <1>2, <1>4
<1>10. QED
  BY <1>2, <1>5, <1>8, <1>9 DEF K

\* Subtracting it.
LEMMA AlignedDifference ==
  ASSUME NEW p, NEW M, NEW N, NEW k, NEW w, NEW t, Aligning(p, M, N, k, w, t)
  PROVE  LET g == N * w - t * (k * w)
         IN  /\ M - t \in 0 .. 2 * p - 1
             /\ M * (k * w) - N * w = (M - t) * (k * w) - g
             /\ (M - t) * (k * w) - g \in Nat
<1> USE DEF Aligning
<1>1. p \in Nat \ {0, 1} /\ M \in Nat /\ N \in Nat /\ k \in Nat \ {0} /\ w \in Nat \ {0}
  OBVIOUS
<1>2. /\ t \in Nat /\ k * t <= N
      /\ k * w \in Nat \ {0} /\ t * (k * w) <= N * w /\ N * w < t * (k * w) + k * w
  BY <1>1, ShiftLoses
<1> DEFINE K == k * w
<1>3. K \in Nat \ {0} /\ N * w \in Nat /\ t * K \in Nat
  BY <1>1, <1>2
<1>4. t * K <= N * w /\ N * w < t * K + K
  BY <1>2
<1>5. CASE k = 1
  <2>1. t = N
    <3>1. N = 1 * N + 0 /\ N \in Int /\ 0 \in 0 .. 1 - 1 /\ 1 \in Nat \ {0}
      BY <1>1
    <3>2. N \div 1 = N
      BY <3>1, DivisionIs
    <3>3. QED
      BY <1>5, <3>2
  <2>2. K = w
    BY <1>1, <1>5
  <2>3. M - t \in Nat /\ M - t < 2 * p
    BY <1>1, <1>5, <2>1
  <2>4. N * w - t * K = 0
    BY <1>3, <2>1, <2>2
  <2>5. M * K - N * w = (M - t) * K /\ (M - t) * K \in Nat
    <3> HIDE DEF K
    <3>1. (M - t) * K = M * K - t * K
      BY <1>1, <1>2, <1>3
    <3>2. t * K = N * w
      BY <2>1, <2>2
    <3>3. (M - t) * K \in Nat
      BY <1>3, <2>3
    <3>4. QED
      BY <3>1, <3>2, <3>3
  <2>6. QED
    BY <2>3, <2>4, <2>5
<1>6. CASE k # 1
  <2>1. 2 * t <= k * t
    <3> DEFINE n == k - 2
    <3>1. n \in Nat /\ k = n + 2
      BY <1>1, <1>6
    <3> HIDE DEF n
    <3>2. (n + 2) * t = n * t + 2 * t /\ n * t \in Nat
      BY <1>2, <3>1
    <3>3. QED
      BY <1>2, <3>1, <3>2
  <2>2. t < p
    <3>1. k * t \in Nat
      BY <1>1, <1>2
    <3>2. QED
      BY <1>1, <1>2, <2>1, <3>1
  <2>3. M - t \in Nat \ {0} /\ M - t < 2 * p
    BY <1>1, <1>2, <2>2
  <2> HIDE DEF K
  <2> DEFINE nw == N * w
             tk == t * K
             mk == M * K
             dk == (M - t) * K
  <2>4. dk = mk - tk /\ mk \in Nat /\ dk \in Nat
    BY <1>1, <1>2, <1>3, <2>3
  <2>5. dk >= K
    <3> DEFINE n == M - t - 1
    <3>1. n \in Nat /\ M - t = n + 1
      BY <1>1, <1>2, <2>3
    <3> HIDE DEF n
    <3>2. (n + 1) * K = n * K + K /\ n * K \in Nat
      BY <1>3, <3>1
    <3>3. QED
      BY <1>3, <3>1, <3>2
  <2> HIDE DEF nw, tk, mk, dk
  <2>6. nw \in Nat /\ tk \in Nat /\ tk <= nw /\ nw < tk + K
    BY <1>3, <1>4 DEF nw, tk
  <2>7. mk - nw = dk - (nw - tk) /\ dk - (nw - tk) \in Nat
    BY <1>3, <2>4, <2>5, <2>6
  <2>8. QED
    BY <2>3, <2>7 DEF nw, tk, mk, dk, K
<1>7. QED
  BY <1>5, <1>6

\* Which operand the adder keeps in place and which it shifts; two normal numbers of
\* the same exponent do carry.
LEMMA AdderPicks ==
  ASSUME NEW u \in Float, NEW v \in Float, u.e # 0, v.e # 0
  PROVE  \E b \in {u, v} : \E l \in {u, v} :
           LET t == Mantissa(l) \div Pow2[b.e - l.e]
           IN  /\ (b = u /\ l = v) \/ (b = v /\ l = u)
               /\ l.e <= b.e /\ (b.e = l.e => Mantissa(b) >= Mantissa(l))
               /\ b.s # l.s => Adder(u, v) = Normalised(b.s, b.e, Mantissa(b) - t, 0, AddShifts)
               /\ b.s = l.s /\ (b.e = l.e => Mantissa(b) + t >= 2 * P) =>
                    Adder(u, v) = Normalised(b.s, b.e, Mantissa(b) + t, 0, AddShifts)
<1> DEFINE equal == Exponent(u) = Exponent(v)
           big   == IF IF equal THEN Mantissa(u) > Mantissa(v) ELSE Exponent(u) > Exponent(v)
                      THEN u ELSE v
           small == IF big = u THEN v ELSE u
           tmp   == Mantissa(small) \div Pow2[Exponent(big) - Exponent(small)]
           sum   == Mantissa(big) + tmp
           carry == IF equal /\ sum < Pow2[F + 1] THEN Pow2[F + 1] ELSE 0
           m     == IF u.s = v.s THEN sum + carry ELSE Mantissa(big) - tmp
           t     == Mantissa(small) \div Pow2[big.e - small.e]
<1>1. Adder(u, v) = Normalised(big.s, Exponent(big), m, 0, AddShifts)
  BY Zenon DEF Adder
<1>2. /\ Exponent(u) = u.e /\ u.e \in Nat /\ Mantissa(u) \in Nat
      /\ Exponent(v) = v.e /\ v.e \in Nat /\ Mantissa(v) \in Nat
      /\ P \in Nat \ {0, 1} /\ Pow2[F + 1] = 2 * P
  <2>1. P \in Nat \ {0, 1} /\ Pow2[F] = P /\ F \in Nat
    BY DividerWidths
  <2>2. Pow2[F + 1] = 2 * P
    BY <2>1, PowStep
  <2>3. Exponent(u) = u.e /\ u.e \in Nat /\ Mantissa(u) \in P .. 2 * P - 1
    BY NormalMagnitude
  <2>4. Exponent(v) = v.e /\ v.e \in Nat /\ Mantissa(v) \in P .. 2 * P - 1
    BY NormalMagnitude
  <2>5. QED
    BY <2>1, <2>2, <2>3, <2>4
<1>3. /\ (big = u /\ small = v) \/ (big = v /\ small = u)
      /\ small.e <= big.e /\ (big.e = small.e => Mantissa(big) >= Mantissa(small))
  <2>1. CASE big = u
    <3>1. small = v
      BY <2>1
    <3>2. v.e <= u.e /\ (u.e = v.e => Mantissa(u) >= Mantissa(v))
      <4>1. CASE u = v
        BY <1>2, <4>1
      <4>2. CASE u # v
        <5>1. IF u.e = v.e THEN Mantissa(u) > Mantissa(v) ELSE u.e > v.e
          BY <1>2, <2>1, <4>2
        <5>2. QED
          BY <1>2, <5>1
      <4>3. QED
        BY <4>1, <4>2
    <3>3. QED
      BY <2>1, <3>1, <3>2
  <2>2. CASE big # u
    <3>1. big = v /\ small = u
      BY <2>2
    <3>2. ~(IF u.e = v.e THEN Mantissa(u) > Mantissa(v) ELSE u.e > v.e)
      BY <1>2, <2>2
    <3>3. u.e <= v.e /\ (v.e = u.e => Mantissa(v) >= Mantissa(u))
      BY <1>2, <3>2
    <3>4. QED
      BY <3>1, <3>3
  <2>3. QED
    BY <2>1, <2>2
<1>4. /\ Exponent(big) = big.e /\ Exponent(small) = small.e
      /\ big \in {u, v} /\ small \in {u, v}
      /\ equal <=> big.e = small.e
      /\ u.s = v.s <=> big.s = small.s
  BY <1>2, <1>3
<1>5. tmp = t
  BY <1>4
<1>6. big.s # small.s => m = Mantissa(big) - t
  BY <1>4, <1>5
<1>7. big.s = small.s /\ (big.e = small.e => Mantissa(big) + t >= 2 * P) => m = Mantissa(big) + t
  <2> SUFFICES ASSUME big.s = small.s, big.e = small.e => Mantissa(big) + t >= 2 * P
               PROVE  m = Mantissa(big) + t
    OBVIOUS
  <2>1. Mantissa(big) \in Nat /\ t \in Nat
    <3>1. Mantissa(big) \in Nat /\ Mantissa(small) \in Nat
      BY <1>2, <1>4
    <3>2. Pow2[big.e - small.e] \in Nat \ {0}
      <4>1. big.e - small.e \in Nat
        BY <1>2, <1>3, <1>4
      <4>2. QED
        BY <4>1, PowNat
    <3> DEFINE n == Mantissa(small)
               k == Pow2[big.e - small.e]
    <3> HIDE DEF n, k
    <3>3. n \in Nat /\ n \in Int /\ k \in Nat \ {0}
      BY <3>1, <3>2 DEF n, k
    <3>4. n \div k \in Nat
      BY <3>3, Division
    <3>5. QED
      BY <3>1, <3>4 DEF n, k
  <2>2. sum = Mantissa(big) + t /\ m = sum + carry
    BY <1>4, <1>5
  <2> HIDE DEF big, small, tmp, sum, m, t
  <2>3. carry = 0
    BY <1>2, <1>4, <2>1, <2>2
  <2>4. QED
    BY <2>1, <2>2, <2>3
<1>8. Adder(u, v) = Normalised(big.s, big.e, m, 0, AddShifts)
  BY <1>1, <1>4
<1> HIDE DEF big, small, tmp, sum, carry, m, equal
<1>9. /\ big.s # small.s =>
           Adder(u, v) = Normalised(big.s, big.e, Mantissa(big) - t, 0, AddShifts)
      /\ big.s = small.s /\ (big.e = small.e => Mantissa(big) + t >= 2 * P) =>
           Adder(u, v) = Normalised(big.s, big.e, Mantissa(big) + t, 0, AddShifts)
  BY <1>6, <1>7, <1>8
<1>10. QED
  BY <1>3, <1>4, <1>9, Zenon

\* The adder's number before it is normalised: the exact sum z is its mantissa m, in
\* the places of the larger operand, and what the shift has lost.
LEMMA AdderAligns ==
  ASSUME NEW u \in Float, NEW v \in Float, u.e # 0, v.e # 0
  PROVE  \E b \in {u, v} : \E m \in Nat, g \in Nat, z \in Nat :
           /\ u.e <= b.e /\ v.e <= b.e
           /\ Adder(u, v) = Normalised(b.s, b.e, m, 0, AddShifts)
           /\ m < 4 * P /\ g < Pow2[b.e - 1]
           /\ (z = m * Pow2[b.e - 1] + g /\ m >= P) \/ z = m * Pow2[b.e - 1] - g
           /\ Value(u) + Value(v) = IF b.s = 1 THEN -z ELSE z
<1>1. PICK b \in {u, v}, l \in {u, v} :
           LET t == Mantissa(l) \div Pow2[b.e - l.e]
           IN  /\ (b = u /\ l = v) \/ (b = v /\ l = u)
               /\ l.e <= b.e /\ (b.e = l.e => Mantissa(b) >= Mantissa(l))
               /\ b.s # l.s => Adder(u, v) = Normalised(b.s, b.e, Mantissa(b) - t, 0, AddShifts)
               /\ b.s = l.s /\ (b.e = l.e => Mantissa(b) + t >= 2 * P) =>
                    Adder(u, v) = Normalised(b.s, b.e, Mantissa(b) + t, 0, AddShifts)
  BY AdderPicks, Zenon
<1> DEFINE M == Mantissa(b)
           N == Mantissa(l)
           k == Pow2[b.e - l.e]
           w == Pow2[l.e - 1]
           t == N \div k
           g == N * w - t * (k * w)
<1>2. /\ b \in Float /\ l \in Float /\ b.e # 0 /\ l.e # 0
      /\ b.s \in {0, 1} /\ l.s \in {0, 1}
  <2>1. b \in Float /\ l \in Float /\ b.e # 0 /\ l.e # 0
    OBVIOUS
  <2>2. QED
    BY <2>1, FloatFields
<1>3. /\ b.e \in Nat \ {0} /\ M \in P .. 2 * P - 1
      /\ Magnitude(b) = M * Pow2[b.e - 1]
  BY <1>2, NormalMagnitude
<1>4. /\ l.e \in Nat \ {0} /\ N \in P .. 2 * P - 1
      /\ Magnitude(l) = N * w
  BY <1>2, NormalMagnitude
<1>5. /\ k \in Nat \ {0} /\ w \in Nat \ {0} /\ k * w = Pow2[b.e - 1]
      /\ k = 1 => b.e = l.e
  <2> DEFINE i == b.e - l.e
             j == l.e - 1
  <2>1. i \in Nat /\ j \in Nat /\ i + j = b.e - 1
    BY <1>1, <1>3, <1>4
  <2>2. Pow2[i] \in Nat \ {0} /\ Pow2[j] \in Nat \ {0} /\ Pow2[i + j] = Pow2[i] * Pow2[j]
    BY <2>1, PowNat, PowSum
  <2>3. Pow2[i] = 1 => i = 0
    <3>1. SUFFICES ASSUME i # 0 PROVE Pow2[i] # 1
      OBVIOUS
    <3> DEFINE n == i - 1
    <3>2. n \in Nat /\ i = n + 1
      BY <2>1, <3>1
    <3> HIDE DEF n, i
    <3>3. Pow2[n + 1] = 2 * Pow2[n] /\ Pow2[n] \in Nat
      BY <3>2, PowStep, PowNat
    <3>4. QED
      BY <3>2, <3>3
  <2>4. QED
    BY <1>3, <1>4, <2>1, <2>2, <2>3
<1>6. P \in Nat \ {0, 1}
  BY DividerWidths
<1>7. Aligning(P, M, N, k, w, t)
  <2>1. k = 1 => M >= N
    BY <1>1, <1>5
  <2>2. QED
    BY <1>3, <1>4, <1>5, <1>6, <2>1 DEF Aligning
<1>8. u.e <= b.e /\ v.e <= b.e
  BY <1>1, <1>3, <1>4
<1>9. /\ Value(u) + Value(v) = Value(b) + Value(l)
      /\ Value(b) = IF b.s = 1 THEN -Magnitude(b) ELSE Magnitude(b)
      /\ Value(l) = IF l.s = 1 THEN -Magnitude(l) ELSE Magnitude(l)
      /\ Magnitude(b) \in Nat /\ Magnitude(l) \in Nat
  <2>1. Magnitude(b) \in Nat /\ Magnitude(l) \in Nat
    BY <1>2, MagnitudeNat
  <2>2. /\ Value(b) = IF b.s = 1 THEN -Magnitude(b) ELSE Magnitude(b)
        /\ Value(l) = IF l.s = 1 THEN -Magnitude(l) ELSE Magnitude(l)
    BY DEF Value
  <2>3. Value(b) \in Int /\ Value(l) \in Int
    BY <2>1, <2>2
  <2>4. Value(u) + Value(v) = Value(b) + Value(l)
    BY <1>1, <2>3
  <2>5. QED
    BY <2>1, <2>2, <2>4
<1>10. CASE b.s = l.s
  <2> DEFINE z == M * (k * w) + N * w
  <2>1. /\ M + t \in P .. 4 * P - 1 /\ (k = 1 => M + t >= 2 * P)
        /\ g \in Nat /\ g < k * w /\ z = (M + t) * (k * w) + g
    BY <1>7, AlignedSum
  <2>2. z \in Nat /\ Value(u) + Value(v) = IF b.s = 1 THEN -z ELSE z
    <3>1. z = Magnitude(b) + Magnitude(l)
      BY <1>3, <1>4, <1>5
    <3> HIDE DEF z
    <3>2. QED
      BY <1>9, <1>10, <3>1
  <2>3. b.e = l.e => k = 1
    <3>1. b.e = l.e => b.e - l.e = 0
      BY <1>3, <1>4
    <3>2. QED
      BY <3>1, PowStep
  <2>4. Adder(u, v) = Normalised(b.s, b.e, M + t, 0, AddShifts)
    BY <1>1, <1>10, <2>1, <2>3
  <2> HIDE DEF g, z, t
  <2> DEFINE m == M + t
  <2>5. m \in Nat /\ m < 4 * P /\ m >= P /\ z = m * Pow2[b.e - 1] + g /\ g < Pow2[b.e - 1]
    BY <1>5, <1>6, <2>1
  <2> HIDE DEF m
  <2>6. Adder(u, v) = Normalised(b.s, b.e, m, 0, AddShifts)
    BY <2>4 DEF m
  <2>7. QED
    BY <1>8, <2>1, <2>2, <2>5, <2>6, Zenon
<1>11. CASE b.s # l.s
  <2> DEFINE z == M * (k * w) - N * w
  <2>1. /\ M - t \in 0 .. 2 * P - 1
        /\ z = (M - t) * (k * w) - g /\ (M - t) * (k * w) - g \in Nat
    BY <1>7, AlignedDifference
  <2>2. g \in Nat /\ g < k * w
    BY <1>7, AlignedSum
  <2>3. z \in Nat /\ Value(u) + Value(v) = IF b.s = 1 THEN -z ELSE z
    <3>1. z = Magnitude(b) - Magnitude(l)
      BY <1>3, <1>4, <1>5
    <3>2. z \in Nat
      BY <2>1
    <3> HIDE DEF z
    <3>3. QED
      BY <1>2, <1>9, <1>11, <3>1, <3>2
  <2>4. Adder(u, v) = Normalised(b.s, b.e, M - t, 0, AddShifts)
    BY <1>1, <1>11
  <2> HIDE DEF g, z, t
  <2> DEFINE m == M - t
  <2>5. m \in Nat /\ m < 4 * P /\ z = m * Pow2[b.e - 1] - g /\ g < Pow2[b.e - 1]
    BY <1>5, <1>6, <2>1, <2>2
  <2> HIDE DEF m
  <2>6. Adder(u, v) = Normalised(b.s, b.e, m, 0, AddShifts)
    BY <2>4 DEF m
  <2>7. QED
    BY <1>8, <2>2, <2>3, <2>5, <2>6, Zenon
<1>12. QED
  BY <1>10, <1>11

\* A mantissa that lost g of its number z, and is halved or not: q is less than a last
\* place k away.
Losing(w, m, g, z, k, q) ==
  /\ w \in Nat \ {0} /\ m \in Nat /\ g \in Nat /\ g < w
  /\ z = m * w + g \/ z = m * w - g
  /\ \/ k = w /\ q = m * w
     \/ k = 2 * w /\ q = (m \div 2) * k

\* Then it is less than that place off.
LEMMA LosesLess ==
  ASSUME NEW w, NEW m, NEW g, NEW z, NEW k, NEW q, Losing(w, m, g, z, k, q)
  PROVE  q \in Nat /\ z \in Int /\ k \in Nat /\ q - z < k /\ z - q < k
<1> USE DEF Losing
<1> DEFINE n == m * w
<1>1. w \in Nat \ {0} /\ m \in Nat /\ g \in Nat /\ g < w /\ n \in Nat
  OBVIOUS
<1>2. CASE k = w /\ q = m * w
  <2>1. z = n + g \/ z = n - g
    OBVIOUS
  <2>2. q = n /\ k = w
    BY <1>2
  <2> HIDE DEF n
  <2>3. QED
    BY <1>1, <2>1, <2>2
<1>3. CASE k = 2 * w /\ q = (m \div 2) * k
  <2> DEFINE h == m \div 2
             o == m % 2
  <2>1. m = (2 * h) + o /\ h \in Nat /\ o \in {0, 1}
    BY <1>1
  <2> HIDE DEF h, o
  <2>2. m * w = h * (2 * w) + o * w /\ o * w \in {0, w} /\ h * (2 * w) \in Nat
    <3>1. ((2 * h) + o) * w = h * (2 * w) + o * w
      BY <1>1, <2>1
    <3>2. o * w \in {0, w}
      BY <1>1, <2>1
    <3>3. h * (2 * w) \in Nat
      BY <1>1, <2>1
    <3>4. QED
      BY <2>1, <3>1, <3>2, <3>3
  <2> DEFINE i == h * (2 * w)
             j == o * w
  <2>3. n = i + j /\ j \in {0, w} /\ i \in Nat
    BY <2>2
  <2>4. z = n + g \/ z = n - g
    OBVIOUS
  <2>5. q = i /\ k = 2 * w
    BY <1>3 DEF h
  <2> HIDE DEF n, i, j
  <2>6. QED
    BY <1>1, <2>3, <2>4, <2>5
<1>4. QED
  BY <1>2, <1>3

\* A number of at least n places has a mantissa of at least n.
LEMMA FarEnough ==
  ASSUME NEW w \in Nat \ {0}, NEW m \in Nat, NEW n \in Nat, w * n <= m * w
  PROVE  n <= m
<1>1. SUFFICES ASSUME m + 1 <= n PROVE FALSE
  OBVIOUS
<1> DEFINE i == n - (m + 1)
<1>2. i \in Nat /\ n = i + m + 1
  BY <1>1
<1> HIDE DEF i
<1>3. w * (i + m + 1) = i * w + m * w + w /\ i * w \in Nat /\ m * w \in Nat
  BY <1>2
<1>4. QED
  BY <1>2, <1>3

\* The adder is less than a last place of its result or its operands off the exact sum.
LEMMA AdderIsClose ==
  ASSUME NEW u \in Float, NEW v \in Float, Central(u), Central(v),
         NEW e, e = Larger(u.e, v.e), NEW z, z = Value(u) + Value(v),
         Apart(z, 0) >= Pow2[e - 1] * Pow2[F - AddShifts],
         NEW r \in Adder(u, v)
  PROVE  /\ r \in Float /\ r.e \in Nat \ {0} /\ r.e <= e + 1 /\ e \in Nat \ {0}
         /\ z \in Int /\ Value(r) \in Int
         /\ Apart(Value(r), z) < Ulp(Larger(e, r.e))
<1>1. /\ AddShifts \in 1 .. F - 1 /\ F \in Nat \ {0} /\ EMax \in Nat /\ P \in Nat \ {0, 1}
      /\ Pow2[F] = P
  BY FpuAssumption, DividerWidths
<1>2. /\ u.e \in Nat \ {0} /\ v.e \in Nat \ {0} /\ AddShifts < u.e /\ AddShifts < v.e
      /\ u.e < EMax - 1 /\ v.e < EMax - 1
  <2>1. u.e \in Nat /\ v.e \in Nat
    BY FloatFields
  <2>2. QED
    BY <1>1, <2>1 DEF Central
<1>3. PICK b \in {u, v}, m \in Nat, g \in Nat, x0 \in Nat :
           /\ u.e <= b.e /\ v.e <= b.e
           /\ Adder(u, v) = Normalised(b.s, b.e, m, 0, AddShifts)
           /\ m < 4 * P /\ g < Pow2[b.e - 1]
           /\ (x0 = m * Pow2[b.e - 1] + g /\ m >= P) \/ x0 = m * Pow2[b.e - 1] - g
           /\ Value(u) + Value(v) = IF b.s = 1 THEN -x0 ELSE x0
  <2>1. u.e # 0 /\ v.e # 0
    BY <1>2
  <2>2. QED
    BY <2>1, AdderAligns
<1>4. b.e = e /\ e \in Nat \ {0} /\ AddShifts < e /\ e < EMax - 1 /\ b.s \in {0, 1}
  <2>1. b.e = u.e \/ b.e = v.e
    OBVIOUS
  <2>2. b.e = Larger(u.e, v.e)
    BY <1>2, <1>3, <2>1 DEF Larger
  <2>3. b.s \in {0, 1}
    BY FloatFields
  <2>4. QED
    BY <1>2, <2>1, <2>2, <2>3
<1> DEFINE w == Pow2[e - 1]
           n == Pow2[F - AddShifts]
<1>5. w \in Nat \ {0} /\ n \in Nat \ {0} /\ n <= P /\ Pow2[e] = 2 * w
  <2>1. e - 1 \in Nat /\ F - AddShifts \in Nat /\ AddShifts \in Nat
        /\ (F - AddShifts) + AddShifts = F /\ e - 1 + 1 = e
    BY <1>1, <1>4
  <2>2. w \in Nat \ {0} /\ n \in Nat \ {0} /\ Pow2[AddShifts] \in Nat \ {0}
    BY <2>1, PowNat
  <2>3. P = n * Pow2[AddShifts]
    BY <1>1, <2>1, PowSum
  <2>4. Pow2[e] = 2 * w
    BY <2>1, PowStep
  <2> DEFINE h == Pow2[AddShifts]
             k == h - 1
  <2>5. h \in Nat \ {0}
    BY <2>2
  <2> HIDE DEF h
  <2>6. k \in Nat /\ h = k + 1
    BY <2>5
  <2> HIDE DEF k, n
  <2>7. n * (k + 1) = n * k + n /\ n * k \in Nat
    BY <2>2, <2>6
  <2>8. n <= P
    BY <1>1, <2>2, <2>3, <2>6, <2>7 DEF h
  <2>9. QED
    BY <2>2, <2>4, <2>8
<1>6. z = (IF b.s = 1 THEN -x0 ELSE x0) /\ z \in Int /\ Apart(z, 0) = x0
  BY <1>3 DEF Apart
<1>7. (x0 = m * w + g /\ m >= P) \/ x0 = m * w - g
  BY <1>3, <1>4
<1>8. n <= m
  <2>1. w * n <= x0
    BY <1>6
  <2>2. CASE m >= P
    BY <1>1, <1>5, <2>2
  <2>3. CASE x0 = m * w - g
    <3> HIDE DEF w, n
    <3>1. w * n \in Nat /\ m * w \in Nat
      BY <1>5
    <3>2. w * n <= m * w
      BY <2>1, <2>3, <3>1
    <3>3. QED
      BY <1>5, <3>2, FarEnough
  <2>4. QED
    BY <1>7, <2>2, <2>3
<1>9. /\ r \in Float /\ r.s = b.s /\ r.e \in Nat \ {0}
      /\ \/ r.e = e + 1 /\ Magnitude(r) = (m \div 2) * Pow2[e]
         \/ r.e <= e /\ Magnitude(r) = m * Pow2[e - 1]
  <2>1. r \in Normalised(b.s, e, m, 0, AddShifts)
    BY <1>3, <1>4
  <2>2. e \in Nat /\ Pow2[F - AddShifts] <= m /\ m < 4 * P
    BY <1>3, <1>4, <1>8
  <2>3. QED
    BY <1>4, <2>1, <2>2, NormalisesExactly
<1> DEFINE k == Ulp(Larger(e, r.e))
           q == Magnitude(r)
<1>10. (k = w /\ q = m * w /\ r.e <= e) \/ (k = 2 * w /\ q = (m \div 2) * k /\ r.e = e + 1)
  <2>1. CASE r.e = e + 1 /\ Magnitude(r) = (m \div 2) * Pow2[e]
    <3>1. Larger(e, r.e) = e + 1
      BY <1>4, <2>1 DEF Larger
    <3>2. Ulp(e + 1) = Pow2[e]
      <4> DEFINE i == e + 1
      <4>1. i # 0 /\ i - 1 = e
        BY <1>4
      <4> HIDE DEF i
      <4>2. Ulp(i) = Pow2[i - 1]
        BY <4>1 DEF Ulp
      <4>3. QED
        BY <4>1, <4>2 DEF i
    <3>3. QED
      BY <1>5, <2>1, <3>1, <3>2
  <2>2. CASE r.e <= e /\ Magnitude(r) = m * Pow2[e - 1]
    <3>1. Larger(e, r.e) = e
      BY <1>4, <1>9, <2>2 DEF Larger
    <3>2. Ulp(e) = w
      BY <1>4 DEF Ulp
    <3>3. QED
      BY <2>2, <3>1, <3>2
  <2>3. QED
    BY <1>9, <2>1, <2>2
<1>11. Losing(w, m, g, x0, k, q)
  <2>1. g < w
    BY <1>3, <1>4
  <2> HIDE DEF w, k, q
  <2>2. QED
    BY <1>5, <1>7, <1>10, <2>1 DEF Losing
<1>12. q \in Nat /\ k \in Nat /\ q - x0 < k /\ x0 - q < k
  BY <1>11, LosesLess
<1>13. Value(r) = IF b.s = 1 THEN -q ELSE q
  BY <1>9 DEF Value
<1>14. Apart(Value(r), z) < k /\ Value(r) \in Int
  <2> HIDE DEF k, q
  <2>1. x0 \in Nat
    OBVIOUS
  <2>2. QED
    BY <1>6, <1>12, <1>13, <2>1 DEF Apart
<1>15. r.e <= e + 1
  BY <1>4, <1>9
<1>16. QED
  BY <1>4, <1>6, <1>9, <1>14, <1>15

\* Changing the sign of a number.
LEMMA NegatedValue ==
  ASSUME NEW v \in Float
  PROVE  /\ Negated(v) \in Float /\ Negated(v).e = v.e /\ Value(v) \in Int
         /\ Value(Negated(v)) = -Value(v) /\ (Central(v) => Central(Negated(v)))
         /\ LET h == [v EXCEPT !.s = 0]
            IN  h \in Float /\ h.e = v.e /\ Value(h) = Apart(Value(v), 0)
<1> DEFINE n == Negated(v)
           h == [v EXCEPT !.s = 0]
<1>1. /\ v.s \in {0, 1} /\ v = [s |-> v.s, e |-> v.e, f |-> v.f] /\ Magnitude(v) \in Nat
      /\ n \in Float /\ h \in Float
  BY FloatFields, MagnitudeNat
<1>2. n.s = 1 - v.s /\ n.e = v.e /\ n.f = v.f
  BY <1>1 DEF Negated
<1>3. h.s = 0 /\ h.e = v.e /\ h.f = v.f
  BY <1>1
<1> HIDE DEF n, h
<1>4. Magnitude(n) = Magnitude(v) /\ Magnitude(h) = Magnitude(v)
  BY <1>2, <1>3, Zenon DEF Magnitude
<1>5. /\ Value(v) = IF v.s = 1 THEN -Magnitude(v) ELSE Magnitude(v)
      /\ Value(n) = IF n.s = 1 THEN -Magnitude(v) ELSE Magnitude(v)
      /\ Value(h) = IF h.s = 1 THEN -Magnitude(v) ELSE Magnitude(v)
  BY <1>4 DEF Value
<1>6. /\ Value(v) \in Int /\ Value(n) = -Value(v) /\ Value(h) = Apart(Value(v), 0)
  BY <1>1, <1>2, <1>3, <1>5 DEF Apart
<1>7. Central(v) => Central(n)
  BY <1>2 DEF Central
<1>8. QED
  BY <1>1, <1>2, <1>3, <1>6, <1>7 DEF n, h

\* The larger of two exponents in the middle of the range, and its last place.
LEMMA LargerExponent ==
  ASSUME NEW u \in Float, NEW v \in Float, Central(u), Central(v),
         NEW e, e = Larger(u.e, v.e)
  PROVE  e \in Nat \ {0} /\ Ulp(e) = Pow2[e - 1] /\ u.e # EMax /\ v.e # EMax
<1>1. AddShifts \in Nat \ {0} /\ EMax \in Nat /\ F \in Nat
  BY FpuAssumption, DividerWidths
<1>2. u.e \in Nat /\ v.e \in Nat /\ AddShifts < u.e /\ AddShifts < v.e
      /\ u.e < EMax - 1 /\ v.e < EMax - 1
  BY FloatFields DEF Central
<1>3. e \in Nat \ {0} /\ u.e # EMax /\ v.e # EMax
  BY <1>1, <1>2 DEF Larger
<1>4. Ulp(e) = Pow2[e - 1]
  BY <1>3 DEF Ulp
<1>5. QED
  BY <1>3, <1>4

\* A sum that is found is one the adder is close to.
LEMMA FoundEnough ==
  ASSUME NEW w \in Nat, NEW n \in Nat, NEW z \in Nat, z >= w * (2 * n)
  PROVE  z >= w * n
<1> DEFINE k == w * n
<1>1. w * (2 * n) = k + k /\ k \in Nat
  OBVIOUS
<1> HIDE DEF k
<1>2. z >= k
  BY <1>1
<1>3. QED
  BY <1>2 DEF k

\* The sum or difference of two numbers in the middle of the range, special cases told
\* apart.
LEMMA SumIsClose ==
  ASSUME NEW op \in Sums, NEW u \in Float, NEW v \in Float, Central(u), Central(v),
         NEW e, e = Larger(u.e, v.e),
         NEW z, z = Value(u) + (IF op = "ADD" THEN Value(v) ELSE -Value(v)),
         Apart(z, 0) >= Ulp(e) * Pow2[F - AddShifts + 1], NEW r \in Sum(op, u, v)
  PROVE  /\ r \in Float /\ Value(r) \in Int /\ z \in Int
         /\ Apart(Value(r), z) < Ulp(Larger(e, r.e))
<1>1. /\ e \in Nat \ {0} /\ Ulp(e) = Pow2[e - 1] /\ u.e # EMax /\ v.e # EMax
  BY LargerExponent
<1>2. /\ Pow2[F - AddShifts + 1] = 2 * Pow2[F - AddShifts]
      /\ Pow2[F - AddShifts] \in Nat \ {0} /\ Pow2[e - 1] \in Nat \ {0}
  <2> DEFINE i == F - AddShifts
             j == e - 1
  <2>1. i \in Nat /\ j \in Nat
    BY <1>1, FpuAssumption, DividerWidths
  <2> HIDE DEF i, j
  <2>2. Pow2[i + 1] = 2 * Pow2[i] /\ Pow2[i] \in Nat \ {0} /\ Pow2[j] \in Nat \ {0}
    BY <2>1, PowStep, PowNat
  <2>3. QED
    BY <2>2 DEF i, j
<1>3. Value(u) \in Int /\ Value(v) \in Int /\ z \in Int /\ Apart(z, 0) \in Nat
  <2>1. Value(u) \in Int /\ Value(v) \in Int
    BY NegatedValue
  <2>2. z \in Int
    BY <2>1
  <2>3. Apart(z, 0) \in Nat
    BY <2>2 DEF Apart
  <2>4. QED
    BY <2>1, <2>2, <2>3
<1>4. Apart(z, 0) >= Pow2[e - 1] * Pow2[F - AddShifts]
  <2> DEFINE w == Pow2[e - 1]
             n == Pow2[F - AddShifts]
             a == Apart(z, 0)
  <2>1. w \in Nat /\ n \in Nat /\ a \in Nat /\ a >= w * (2 * n)
    BY <1>1, <1>2, <1>3
  <2> HIDE DEF w, n, a
  <2>2. a >= w * n
    BY <2>1, FoundEnough
  <2>3. QED
    BY <2>2 DEF w, n, a
<1>5. ~LooksNaN(u) /\ ~LooksNaN(v) /\ ~LooksZero(u) /\ ~LooksZero(v)
  BY <1>1, FloatFields
<1>6. ~(op # "ADD" /\ u = v)
  <2>1. SUFFICES ASSUME op # "ADD", u = v PROVE FALSE
    OBVIOUS
  <2>2. z = 0
    BY <1>3, <2>1
  <2>3. Apart(z, 0) = 0
    BY <2>2 DEF Apart
  <2> DEFINE w == Pow2[e - 1]
             n == Pow2[F - AddShifts]
             k == w * n
  <2>4. w \in Nat \ {0} /\ n \in Nat \ {0}
    BY <1>2
  <2> HIDE DEF w, n
  <2>5. k \in Nat \ {0}
    BY <2>4
  <2>6. 0 >= k
    BY <1>4, <2>3 DEF w, n
  <2> HIDE DEF k
  <2>7. QED
    BY <2>5, <2>6
<1> DEFINE v1 == IF op = "ADD" THEN v ELSE Negated(v)
<1>7. Sum(op, u, v) = Adder(u, v1)
  <2>1. Sum(op, u, v) = IF LooksNaN(u) \/ LooksZero(v) THEN {u}
                        ELSE IF LooksNaN(v) \/ LooksZero(u) THEN {v}
                        ELSE IF u.e = EMax \/ v.e = EMax THEN {Infinity(Xor(u.s, v.s))}
                        ELSE IF op # "ADD" /\ u = v THEN {Zero(0)}
                        ELSE Adder(u, v1)
    BY Zenon DEF Sum
  <2> HIDE DEF v1
  <2>2. QED
    BY <1>1, <1>5, <1>6, <2>1, Zenon
<1>8. v1 \in Float /\ Central(v1) /\ e = Larger(u.e, v1.e) /\ z = Value(u) + Value(v1)
  <2>1. Negated(v) \in Float /\ Negated(v).e = v.e /\ Value(Negated(v)) = -Value(v)
        /\ Central(Negated(v))
    BY NegatedValue
  <2>2. CASE op = "ADD"
    BY <2>2
  <2>3. CASE op # "ADD"
    BY <2>1, <2>3
  <2>4. QED
    BY <2>2, <2>3
<1> HIDE DEF v1
<1>9. r \in Adder(u, v1)
  BY <1>7
<1>10. /\ r \in Float /\ Value(r) \in Int /\ Apart(Value(r), z) < Ulp(Larger(e, r.e))
  BY <1>4, <1>8, <1>9, AdderIsClose
<1>11. QED
  BY <1>3, <1>10

\* Taking the magnitude brings no number further from another.
LEMMA ApartShrinks ==
  ASSUME NEW p \in Int, NEW q \in Int, NEW k, k = Apart(p, q)
  PROVE  Apart(Apart(p, 0), Apart(q, 0)) <= k /\ k \in Nat
         /\ Apart(Apart(p, 0), Apart(q, 0)) \in Nat
BY DEF Apart

\* Sums, differences and absolute differences are close,
LEMMA SumsAreFound ==
  FpuInv => SumsAreClose
<1> DEFINE op == in.op
           u  == in.a
           v  == in.b
           z  == ExactSum
           e  == Larger(u.e, v.e)
           wanted == IF op = "SUBABS" THEN Apart(z, 0) ELSE z
<1> SUFFICES ASSUME FpuInv, Computed(Sums), Central(u), Central(v),
                    Apart(z, 0) >= Ulp(e) * Pow2[F - AddShifts + 1]
             PROVE  Apart(Value(out), wanted) < Ulp(Larger(e, out.e))
  BY Zenon DEF SumsAreClose
<1>1. /\ op \in Sums /\ u \in Float /\ v \in Float
      /\ out \in Outcomes(op, u, v, in.c)
  BY DEF FpuInv, FpuRecords, Computed
<1>2. z = Value(u) + (IF op = "ADD" THEN Value(v) ELSE -Value(v))
  BY Zenon DEF ExactSum, SignedB
<1> DEFINE abs == {[r EXCEPT !.s = 0] : r \in Sum(op, u, v)}
<1>3. IF op = "SUBABS" THEN out \in abs ELSE out \in Sum(op, u, v)
  <2>1. Outcomes(op, u, v, in.c) =
          CASE op \in {"ADD", "SUB"}  -> Sum(op, u, v)
            [] op = "SUBABS"          -> abs
            [] op = "MUL"             -> Product(u, v)
            [] op \in Fused           -> MultiplyAdd(op, u, v, in.c)
            [] op \in Comparisons     -> {Holds(op, u, v)}
    BY Zenon DEF Outcomes
  <2> DEFINE h == {Holds(op, u, v)}
             S == Sum(op, u, v)
  <2> HIDE DEF abs, h, S
  <2>2. Outcomes(op, u, v, in.c) = IF op = "SUBABS" THEN abs ELSE S
    BY <1>1, <2>1 DEF Sums, Fused, Comparisons, h, S
  <2>3. QED
    BY <1>1, <2>2 DEF S
<1> HIDE DEF op, u, v, z
<1>4. ASSUME NEW r \in Sum(op, u, v)
      PROVE  /\ r \in Float /\ Value(r) \in Int /\ z \in Int
             /\ Apart(Value(r), z) < Ulp(Larger(e, r.e))
  <2> HIDE DEF e
  <2>1. e = Larger(u.e, v.e)
    BY DEF e
  <2>2. QED
    BY <1>1, <1>2, <2>1, SumIsClose
<1>5. CASE op # "SUBABS"
  <2>1. out \in Sum(op, u, v)
    BY <1>3, <1>5
  <2>2. QED
    BY <1>4, <1>5, <2>1
<1>6. CASE op = "SUBABS"
  <2>1. PICK r \in Sum(op, u, v) : out = [r EXCEPT !.s = 0]
    BY <1>3, <1>6
  <2>2. r \in Float /\ Value(r) \in Int /\ z \in Int
        /\ Apart(Value(r), z) < Ulp(Larger(e, r.e))
    BY <1>4
  <2>3. out.e = r.e /\ Value(out) = Apart(Value(r), 0)
    BY <2>1, <2>2, NegatedValue
  <2>4. wanted = Apart(z, 0)
    BY <1>6
  <2> DEFINE k == Apart(Value(r), z)
             i == Apart(Apart(Value(r), 0), Apart(z, 0))
             w == Ulp(Larger(e, r.e))
  <2>5. i <= k /\ k \in Nat /\ i \in Nat
    BY <2>2, ApartShrinks
  <2>6. w \in Nat
    <3>1. e \in Nat /\ r.e \in Nat
      <4>1. e \in Nat
        BY <1>1, LargerExponent
      <4>2. r.e \in Nat
        BY <2>2, FloatFields
      <4>3. QED
        BY <4>1, <4>2
    <3> DEFINE j == Larger(e, r.e)
    <3>2. j \in Nat
      BY <3>1 DEF Larger
    <3> HIDE DEF j
    <3>3. Ulp(j) \in Nat
      <4>1. CASE j = 0
        BY <4>1 DEF Ulp
      <4>2. CASE j # 0
        BY <3>2, <4>2, j - 1 \in Nat, PowNat DEF Ulp
      <4>3. QED
        BY <4>1, <4>2
    <3>4. QED
      BY <3>3 DEF j
  <2>7. k < w
    BY <2>2
  <2> HIDE DEF k, i, w
  <2>8. i < w
    BY <2>5, <2>6, <2>7
  <2>9. QED
    BY <2>3, <2>4, <2>8 DEF i, w
<1>7. QED
  BY <1>5, <1>6

--------------------------------------------------------------------------------
(* Multiply-adds.                                                           *)

\* Larger exponents have larger last places.
LEMMA UlpOrder ==
  ASSUME NEW i \in Nat, NEW j \in Nat, i <= j
  PROVE  Ulp(i) \in Nat \ {0} /\ Ulp(j) \in Nat \ {0} /\ Ulp(i) <= Ulp(j)
<1>1. ASSUME NEW k \in Nat PROVE Ulp(k) \in Nat \ {0} /\ (k # 0 => Ulp(k) = Pow2[k - 1])
  <2>1. CASE k = 0
    BY <2>1 DEF Ulp
  <2>2. CASE k # 0
    BY <2>2, k - 1 \in Nat, PowNat DEF Ulp
  <2>3. QED
    BY <2>1, <2>2
<1>2. CASE i = 0
  <2>1. Ulp(i) = 1 /\ Ulp(j) \in Nat \ {0}
    BY <1>1, <1>2 DEF Ulp
  <2>2. QED
    BY <2>1
<1>3. CASE i # 0
  <2> DEFINE k == i - 1
             l == j - 1
  <2>1. k \in Nat /\ l \in Nat /\ k <= l /\ j # 0
    BY <1>3
  <2>2. Ulp(i) = Pow2[k] /\ Ulp(j) = Pow2[l]
    BY <1>1, <1>3, <2>1
  <2> HIDE DEF k, l
  <2>3. Pow2[k] <= Pow2[l]
    BY <2>1, PowOrder
  <2>4. QED
    BY <1>1, <2>2, <2>3
<1>4. QED
  BY <1>2, <1>3

\* Numbers i and j with signs s and t and magnitudes m and n.
Signs(s, t, m, n, i, j) ==
  /\ s \in {0, 1} /\ t \in {0, 1} /\ m \in Nat /\ n \in Nat
  /\ i = (IF s = 1 THEN -m ELSE m) /\ j = (IF t = 1 THEN -n ELSE n)

\* The sign of a product.
LEMMA SignOfProduct ==
  ASSUME NEW s, NEW t, NEW m, NEW n, NEW i, NEW j, Signs(s, t, m, n, i, j)
  PROVE  i * j = IF Xor(s, t) = 1 THEN -(m * n) ELSE m * n
<1> USE DEF Signs
<1>1. (-m) * n = -(m * n) /\ m * (-n) = -(m * n) /\ (-m) * (-n) = m * n
  OBVIOUS
<1>2. CASE s = 0 /\ t = 0
  <2>1. i = m /\ j = n /\ Xor(s, t) = 0
    BY <1>2 DEF Xor
  <2>2. QED
    BY <2>1
<1>3. CASE s = 0 /\ t = 1
  <2>1. i = m /\ j = -n /\ Xor(s, t) = 1
    BY <1>3 DEF Xor
  <2>2. QED
    BY <1>1, <2>1
<1>4. CASE s = 1 /\ t = 0
  <2>1. i = -m /\ j = n /\ Xor(s, t) = 1
    BY <1>4 DEF Xor
  <2>2. QED
    BY <1>1, <2>1
<1>5. CASE s = 1 /\ t = 1
  <2>1. i = -m /\ j = -n /\ Xor(s, t) = 0
    BY <1>5 DEF Xor
  <2>2. QED
    BY <1>1, <2>1
<1>6. QED
  BY <1>2, <1>3, <1>4, <1>5

\* A number i counted in units of o that was rounded from v, and one more that is added:
\* what the product of a multiply-add and its addend are.
Rounded(i, v, a, o, k) ==
  i \in Int /\ v \in Int /\ a \in Int /\ o \in Nat \ {0} /\ k \in Nat \ {0}
    /\ Apart(i * o, v) < k * o

\* A sum that is far from zero still is when its first term is rounded.
LEMMA FarFromZero ==
  ASSUME NEW i, NEW v, NEW a, NEW o, NEW k, Rounded(i, v, a, o, k),
         NEW w \in Nat, k <= w, NEW n \in Nat \ {0}, Apart(v + a * o, 0) >= w * (2 * n) * o
  PROVE  Apart(i + a, 0) >= w * n
<1> USE DEF Rounded
<1>1. i \in Int /\ v \in Int /\ a \in Int /\ o \in Nat \ {0} /\ k \in Nat \ {0}
  OBVIOUS
<1> DEFINE io == i * o
           ao == a * o
           ko == k * o
           z  == i + a
           q  == Apart(z, 0)
           g  == w * n + w * (n - 1)
<1>2. io \in Int /\ ao \in Int /\ ko \in Nat /\ z \in Int /\ q \in Nat
  <2>1. q \in Nat
    BY <1>1 DEF Apart
  <2>2. QED
    BY <1>1, <2>1
<1>3. z * o = io + ao
  BY <1>1
<1>4. q * o = Apart(io + ao, 0)
  <2> HIDE DEF z, io, ao
  <2>1. CASE z < 0
    <3>1. q = -z
      BY <1>2, <2>1 DEF Apart
    <3>2. (-z) * o = -(z * o) /\ (-z) * o \in Nat \ {0}
      BY <1>1, <1>2, <2>1, -z \in Nat \ {0}
    <3>3. QED
      BY <1>2, <1>3, <3>1, <3>2 DEF Apart
  <2>2. CASE z >= 0
    <3>1. q = z
      BY <1>2, <2>2 DEF Apart
    <3>2. z * o \in Nat
      BY <1>1, <1>2, <2>2, z \in Nat
    <3>3. QED
      BY <1>2, <1>3, <3>1, <3>2 DEF Apart
  <2>3. QED
    BY <1>2, <2>1, <2>2
<1>5. g \in Nat /\ w * n \in Nat /\ w * (n - 1) \in Nat /\ w * (2 * n) = g + w
  <2> DEFINE h == n - 1
  <2>1. h \in Nat /\ n = h + 1
    OBVIOUS
  <2> HIDE DEF h
  <2>2. w * (2 * (h + 1)) = w * (h + 1) + w * h + w /\ w * (h + 1) \in Nat /\ w * h \in Nat
    BY <2>1
  <2>3. g = w * (h + 1) + w * h
    BY <2>1
  <2> HIDE DEF g
  <2>4. QED
    BY <2>1, <2>2, <2>3
<1>6. ko <= w * o /\ w * o \in Nat
  <2>1. (w - k) * o \in Nat
    BY <1>1, w - k \in Nat
  <2>2. w * o = ko + (w - k) * o
    BY <1>1
  <2> HIDE DEF ko
  <2>3. QED
    BY <1>2, <2>1, <2>2
<1>7. w * (2 * n) * o = g * o + w * o /\ g * o \in Nat
  <2> HIDE DEF g
  <2>1. (g + w) * o = g * o + w * o /\ g * o \in Nat
    BY <1>1, <1>5
  <2>2. QED
    BY <1>5, <2>1
<1> DEFINE go == g * o
           wo == w * o
           qo == q * o
<1>8. Apart(io, v) < ko /\ Apart(v + ao, 0) >= go + wo /\ qo = Apart(io + ao, 0)
  BY <1>4, <1>7
<1>9. go \in Nat /\ wo \in Nat /\ ko <= wo
  BY <1>6, <1>7
<1> HIDE DEF io, ao, ko, go, wo, qo
<1>10. qo > go
  BY <1>1, <1>2, <1>8, <1>9 DEF Apart
<1> HIDE DEF q, g
<1>11. q > g
  <2>1. g < q <=> g * o < q * o
    BY <1>1, <1>2, <1>5, Cancel
  <2>2. g * o < q * o
    BY <1>2, <1>7, <1>9, <1>10 DEF go, qo
  <2>3. QED
    BY <1>2, <1>5, <2>1, <2>2
<1>12. q >= w * n
  BY <1>2, <1>5, <1>11 DEF g
<1>13. QED
  BY <1>12 DEF q

\* What rounding twice is off by.
LEMMA RoundedTwice ==
  ASSUME NEW i, NEW v, NEW a, NEW o, NEW k, Rounded(i, v, a, o, k),
         NEW r \in Int, NEW l \in Nat, Apart(r, i + a) < l
  PROVE  Apart(r * o, v + a * o) < (k + l) * o
<1> USE DEF Rounded
<1>1. i \in Int /\ v \in Int /\ a \in Int /\ o \in Nat \ {0} /\ k \in Nat \ {0}
  OBVIOUS
<1> DEFINE io == i * o
           ao == a * o
           ko == k * o
           lo == l * o
           ro == r * o
<1>2. io \in Int /\ ao \in Int /\ ko \in Nat /\ lo \in Nat /\ ro \in Int /\ (k + l) * o = ko + lo
  BY <1>1
<1>3. /\ ro - (io + ao) < lo /\ (io + ao) - ro < lo
  <2> DEFINE z == i + a
  <2>1. z \in Int /\ r - z < l /\ z - r < l /\ z * o = io + ao
    <3>1. z \in Int /\ z * o = io + ao
      BY <1>1
    <3> HIDE DEF z
    <3>2. QED
      <4>1. Apart(r, z) < l
        BY DEF z
      <4>2. QED
        BY <3>1, <4>1 DEF Apart
  <2> HIDE DEF z
  <2>2. (r - z) * o < l * o /\ (z - r) * o < l * o
    <3>1. r - z \in Int /\ z - r \in Int /\ l \in Int /\ o \in Nat \ {0}
      BY <1>1, <2>1
    <3>2. QED
      BY <2>1, <3>1, Cancel
  <2>3. (r - z) * o = r * o - z * o /\ (z - r) * o = z * o - r * o
    BY <1>1, <2>1
  <2>4. QED
    BY <2>1, <2>2, <2>3
<1>4. Apart(io, v) < ko
  OBVIOUS
<1> HIDE DEF io, ao, ko, lo, ro
<1>5. Apart(ro, v + ao) < ko + lo
  BY <1>1, <1>2, <1>3, <1>4 DEF Apart
<1>6. QED
  BY <1>2, <1>5 DEF ro, ao

\* The product that a multiply-add adds to, by its sign and its distance from the
\* exact one.
LEMMA ProductIsRounded ==
  ASSUME NEW u \in Float, NEW v \in Float, u.e # 0, v.e # 0,
         NEW e, e = u.e + v.e - Bias, AddShifts < e, e < EMax - 2,
         NEW p \in Multiplier(u, v), NEW a \in Int
  PROVE  /\ p \in Float /\ Central(p) /\ p.e \in {e, e + 1} /\ e \in Nat \ {0}
         /\ Rounded(Value(p), Value(u) * Value(v), a, One, Pow2[p.e - 1])
<1>1. /\ AddShifts \in Nat \ {0} /\ EMax \in Nat /\ F \in Nat
      /\ u.e \in Nat /\ v.e \in Nat /\ Bias \in Nat
  <2>1. EMax \in Nat /\ F \in Nat /\ Bias \in Nat
    BY DividerWidths
  <2>2. AddShifts \in 1 .. F - 1
    BY FpuAssumption
  <2>3. AddShifts \in Nat \ {0}
    BY <2>1, <2>2
  <2>4. u.e \in Nat /\ v.e \in Nat
    BY FloatFields
  <2>5. QED
    BY <2>1, <2>3, <2>4
<1>2. e \in 1 .. EMax - 2 /\ e \in Nat \ {0}
  <2>1. e \in Int /\ AddShifts < e /\ e < EMax - 2
    BY <1>1
  <2>2. QED
    BY <1>1, <2>1
<1>3. /\ p \in Float /\ p.s = Xor(u.s, v.s) /\ p.e \in {e, e + 1}
      /\ Magnitude(p) * One <= Magnitude(u) * Magnitude(v)
      /\ Magnitude(u) * Magnitude(v) < (Magnitude(p) + Pow2[p.e - 1]) * One
  BY <1>2, MultiplierTruncates
<1>4. Central(p)
  BY <1>1, <1>2, <1>3 DEF Central
<1> DEFINE k == Pow2[p.e - 1]
           o == One
           M == Magnitude(u) * Magnitude(v)
           m == Magnitude(p)
           s == p.s
           i == Value(p)
           z == Value(u) * Value(v)
<1>5. k \in Nat \ {0} /\ o \in Nat \ {0}
  <2>1. p.e - 1 \in Nat
    BY <1>2, <1>3
  <2>2. Bias + F - 1 \in Nat
    BY DividerWidths
  <2>3. QED
    BY <2>1, <2>2, PowNat DEF One
<1>6. m \in Nat /\ M \in Nat /\ Magnitude(u) \in Nat /\ Magnitude(v) \in Nat
  <2>1. m \in Nat /\ Magnitude(u) \in Nat /\ Magnitude(v) \in Nat
    BY <1>3, MagnitudeNat
  <2>2. QED
    BY <2>1
<1>7. i = IF s = 1 THEN -m ELSE m
  BY DEF Value
<1>8. z = IF s = 1 THEN -M ELSE M
  <2>1. u.s \in {0, 1} /\ v.s \in {0, 1}
    BY FloatFields
  <2> DEFINE mu == Magnitude(u)
             mv == Magnitude(v)
  <2>2. mu \in Nat /\ mv \in Nat
    BY <1>6
  <2>3. Value(u) = (IF u.s = 1 THEN -mu ELSE mu) /\ Value(v) = IF v.s = 1 THEN -mv ELSE mv
    BY DEF Value
  <2>4. M = mu * mv
    OBVIOUS
  <2> HIDE DEF mu, mv
  <2> DEFINE xu == Value(u)
             xv == Value(v)
             S  == Xor(u.s, v.s)
  <2> HIDE DEF xu, xv
  <2>5. xu * xv = IF S = 1 THEN -(mu * mv) ELSE mu * mv
    <3>1. xu = (IF u.s = 1 THEN -mu ELSE mu) /\ xv = IF v.s = 1 THEN -mv ELSE mv
      BY <2>3 DEF xu, xv
    <3>2. Signs(u.s, v.s, mu, mv, xu, xv)
      BY <2>1, <2>2, <3>1 DEF Signs
    <3>3. QED
      BY <3>2, SignOfProduct
  <2>6. z = xu * xv /\ S = s
    BY <1>3 DEF xu, xv
  <2> HIDE DEF S, M, z, s
  <2>7. QED
    BY <2>4, <2>5, <2>6
<1>9. Apart(i * o, z) < k * o /\ i \in Int /\ z \in Int
  <2> DEFINE mo == m * o
             ko == k * o
  <2>1. mo <= M /\ M < mo + ko /\ mo \in Nat /\ ko \in Nat
    <3>1. m * o <= M /\ M < (m + k) * o
      BY <1>3
    <3> HIDE DEF m, o, k, M
    <3>2. (m + k) * o = mo + ko /\ mo \in Nat /\ ko \in Nat
      BY <1>5, <1>6
    <3>3. QED
      BY <3>1, <3>2
  <2> HIDE DEF m, o, k, M, i, z, s
  <2>2. i * o = IF s = 1 THEN -mo ELSE mo
    <3>1. (-m) * o = -mo
      BY <1>5, <1>6
    <3>2. QED
      BY <1>7, <3>1
  <2>3. i \in Int /\ z \in Int
    BY <1>6, <1>7, <1>8
  <2> DEFINE io == i * o
  <2>4. io = IF s = 1 THEN -mo ELSE mo
    BY <2>2
  <2> HIDE DEF mo, ko, io
  <2>5. Apart(io, z) < ko
    BY <1>6, <1>8, <2>1, <2>4 DEF Apart
  <2>6. QED
    BY <2>3, <2>5 DEF io, ko
<1> HIDE DEF k, o, i, z
<1>10. Rounded(i, z, a, o, k)
  BY <1>5, <1>9 DEF Rounded
<1>11. QED
  BY <1>2, <1>3, <1>4, <1>10 DEF i, z, o, k

\* The multiply-add proper: the product, the addend and what is off.
LEMMA FusedIsNear ==
  ASSUME NEW u \in Float, NEW v \in Float, u.e # 0, v.e # 0,
         NEW e, e = u.e + v.e - Bias, AddShifts < e, e < EMax - 2,
         NEW b \in Float, Central(b), NEW L, L = Larger(e + 1, b.e),
         NEW z, z = Value(u) * Value(v) + Value(b) * One,
         Apart(z, 0) >= Ulp(L) * Pow2[F - AddShifts + 1] * One,
         NEW p \in Multiplier(u, v), NEW r \in Adder(p, b)
  PROVE  /\ r \in Float /\ Value(r) \in Int /\ z \in Int
         /\ Apart(Value(r) * One, z) < (Ulp(e + 1) + Ulp(Larger(L, r.e))) * One
         /\ Ulp(e + 1) \in Nat /\ Ulp(Larger(L, r.e)) \in Nat /\ One \in Nat
<1> DEFINE a == Value(b)
           i == Value(p)
           q == Value(u) * Value(v)
           k == Pow2[p.e - 1]
           n == Pow2[F - AddShifts]
           w == Ulp(L)
           E == Larger(p.e, b.e)
<1>1. a \in Int /\ b.e \in Nat /\ Bias \in Nat
  BY NegatedValue, FloatFields, DividerWidths
<1>2. p \in Float /\ Central(p) /\ p.e \in {e, e + 1} /\ e \in Nat \ {0}
      /\ Rounded(i, q, a, One, k)
  BY <1>1, ProductIsRounded
<1>3. /\ p.e \in Nat \ {0} /\ p.e <= e + 1 /\ E \in Nat \ {0} /\ L \in Nat \ {0}
      /\ E <= L /\ e + 1 <= L
  BY <1>1, <1>2 DEF Larger
<1>4. /\ Ulp(p.e) = k /\ k \in Nat \ {0} /\ w \in Nat \ {0} /\ Ulp(E) = Pow2[E - 1]
      /\ Ulp(E) \in Nat \ {0} /\ Ulp(E) <= w /\ k <= w /\ Ulp(e + 1) \in Nat
      /\ k <= Ulp(e + 1)
  <2>1. Ulp(p.e) <= Ulp(L) /\ Ulp(p.e) \in Nat \ {0} /\ Ulp(L) \in Nat \ {0}
    BY <1>3, UlpOrder, p.e <= L
  <2>2. Ulp(E) <= Ulp(L) /\ Ulp(E) \in Nat \ {0}
    BY <1>3, UlpOrder
  <2>3. Ulp(p.e) <= Ulp(e + 1) /\ Ulp(e + 1) \in Nat
    BY <1>2, <1>3, UlpOrder, e + 1 \in Nat
  <2>4. Ulp(p.e) = Pow2[p.e - 1] /\ Ulp(E) = Pow2[E - 1]
    <3>1. \A j : j # 0 => Ulp(j) = Pow2[j - 1]
      BY DEF Ulp
    <3>2. QED
      BY <1>3, <3>1
  <2>5. QED
    BY <2>1, <2>2, <2>3, <2>4
<1>5. n \in Nat \ {0} /\ Pow2[F - AddShifts + 1] = 2 * n
  <2> DEFINE j == F - AddShifts
  <2>1. j \in Nat
    BY FpuAssumption, DividerWidths
  <2> HIDE DEF j
  <2>2. Pow2[j + 1] = 2 * Pow2[j] /\ Pow2[j] \in Nat \ {0}
    BY <2>1, PowStep, PowNat
  <2>3. QED
    BY <2>2 DEF j
<1> HIDE DEF i, q, k, n, w, E, a
<1>6. i \in Int /\ q \in Int /\ One \in Nat \ {0}
  BY <1>2 DEF Rounded
<1>7. z = q + a * One /\ Apart(q + a * One, 0) >= w * (2 * n) * One
  BY <1>5 DEF q, a, w
<1>8. Apart(i + a, 0) >= w * n
  BY <1>2, <1>4, <1>5, <1>7, FarFromZero
<1>9. Apart(i + a, 0) >= Ulp(E) * n
  <2> DEFINE h == Ulp(E)
             t == Apart(i + a, 0)
  <2>1. h \in Nat /\ h <= w /\ t \in Nat /\ t >= w * n
    <3>1. t \in Nat
      BY <1>1, <1>6 DEF Apart
    <3>2. QED
      BY <1>4, <1>8, <3>1
  <2> HIDE DEF h, t
  <2>2. (w - h) * n \in Nat /\ w * n = h * n + (w - h) * n /\ h * n \in Nat
    BY <1>4, <1>5, <2>1, w - h \in Nat
  <2>3. t >= h * n
    BY <1>4, <1>5, <2>1, <2>2
  <2>4. QED
    BY <2>3 DEF h, t
<1>10. /\ r \in Float /\ r.e \in Nat \ {0} /\ Value(r) \in Int
       /\ Apart(Value(r), i + a) < Ulp(Larger(E, r.e))
  <2> DEFINE y1 == i + a
  <2>1. E = Larger(p.e, b.e) /\ y1 = Value(p) + Value(b)
        /\ Apart(y1, 0) >= Pow2[E - 1] * Pow2[F - AddShifts]
    BY <1>4, <1>9 DEF E, i, a, n
  <2> HIDE DEF y1
  <2>2. /\ r \in Float /\ r.e \in Nat \ {0} /\ Value(r) \in Int
        /\ Apart(Value(r), y1) < Ulp(Larger(E, r.e))
    BY <1>2, <2>1, AdderIsClose
  <2>3. QED
    BY <2>2 DEF y1
<1> DEFINE l == Ulp(Larger(E, r.e))
           g == Ulp(Larger(L, r.e))
           f == Ulp(e + 1)
<1>11. l \in Nat /\ g \in Nat /\ l <= g
  <2> DEFINE j == Larger(E, r.e)
             h == Larger(L, r.e)
  <2>1. j \in Nat /\ h \in Nat /\ j <= h
    BY <1>3, <1>10 DEF Larger
  <2> HIDE DEF j, h
  <2>2. Ulp(j) \in Nat /\ Ulp(h) \in Nat /\ Ulp(j) <= Ulp(h)
    BY <2>1, UlpOrder
  <2>3. QED
    BY <2>2 DEF j, h
<1>12. Apart(Value(r) * One, q + a * One) < (k + l) * One
  <2> HIDE DEF l
  <2>1. Apart(Value(r), i + a) < l
    BY <1>10 DEF l
  <2>2. QED
    BY <1>2, <1>10, <1>11, <2>1, RoundedTwice
<1>13. z \in Int
  BY <1>1, <1>6, <1>7
<1>14. Apart(Value(r) * One, z) < (f + g) * One
  <2> DEFINE t == Apart(Value(r) * One, z)
  <2>1. t \in Nat
    <3> DEFINE j == Value(r) * One
    <3>1. j \in Int
      BY <1>6, <1>10
    <3> HIDE DEF j
    <3>2. Apart(j, z) \in Nat
      BY <1>13, <3>1 DEF Apart
    <3>3. QED
      BY <3>2 DEF j
  <2>2. t < (k + l) * One
    BY <1>7, <1>12
  <2> HIDE DEF t, l, g, f
  <2>3. f \in Nat /\ k <= f /\ k \in Nat
    BY <1>4 DEF f
  <2> DEFINE h == (f + g) - (k + l)
  <2>4. h \in Nat /\ f + g = (k + l) + h
    BY <1>11, <2>3
  <2> HIDE DEF h
  <2>5. ((k + l) + h) * One = (k + l) * One + h * One /\ h * One \in Nat
        /\ (k + l) * One \in Nat
    BY <1>6, <1>11, <2>3, <2>4
  <2>6. t < (f + g) * One
    BY <2>1, <2>2, <2>4, <2>5
  <2>7. QED
    BY <2>6 DEF t
<1>15. QED
  BY <1>4, <1>6, <1>10, <1>11, <1>13, <1>14

\* What the multiply-add computes of numbers in the middle of the range.
LEMMA MultiplyAddIs ==
  ASSUME NEW op \in Fused, NEW u \in Float, NEW v \in Float, NEW w \in Float,
         u.e # EMax, v.e # EMax, w.e # EMax, NEW r \in MultiplyAdd(op, u, v, w)
  PROVE  \E p \in Multiplier(u, v) : \E q \in Adder(p, Addend(op, w)) :
           r = IF op \in {"NMADD", "NMSUB"} THEN Negated(q) ELSE q
<1>1. /\ ~LooksNaN(u) /\ ~LooksNaN(v) /\ ~LooksNaN(w)
      /\ ~LooksZero(u) /\ ~LooksZero(v) /\ ~LooksZero(w)
  BY FloatFields
<1> DEFINE sums == UNION {Adder(p, Addend(op, w)) : p \in Multiplier(u, v)}
           infs == {Infinity(Xor(p.s, w.s)) : p \in Multiplier(u, v)}
           negs == {Negated(q) : q \in sums}
           negates == op \in {"NMADD", "NMSUB"}
<1>2. MultiplyAdd(op, u, v, w) = IF negates THEN negs ELSE sums
  <2>1. MultiplyAdd(op, u, v, w) =
          IF LooksNaN(u) THEN {u}
          ELSE IF LooksNaN(v) THEN {v}
          ELSE IF LooksZero(w) THEN Multiplier(u, v)
          ELSE IF LooksZero(u) \/ LooksZero(v) \/ LooksNaN(w) THEN {w}
          ELSE IF u.e = EMax THEN {Infinity(Xor(u.s, w.s))}
          ELSE IF v.e = EMax THEN {Infinity(Xor(v.s, w.s))}
          ELSE IF w.e = EMax THEN infs
          ELSE IF negates THEN negs
          ELSE sums
    BY Zenon DEF MultiplyAdd
  <2> HIDE DEF sums, infs, negs, negates
  <2>2. QED
    BY <1>1, <2>1, Zenon
<1>3. ASSUME NEW q \in sums
      PROVE  \E p \in Multiplier(u, v) : q \in Adder(p, Addend(op, w))
  BY <1>3, Zenon
<1>4. CASE negates
  <2>1. r \in negs
    BY <1>2, <1>4
  <2>2. PICK q \in sums : r = Negated(q)
    BY <2>1, Zenon
  <2>3. QED
    BY <1>3, <1>4, <2>2, Zenon
<1>5. CASE ~negates
  <2>1. r \in sums
    BY <1>2, <1>5
  <2>2. QED
    BY <1>3, <1>5, <2>1, Zenon
<1>6. QED
  BY <1>4, <1>5

\* Changing the signs of two numbers brings them no closer and no further.
LEMMA ApartNegated ==
  ASSUME NEW p \in Int, NEW q \in Int, NEW t \in Int, NEW o \in Int, t = -p
  PROVE  /\ Apart(t * o, -q) = Apart(p * o, q)
         /\ Apart(-q, 0) = Apart(q, 0)
<1> DEFINE po == p * o
           to == t * o
<1>1. po \in Int /\ to = -po
  BY (-p) * o = -(p * o)
<1> HIDE DEF po, to
<1>2. Apart(to, -q) = Apart(po, q) /\ Apart(-q, 0) = Apart(q, 0)
  BY <1>1 DEF Apart
<1>3. QED
  BY <1>2 DEF po, to

\* and multiply-adds.
LEMMA FusedIsFound ==
  FpuInv => FusedIsClose
<1> DEFINE op == in.op
           u  == in.a
           v  == in.b
           w  == in.c
           e  == u.e + v.e - Bias
           negates == op \in {"NMADD", "NMSUB"}
           factor  == IF negates THEN -1 ELSE 1
           addend  == IF op \in {"MSUB", "NMSUB"} THEN -Value(w) ELSE Value(w)
           inner   == Value(u) * Value(v) + addend * One
           exact   == factor * inner
           L == Larger(e + 1, w.e)
<1> SUFFICES ASSUME FpuInv, Computed(Fused), u.e \in 1 .. EMax - 1, v.e \in 1 .. EMax - 1,
                    AddShifts < e, e < EMax - 2, Central(w),
                    Apart(exact, 0) >= Ulp(L) * Pow2[F - AddShifts + 1] * One
             PROVE  Apart(Value(out) * One, exact) < (Ulp(e + 1) + Ulp(Larger(L, out.e))) * One
  BY Zenon DEF FusedIsClose
<1>1. /\ op \in Fused /\ u \in Float /\ v \in Float /\ w \in Float
      /\ out \in Outcomes(op, u, v, w)
  BY DEF FpuInv, FpuRecords, Computed
<1>2. out \in MultiplyAdd(op, u, v, w)
  <2> DEFINE abs == {[r EXCEPT !.s = 0] : r \in Sum(op, u, v)}
             h == {Holds(op, u, v)}
             S == MultiplyAdd(op, u, v, w)
  <2>1. Outcomes(op, u, v, w) =
          CASE op \in {"ADD", "SUB"}  -> Sum(op, u, v)
            [] op = "SUBABS"          -> abs
            [] op = "MUL"             -> Product(u, v)
            [] op \in Fused           -> S
            [] op \in Comparisons     -> h
    BY Zenon DEF Outcomes
  <2> HIDE DEF abs, h, S
  <2>2. Outcomes(op, u, v, w) = S
    BY <1>1, <2>1 DEF Fused, Comparisons
  <2>3. QED
    BY <1>1, <2>2 DEF S
<1>3. /\ u.e # 0 /\ v.e # 0 /\ u.e # EMax /\ v.e # EMax /\ w.e # EMax
      /\ Value(u) \in Int /\ Value(v) \in Int /\ Value(w) \in Int /\ One \in Nat \ {0}
  <2>1. EMax \in Nat /\ w.e \in Nat
    BY <1>1, FloatFields
  <2>2. Value(u) \in Int /\ Value(v) \in Int /\ Value(w) \in Int
    BY <1>1, NegatedValue
  <2>3. One \in Nat \ {0}
    <3>1. Bias + F - 1 \in Nat
      BY DividerWidths
    <3>2. QED
      BY <3>1, PowNat DEF One
  <2>4. QED
    BY <2>1, <2>2, <2>3 DEF Central
<1> HIDE DEF u, v, w, op
<1> DEFINE b == Addend(op, w)
<1>4. PICK p \in Multiplier(u, v) : \E q \in Adder(p, b) :
         out = IF negates THEN Negated(q) ELSE q
  BY <1>1, <1>2, <1>3, MultiplyAddIs
<1>5. PICK q \in Adder(p, b) : out = IF negates THEN Negated(q) ELSE q
  BY <1>4
<1>6. b \in Float /\ Central(b) /\ b.e = w.e /\ Value(b) = addend /\ addend \in Int
  <2>1. Negated(w) \in Float /\ Negated(w).e = w.e /\ Value(Negated(w)) = -Value(w)
        /\ Central(Negated(w))
    BY <1>1, NegatedValue
  <2>2. CASE op \in {"MSUB", "NMSUB"}
    BY <1>3, <2>1, <2>2 DEF Addend
  <2>3. CASE op \notin {"MSUB", "NMSUB"}
    BY <1>1, <1>3, <2>3 DEF Addend
  <2>4. QED
    BY <2>2, <2>3
<1> HIDE DEF b, addend
<1>7. inner \in Int /\ exact = IF negates THEN -inner ELSE inner
  <2>1. inner \in Int
    BY <1>3, <1>6
  <2> HIDE DEF inner
  <2>2. QED
    BY <2>1
<1>8. Apart(exact, 0) = Apart(inner, 0)
  <2> HIDE DEF inner, exact, negates
  <2>1. QED
    BY <1>7 DEF Apart
<1>9. /\ q \in Float /\ Value(q) \in Int
      /\ Apart(Value(q) * One, inner) < (Ulp(e + 1) + Ulp(Larger(L, q.e))) * One
  <2> DEFINE z == inner
  <2>1. z = Value(u) * Value(v) + Value(b) * One
    BY <1>6
  <2>2. Apart(z, 0) >= Ulp(L) * Pow2[F - AddShifts + 1] * One
    BY <1>8
  <2> HIDE DEF z, inner, exact
  <2>3. e = u.e + v.e - Bias /\ L = Larger(e + 1, b.e)
    BY <1>6
  <2> HIDE DEF e, L
  <2>4. /\ q \in Float /\ Value(q) \in Int
        /\ Apart(Value(q) * One, z) < (Ulp(e + 1) + Ulp(Larger(L, q.e))) * One
    BY <1>1, <1>3, <1>6, <2>1, <2>2, <2>3, FusedIsNear
  <2>5. QED
    BY <2>4 DEF z
<1> HIDE DEF inner, exact, e, L
<1>10. CASE negates
  <2>1. out = Negated(q) /\ exact = -inner
    BY <1>5, <1>7, <1>10
  <2>2. out.e = q.e /\ Value(out) = -Value(q) /\ Value(out) \in Int
    BY <1>9, <2>1, NegatedValue
  <2>3. Apart(Value(out) * One, -inner) = Apart(Value(q) * One, inner)
    BY <1>3, <1>7, <1>9, <2>2, ApartNegated
  <2>4. QED
    BY <1>9, <2>1, <2>2, <2>3
<1>11. CASE ~negates
  <2>1. out = q /\ exact = inner
    BY <1>5, <1>7, <1>11
  <2>2. QED
    BY <1>9, <2>1
<1>12. QED
  BY <1>10, <1>11

--------------------------------------------------------------------------------
(* The three units together.                                                *)

\* The inductive invariant of the three units.
UnitsInv == DividerInv /\ ConverterInv /\ FpuInv

\* A unit that is not looked at keeps what is known of it.
LEMMA DividerRests ==
  ASSUME DividerInv, UNCHANGED divVars
  PROVE  DividerInv'
<1>1. d' = d /\ holds' = holds /\ x' = x /\ y' = y
  BY DEF divVars
<1>2. TypeOK' /\ (d.state = "special_cases" => Unpacked)' /\ OperandsKept'
  BY <1>1, Zenon DEF DividerInv, DivInv, TypeOK, Unpacked, OperandsKept
<1>3. DividesExactly'
  BY <1>1, Zenon DEF DividerInv, DivInv, DividesExactly
<1>4. ResultKept'
  BY <1>1, Zenon DEF DividerInv, DivInv, ResultKept, Quarters, Net
<1>5. ResultIsQuotient'
  BY <1>1, Zenon DEF DividerInv, DivInv, ResultIsQuotient, PackedZ
<1>6. AgeIs'
  <2>1. Shifts' = Shifts /\ Net' = Net
    BY <1>1, Zenon DEF Shifts, Net
  <2>2. Moves' = Moves
    BY <2>1, Zenon DEF Moves
  <2>3. QED
    <3>1. AgeIs
      BY DEF DividerInv, DivInv
    <3>2. QED
      BY <1>1, <2>1, <2>2, <3>1 DEF AgeIs
<1>7. Served'
  BY <1>1, Zenon DEF DividerInv, Served
<1>8. QED
  BY <1>2, <1>3, <1>4, <1>5, <1>6, <1>7, Zenon DEF DividerInv, DivInv

\* The same of the converter,
LEMMA ConverterRests ==
  ASSUME ConverterInv, UNCHANGED cvtVars
  PROVE  ConverterInv'
<1>1. c' = c /\ cvtHolds' = cvtHolds /\ cvtX' = cvtX
  BY DEF cvtVars
<1>2. CvtInv'
  BY <1>1, Zenon DEF ConverterInv, CvtInv, Joined, CvtPacked
<1>3. CvtServed'
  BY <1>1, Zenon DEF ConverterInv, CvtServed
<1>4. QED
  BY <1>2, <1>3 DEF ConverterInv

\* and of the combinational unit.
LEMMA FpuRests ==
  ASSUME FpuInv, UNCHANGED fpuVars
  PROVE  FpuInv'
BY DEF fpuVars, FpuInv

\* The invariant holds at power-up
LEMMA UnitsStart ==
  UnitsInit => UnitsInv
<1> SUFFICES ASSUME UnitsInit PROVE UnitsInv
  OBVIOUS
<1>1. ClientInit \/ Quiet
  BY DEF UnitsInit
<1>2. Cvt!ClientInit \/ Cvt!Quiet
  BY DEF UnitsInit
<1>3. FpuInv
  <2>1. Standby \in FpuRecords
    <3>1. Zero(0) \in Float /\ "ADD" \in FpuOps
      BY SpecialValues DEF FpuOps, Sums
    <3>2. QED
      BY <3>1 DEF Standby, FpuRecords
  <2>2. in \in FpuRecords /\ out = NoResult
    BY <2>1, InputsAssumption DEF UnitsInit, FpuRecords
  <2>3. QED
    BY <2>2 DEF FpuInv
<1>4. QED
  BY <1>1, <1>2, <1>3, DividerStarts, ConverterStarts DEF UnitsInv

\* and every step keeps it.
LEMMA UnitsKeep ==
  UnitsInv /\ [UnitsNext]_vars => UnitsInv'
<1> SUFFICES ASSUME UnitsInv, [UnitsNext]_vars PROVE UnitsInv'
  OBVIOUS
<1>0. DividerInv /\ ConverterInv /\ FpuInv
  BY DEF UnitsInv
<1>1. CASE DividerHolds
  BY <1>0, <1>1, HoldKeeps, ConverterRests, FpuRests DEF DividerHolds, UnitsInv
<1>2. CASE DividerChanges
  BY <1>0, <1>2, ChangeKeeps, ConverterRests, FpuRests DEF DividerChanges, UnitsInv
<1>3. CASE ConverterHolds
  BY <1>0, <1>3, CvtHoldKeeps, DividerRests, FpuRests DEF ConverterHolds, UnitsInv
<1>4. CASE ConverterChanges
  BY <1>0, <1>4, CvtChangeKeeps, DividerRests, FpuRests DEF ConverterChanges, UnitsInv
<1>5. CASE FpuComputes
  <2>1. FpuInv'
    BY <1>0, <1>5 DEF FpuComputes, Execute, FpuInv
  <2>2. QED
    BY <1>0, <1>5, <2>1, DividerRests, ConverterRests DEF FpuComputes, UnitsInv
<1>6. CASE UNCHANGED vars
  BY <1>0, <1>6, DividerRests, ConverterRests, FpuRests DEF vars, UnitsInv
<1>7. QED
  BY <1>1, <1>2, <1>3, <1>4, <1>5, <1>6 DEF UnitsNext

\* The inductive invariant of the three units.
THEOREM UnitsAreInvariant ==
  UnitsSpec => []UnitsInv
<1>1. QED
  BY UnitsStart, UnitsKeep, PTL DEF UnitsSpec

\* Type correctness: the registers of the divider, of the converter and of the
\* combinational unit hold values of their widths, and no operation takes longer than the
\* latency bound.
THEOREM RegistersFit ==
  UnitsSpec => []UnitsTypeOK
<1>1. UnitsInv => UnitsTypeOK
  BY ConverterSays, FpuIsTyped DEF UnitsInv, UnitsTypeOK, DividerInv, DivInv
<1>2. QED
  BY <1>1, UnitsAreInvariant, PTL

\* Whatever float the divider or the converter holds valid for a client that keeps its
\* operands is the correctly rounded one: the quotient rounded to nearest, ties to even,
\* with the special values and subnormals (ibex_float_divider.sv), and the float nearest
\* to the integer (ibex_int2float.sv).
THEOREM ResultsAreCorrect ==
  UnitsSpec => []ResultsAreRounded
<1>1. UnitsInv => ResultsAreRounded
  BY ConverterSays DEF UnitsInv, ResultsAreRounded, DividerInv, Served, EveryResultIsRounded
<1>2. QED
  BY <1>1, UnitsAreInvariant, PTL

\* No bit gets lost on the way: in the loop of ibex_float_divider.sv quotient, divisor,
\* remainder and what is left of the dividend make up the dividend, and in that of
\* ibex_int2float.sv mantissa, rest and exponent make up the integer.
THEOREM LoopsAreExact ==
  UnitsSpec => []LoopsKeepTheValue
<1>1. UnitsInv => LoopsKeepTheValue
  BY ConverterSays, DivisionIsExact DEF UnitsInv, LoopsKeepTheValue, DividerInv
<1>2. QED
  BY <1>1, UnitsAreInvariant, PTL

\* The comparisons (ibex_fpu.sv:400-421), made on the bits of the words, order the values.
THEOREM ComparisonsAreCorrect ==
  UnitsSpec => []ComparisonsOrder
<1>1. UnitsInv => ComparisonsOrder
  BY ComparisonsAreRight DEF UnitsInv
<1>2. QED
  BY <1>1, UnitsAreInvariant, PTL

\* The product (multiplier, ibex_fpu.sv:532) in the normal range is the exact product cut
\* off: never above it, and less than one last place below it.
THEOREM ProductsAreCorrect ==
  UnitsSpec => []ProductsTruncate
<1>1. UnitsInv => ProductsTruncate
  BY ProductsAreTruncated DEF UnitsInv
<1>2. QED
  BY <1>1, UnitsAreInvariant, PTL

\* A sum, difference or absolute difference of two numbers in the middle of the range
\* (adder, ibex_fpu.sv:427) is less than a last place off the exact one, whatever
\* alignment shifts out, a carry cuts off or cancellation leaves, as long as the
\* normaliser finds the leading one.
THEOREM SumsAreCorrect ==
  UnitsSpec => []SumsAreClose
<1>1. UnitsInv => SumsAreClose
  BY SumsAreFound DEF UnitsInv
<1>2. QED
  BY <1>1, UnitsAreInvariant, PTL

\* A multiply-add whose product, addend and result lie in the middle of the range (the
\* product of multiplier, ibex_fpu.sv:532, given to adder) is off by less than a last
\* place of its product and one of its larger part, in each of its four signs.
THEOREM FusedAreCorrect ==
  UnitsSpec => []FusedIsClose
<1>1. UnitsInv => FusedIsClose
  BY FusedIsFound DEF UnitsInv
<1>2. QED
  BY <1>1, UnitsAreInvariant, PTL

\* A step that changes the divider's registers is a step of the divider's unit,
LEMMA DividerRefines ==
  UnitsInv /\ [UnitsNext]_vars => [d' # d => Unit!Next]_d
<1> SUFFICES ASSUME UnitsInv, [UnitsNext]_vars, d' # d PROVE Unit!Next
  OBVIOUS
<1>1. Hold \/ Change
  BY DEF UnitsNext, DividerHolds, DividerChanges, ConverterHolds, ConverterChanges,
         FpuComputes, vars, divVars
<1>2. QED
  BY <1>1, DividerShows DEF UnitsInv

\* and one that changes the converter's is a step of the converter's unit.
LEMMA ConverterRefines ==
  UnitsInv /\ [UnitsNext]_vars => [c' # c => Cvt!Unit!Next]_c
<1> SUFFICES ASSUME UnitsInv, [UnitsNext]_vars, c' # c PROVE Cvt!Unit!Next
  OBVIOUS
<1>1. Cvt!Hold \/ Cvt!Change
  BY DEF UnitsNext, DividerHolds, DividerChanges, ConverterHolds, ConverterChanges,
         FpuComputes, vars, cvtVars
<1>2. QED
  BY <1>1, ConverterShows DEF UnitsInv

\* The two sequential units implement what the execute stage sees of them: operands taken
\* in a handshake, a result after a number of cycles within the latency bound, valid and
\* right.
THEOREM UnitsImplement ==
  UnitsSpec => UnitsImplemented
<1>1. UnitsInit => Unit!Init
  <2>1. UnitsInit => Init
    BY DEF UnitsInit, ClientInit, Quiet
  <2>2. QED
    BY <2>1, ShowsInit
<1>2. UnitsInit => Cvt!Unit!Init
  <2>1. UnitsInit => Cvt!Init
    BY DEF UnitsInit, Cvt!ClientInit, Cvt!Quiet
  <2>2. QED
    BY <2>1, CvtShowsInit
<1>3. UnitsSpec => Unit!Init /\ [][d' # d => Unit!Next]_d
  BY <1>1, DividerRefines, UnitsAreInvariant, PTL DEF UnitsSpec
<1>4. UnitsSpec => Cvt!Unit!Init /\ [][c' # c => Cvt!Unit!Next]_c
  BY <1>2, ConverterRefines, UnitsAreInvariant, PTL DEF UnitsSpec
<1>5. QED
  BY <1>3, <1>4 DEF UnitsImplemented, ImplementsUnit, Cvt!ImplementsUnit

================================================================================
