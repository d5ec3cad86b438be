----------------------------- MODULE FloatDivider ------------------------------
(***************************************************************************)
(* ibex_float_divider, state by state, for any width of the number format: *)
(* handshake, unpacking, special cases, normalisation of subnormal         *)
(* operands, restoring division one bit every two cycles, normalisation of *)
(* the result, rounding and packing.                                       *)
(*                                                                         *)
(* The widths follow the source's: with F = 23 and EB = 8 a mantissa has   *)
(* 24 = F + 1 bits, the dividend 51 = 2F + 5, an exponent register         *)
(* 10 = EB + 2, the loop runs 50 = 2F + 4 times.                           *)
(***************************************************************************)
EXTENDS FloatFormat

CONSTANT
  PowerUp        \* what an unreset register may hold after power-up

\* The exponent registers hold what normalising a subnormal operand makes of its exponent.
ASSUME DividerAssumption == PowerUp \subseteq Float /\ F <= 2 * Bias

VARIABLE d       \* the registers of the unit

ManBits == F + 1
DivBits == 2 * F + 5
ExpBits == EB + 2
Loops   == 2 * F + 4

Working == {"unpack", "special_cases", "normalise_a", "normalise_b", "divide_0",
            "divide_1", "divide_2", "divide_3", "normalise_1", "normalise_2",
            "round", "pack"}

(***************************************************************************)
(* The numbers of cycles from unpack to pack: two for a special case, else *)
(* two per quotient bit and one per position that an operand or the result *)
(* is shifted. {2} \cup 110 .. 283 in single precision.                    *)
(***************************************************************************)
MaxLatency == 6 * F + 18 + Bias
Latencies  == {2} \cup (4 * F + 18) .. MaxLatency

Bit         == {0, 1}
Mantissas   == 0 .. Pow2[ManBits] - 1
Exponents   == -(Pow2[ExpBits - 1]) .. Pow2[ExpBits - 1] - 1
DivideWords == 0 .. Pow2[DivBits] - 1

\* age is a history variable: the cycles spent so far in the Working states, up
\* to one more than there can be.
RegType ==
  [state : Working \cup {"get_a", "get_b", "put_z"},
   s_input_a_ack : BOOLEAN, s_input_b_ack : BOOLEAN, s_output_z_stb : BOOLEAN,
   fdiv_valid_o : BOOLEAN,
   a : Float, b : Float, z : Float, s_output_z : Float,
   a_m : Mantissas, b_m : Mantissas, z_m : Mantissas,
   a_e : Exponents, b_e : Exponents, z_e : Exponents,
   a_s : Bit, b_s : Bit, z_s : Bit,
   guard : Bit, round_bit : Bit, sticky : Bit,
   quotient : DivideWords, divisor : DivideWords, dividend : DivideWords,
   remainder : DivideWords, count : 0 .. Loops - 1, age : 0 .. MaxLatency]

TypeOK == d \in RegType

\* The reset assigns the control registers only. The data registers power up
\* with an unknown content, of which the working ones show one value here.
Init ==
  \E x, y, r, o \in PowerUp :
    d = [state |-> "get_a", s_input_a_ack |-> FALSE, s_input_b_ack |-> FALSE,
         s_output_z_stb |-> FALSE, fdiv_valid_o |-> FALSE,
         a |-> x, b |-> y, z |-> r, s_output_z |-> o,
         a_m |-> 0, b_m |-> 0, z_m |-> 0, a_e |-> 0, b_e |-> 0, z_e |-> 0,
         a_s |-> 0, b_s |-> 0, z_s |-> 0, guard |-> 0, round_bit |-> 0, sticky |-> 0,
         quotient |-> 0, divisor |-> 0, dividend |-> 0, remainder |-> 0,
         count |-> 0, age |-> 0]

--------------------------------------------------------------------------------
(* Registers of a fixed width.                                             *)

Msb(m)        == m \div Pow2[F] = 1                          \* bit F of a mantissa
ShiftIn(m, b) == (2 * m + b) % Pow2[ManBits]
Signed(n)     == ((n + Pow2[ExpBits - 1]) % Pow2[ExpBits]) - Pow2[ExpBits - 1]
Shifted(w)    == (2 * w) % Pow2[DivBits]
BitOf(w, i)   == (w \div Pow2[i]) % 2
Or(p, q)      == IF p + q = 0 THEN 0 ELSE 1

Aged == IF d.age < MaxLatency THEN d.age + 1 ELSE d.age

--------------------------------------------------------------------------------
(* One clock edge, by state. en, x and y are the inputs sampled at it.     *)

GetA(en, x) ==
  /\ d.state = "get_a"
  /\ IF d.s_input_a_ack /\ en
       THEN d' = [d EXCEPT !.fdiv_valid_o = FALSE, !.s_input_a_ack = FALSE, !.a = x,
                           !.state = "get_b"]
       ELSE d' = [d EXCEPT !.fdiv_valid_o = FALSE, !.s_input_a_ack = TRUE]

GetB(y) ==
  /\ d.state = "get_b"
  /\ IF d.s_input_b_ack
       THEN d' = [d EXCEPT !.s_input_b_ack = FALSE, !.b = y, !.state = "unpack"]
       ELSE d' = [d EXCEPT !.s_input_b_ack = TRUE]

Unpack ==
  /\ d.state = "unpack"
  /\ d' = [d EXCEPT !.a_m = d.a.f, !.a_e = d.a.e - Bias, !.a_s = d.a.s,
                    !.b_m = d.b.f, !.b_e = d.b.e - Bias, !.b_s = d.b.s,
                    !.state = "special_cases", !.age = Aged]

\* The result that special_cases returns at once, if it is one of its cases.
\* Inside "a is inf" the source compares b's exponent as an unsigned number with
\* the negative constant, which is never equal.
AInf  == d.a_e = Bias + 1
BInf  == d.b_e = Bias + 1
AZero == d.a_e = -Bias /\ d.a_m = 0
BZero == d.b_e = -Bias /\ d.b_m = 0
BZeroUnsigned == d.b_e % Pow2[ExpBits] = -Bias /\ d.b_m = 0

\* Broken: a zero dividend is not seen.
IsSpecialButZero == AInf \/ BInf \/ BZero

IsSpecial == AInf \/ BInf \/ AZero \/ BZero

SpecialResult ==
  LET s == Xor(d.a_s, d.b_s)
  IN  IF (AInf /\ d.a_m # 0) \/ (BInf /\ d.b_m # 0) \/ (AInf /\ BInf) THEN DefaultNaN
      ELSE IF AInf  THEN IF BZeroUnsigned THEN DefaultNaN ELSE Infinity(s)
      ELSE IF BInf  THEN Zero(s)
      ELSE IF AZero THEN IF BZero THEN DefaultNaN ELSE Zero(s)
      ELSE Infinity(s)

Special ==
  /\ d.state = "special_cases" /\ IsSpecial
  /\ d' = [d EXCEPT !.z = SpecialResult, !.state = "put_z", !.age = 0]

\* Otherwise a subnormal operand gets the least exponent, a normal one its
\* hidden bit.
Ordinary ==
  /\ d.state = "special_cases" /\ ~IsSpecial
  /\ d' = [d EXCEPT !.a_e = IF @ = -Bias THEN 1 - Bias ELSE @,
                    !.a_m = IF d.a_e = -Bias THEN @ ELSE (@ % Pow2[F]) + Pow2[F],
                    !.b_e = IF @ = -Bias THEN 1 - Bias ELSE @,
                    !.b_m = IF d.b_e = -Bias THEN @ ELSE (@ % Pow2[F]) + Pow2[F],
                    !.state = "normalise_a", !.age = Aged]

NormaliseA ==
  /\ d.state = "normalise_a"
  /\ IF Msb(d.a_m)
       THEN d' = [d EXCEPT !.state = "normalise_b", !.age = Aged]
       ELSE d' = [d EXCEPT !.a_m = ShiftIn(@, 0), !.a_e = Signed(@ - 1), !.age = Aged]

NormaliseB ==
  /\ d.state = "normalise_b"
  /\ IF Msb(d.b_m)
       THEN d' = [d EXCEPT !.state = "divide_0", !.age = Aged]
       ELSE d' = [d EXCEPT !.b_m = ShiftIn(@, 0), !.b_e = Signed(@ - 1), !.age = Aged]

\* Broken: the remainder of the division before is not cleared.
Divide0KeepsRemainder ==
  /\ d.state = "divide_0"
  /\ d' = [d EXCEPT !.z_s = Xor(d.a_s, d.b_s), !.z_e = Signed(d.a_e - d.b_e),
                    !.quotient = 0, !.count = 0,
                    !.dividend = d.a_m * Pow2[F + 4], !.divisor = d.b_m,
                    !.state = "divide_1", !.age = Aged]

Divide0 ==
  /\ d.state = "divide_0"
  /\ d' = [d EXCEPT !.z_s = Xor(d.a_s, d.b_s), !.z_e = Signed(d.a_e - d.b_e),
                    !.quotient = 0, !.remainder = 0, !.count = 0,
                    !.dividend = d.a_m * Pow2[F + 4], !.divisor = d.b_m,
                    !.state = "divide_1", !.age = Aged]

Divide1 ==
  /\ d.state = "divide_1"
  /\ d' = [d EXCEPT !.quotient = Shifted(@),
                    !.remainder = Shifted(@) + BitOf(d.dividend, DivBits - 1),
                    !.dividend = Shifted(@),
                    !.state = "divide_2", !.age = Aged]

\* Broken: one iteration too many.
Divide2OneMore ==
  /\ d.state = "divide_2"
  /\ LET fits == d.remainder >= d.divisor
         last == d.count = Loops
     IN  d' = [d EXCEPT !.quotient = IF fits THEN @ - (@ % 2) + 1 ELSE @,
                        !.remainder = IF fits THEN @ - d.divisor ELSE @,
                        !.count = IF last THEN @ ELSE @ + 1,
                        !.state = IF last THEN "divide_3" ELSE "divide_1",
                        !.age = Aged]

Divide2 ==
  /\ d.state = "divide_2"
  /\ LET fits == d.remainder >= d.divisor
         last == d.count = Loops - 1
     IN  d' = [d EXCEPT !.quotient = IF fits THEN @ - (@ % 2) + 1 ELSE @,
                        !.remainder = IF fits THEN @ - d.divisor ELSE @,
                        !.count = IF last THEN @ ELSE @ + 1,
                        !.state = IF last THEN "divide_3" ELSE "divide_1",
                        !.age = Aged]

Divide3 ==
  /\ d.state = "divide_3"
  /\ d' = [d EXCEPT !.z_m = (d.quotient \div 8) % Pow2[ManBits],
                    !.guard = BitOf(d.quotient, 2), !.round_bit = BitOf(d.quotient, 1),
                    !.sticky = IF BitOf(d.quotient, 0) = 1 \/ d.remainder # 0 THEN 1 ELSE 0,
                    !.state = "normalise_1", !.age = Aged]

Normalise1 ==
  /\ d.state = "normalise_1"
  /\ IF ~Msb(d.z_m) /\ d.z_e > 1 - Bias
       THEN d' = [d EXCEPT !.z_e = Signed(@ - 1), !.z_m = ShiftIn(@, d.guard),
                           !.guard = d.round_bit, !.round_bit = 0, !.age = Aged]
       ELSE d' = [d EXCEPT !.state = "normalise_2", !.age = Aged]

Normalise2 ==
  /\ d.state = "normalise_2"
  /\ IF d.z_e < 1 - Bias
       THEN d' = [d EXCEPT !.z_e = Signed(@ + 1), !.z_m = @ \div 2,
                           !.guard = d.z_m % 2, !.round_bit = d.guard,
                           !.sticky = Or(@, d.round_bit), !.age = Aged]
       ELSE d' = [d EXCEPT !.state = "round", !.age = Aged]

\* Broken: a tie always rounds down.
RoundsUpTiesDown == d.guard = 1 /\ (d.round_bit = 1 \/ d.sticky = 1)

RoundsUp == d.guard = 1 /\ (d.round_bit = 1 \/ d.sticky = 1 \/ d.z_m % 2 = 1)

RoundZ ==
  /\ d.state = "round"
  /\ d' = [d EXCEPT !.z_m = IF RoundsUp THEN (@ + 1) % Pow2[ManBits] ELSE @,
                    !.z_e = IF RoundsUp /\ d.z_m = Pow2[ManBits] - 1 THEN Signed(@ + 1) ELSE @,
                    !.state = "pack", !.age = Aged]

PackedZ ==
  IF d.z_e > Bias
    THEN Infinity(d.z_s)
    ELSE [s |-> d.z_s, f |-> d.z_m % Pow2[F],
          e |-> IF d.z_e = 1 - Bias /\ ~Msb(d.z_m) THEN 0 ELSE (d.z_e + Bias) % Pow2[EB]]

Pack ==
  /\ d.state = "pack"
  /\ d' = [d EXCEPT !.z = PackedZ, !.state = "put_z", !.age = 0]

PutZ ==
  /\ d.state = "put_z"
  /\ IF d.s_output_z_stb
       THEN d' = [d EXCEPT !.s_output_z = d.z, !.s_output_z_stb = FALSE,
                           !.fdiv_valid_o = TRUE, !.state = "get_a"]
       ELSE d' = [d EXCEPT !.s_output_z = d.z, !.s_output_z_stb = TRUE]

Compute ==
  \/ Unpack \/ Special \/ Ordinary \/ NormaliseA \/ NormaliseB
  \/ Divide0 \/ Divide1 \/ Divide2 \/ Divide3 \/ Normalise1 \/ Normalise2
  \/ RoundZ \/ Pack

Step(en, x, y) == GetA(en, x) \/ GetB(y) \/ Compute \/ PutZ

(***************************************************************************)
(* The falling edge of rst_i runs the block once more: the reset overrides *)
(* the control registers, the data registers keep what the branch of the   *)
(* state assigns. The working registers are written again before their     *)
(* next use, and are left as they are here.                                *)
(***************************************************************************)
TakenA(en, x) == IF d.state = "get_a" /\ d.s_input_a_ack /\ en THEN x ELSE d.a
TakenB(y)     == IF d.state = "get_b" /\ d.s_input_b_ack THEN y ELSE d.b

ResetWith(newA, newB) ==
  d' = [d EXCEPT !.state = "get_a", !.s_input_a_ack = FALSE, !.s_input_b_ack = FALSE,
                 !.s_output_z_stb = FALSE, !.fdiv_valid_o = FALSE, !.age = 0,
                 !.a = newA, !.b = newB,
                 !.z = CASE d.state = "special_cases" /\ IsSpecial -> SpecialResult
                         [] d.state = "pack" -> PackedZ
                         [] OTHER -> @,
                 !.s_output_z = IF d.state = "put_z" THEN d.z ELSE @]

--------------------------------------------------------------------------------
(* Properties                                                              *)

Unit == INSTANCE DividerUnit WITH
  Values <- Float, WorkCycles <- Latencies, Div <- Quotient,
  u <- [st |-> IF d.state \in Working THEN "work" ELSE d.state,
        ack_a |-> d.s_input_a_ack, ack_b |-> d.s_input_b_ack, stb |-> d.s_output_z_stb,
        valid |-> d.fdiv_valid_o, a |-> d.a, b |-> d.b, z |-> d.z,
        out |-> d.s_output_z, age |-> d.age]

\* The divider implements the unit the core's model is built from: for every
\* pair of captured words it ends in time with the IEEE 754 quotient, rounded to
\* nearest even, subnormal results and overflow included, whatever its client
\* does meanwhile: every step that changes a register is a step of the unit.
ImplementsUnit == Unit!Init /\ [][d' # d => Unit!Next]_d

\* The restoring division: after every subtraction the bits of the dividend
\* taken so far are the quotient times the divisor plus a remainder below it.
DivisionInvariant ==
  d.state \in {"divide_1", "divide_3"} =>
    LET taken == IF d.state = "divide_3" THEN Loops ELSE d.count
    IN  /\ (d.a_m * Pow2[F + 4]) \div Pow2[DivBits - taken]
             = d.quotient * d.divisor + d.remainder
        /\ d.remainder < d.divisor

--------------------------------------------------------------------------------
(* The divider under two clients. One keeps its enable and its operands,   *)
(* as the ID stage does with a stalled instruction, and the clock runs.    *)
(* The other drops its enable, changes its operands and resets as it       *)
(* likes, with a few words: what an interrupted division leaves in the     *)
(* registers must not reach a later one.                                   *)

CONSTANTS
  Divisors,    \* the divisors that the first client takes
  MaxEvents    \* bound: the requests and resets of the second client

ASSUME ClientAssumption == Divisors \subseteq Float /\ MaxEvents \in Nat

\* An infinity, a subnormal and a normal number: each takes another path and
\* another number of cycles.
FewFloats == {Infinity(1),
              [s |-> 0, e |-> 0, f |-> 1],
              [s |-> 1, e |-> Bias, f |-> 1]}

VARIABLES
  holds,   \* the client keeps its request
  x, y,    \* the operands it then presents
  events   \* the requests taken and the resets so far, else

Quiet == Init /\ events = 0 /\ holds = FALSE /\ x = Zero(0) /\ y = Zero(0)

ClientInit ==
  \/ Init /\ events = 0 /\ holds = TRUE /\ x \in Float /\ y \in Divisors
  \/ Quiet

Hold ==
  /\ holds
  /\ Step(TRUE, x, y)
  /\ UNCHANGED <<holds, x, y, events>>

Request(en, p) ==
  /\ GetA(en, p)
  /\ events' = IF d'.state = "get_b" THEN events + 1 ELSE events
  /\ events' <= MaxEvents

Change ==
  /\ ~holds
  /\ \/ \E en \in BOOLEAN, p \in FewFloats : Request(en, p)
     \/ /\ (\E q \in FewFloats : GetB(q)) \/ Compute \/ PutZ
        /\ UNCHANGED events
     \/ /\ events < MaxEvents /\ events' = events + 1
        /\ \E p \in {TakenA(en, v) : en \in BOOLEAN, v \in FewFloats},
              q \in {TakenB(v) : v \in FewFloats} : ResetWith(p, q)
  /\ UNCHANGED <<holds, x, y>>

\* A result that a patient client is shown is the rounded quotient of its own
\* operands.
EveryResultIsRounded ==
  holds /\ d.fdiv_valid_o => d.s_output_z = Quotient(x, y)

\* "if b is zero return NaN" (ibex_float_divider.sv:104, inside the case of an
\* infinite a): the quotient of an infinity and a zero is not a number. IEEE 754,
\* and Quotient, have an infinity.
InfinityByZeroIsNaN ==
  holds /\ d.fdiv_valid_o /\ IsInf(x) /\ IsZero(y) => d.s_output_z = DefaultNaN

\* A client that keeps its request is answered, again and again: no operands
\* send the normalisation or the division loop round for ever.
AnswersForEver == [](holds => <>d.fdiv_valid_o)
================================================================================
