------------------------------- MODULE Int2Float -------------------------------
(***************************************************************************)
(* ibex_int2float, state by state, for any width: W is the width of the    *)
(* integer (32 in the source), F and EB describe the float. The word is    *)
(* split into a mantissa of F + 1 = 24 bits and a rest of RestBits = 8.    *)
(***************************************************************************)
EXTENDS FloatFormat

CONSTANTS
  W,             \* bits of the integer
  PowerUpWords,  \* the words the operand register may hold after power-up
  PowerUp        \* the floats an unreset register may hold after power-up

RestBits == W - 1 - F

\* The widths the source's constants fit, assumed where the unit is used.
ConverterAssumption ==
  /\ W \in Nat /\ RestBits >= 2 /\ W - 1 + Bias < EMax
  /\ PowerUpWords \subseteq 0 .. Pow2[W] - 1 /\ PowerUp \subseteq Float

VARIABLE c       \* the registers of the unit

Working == {"convert_0", "convert_1", "convert_2", "round", "pack"}

(***************************************************************************)
(* The numbers of cycles from convert_0 to pack: two for zero, else five   *)
(* and one per position that the word is shifted; {2} \cup 5 .. 36 for 32  *)
(* bits.                                                                   *)
(***************************************************************************)
MaxLatency == W + 4
Latencies  == {2} \cup 5 .. MaxLatency

IntWords  == 0 .. Pow2[W] - 1
Mantissas == 0 .. Pow2[F + 1] - 1
Bit       == {0, 1}

\* z_e is kept unsigned, as in the source. age is a history variable: the cycles
\* spent so far in the Working states, up to one more than there can be.
RegType ==
  [state : Working \cup {"get_a", "put_z"},
   s_input_a_ack : BOOLEAN, s_output_z_stb : BOOLEAN, convert_valid_o : BOOLEAN,
   a : IntWords, z : Float, s_output_z : Float, value : IntWords,
   z_m : Mantissas, z_r : 0 .. Pow2[RestBits] - 1, z_e : 0 .. Pow2[EB] - 1, z_s : Bit,
   guard : Bit, round_bit : Bit, sticky : Bit, age : 0 .. MaxLatency]

TypeOK == c \in RegType

Init ==
  \E x \in PowerUpWords, r, o \in PowerUp :
    c = [state |-> "get_a", s_input_a_ack |-> FALSE, s_output_z_stb |-> FALSE,
         convert_valid_o |-> FALSE, a |-> x, z |-> r, s_output_z |-> o, value |-> 0,
         z_m |-> 0, z_r |-> 0, z_e |-> 0, z_s |-> 0,
         guard |-> 0, round_bit |-> 0, sticky |-> 0, age |-> 0]

BitOf(w, i) == (w \div Pow2[i]) % 2

Aged == IF c.age < MaxLatency THEN c.age + 1 ELSE c.age

--------------------------------------------------------------------------------
(* One clock edge, by state; en and x are convert_en_i and input_a_i.      *)

\* Broken: valid is lowered only when the next operand is taken.
GetAKeepsValid(en, x) ==
  /\ c.state = "get_a"
  /\ IF c.s_input_a_ack /\ en
       THEN c' = [c EXCEPT !.convert_valid_o = FALSE, !.s_input_a_ack = FALSE, !.a = x,
                           !.state = "convert_0"]
       ELSE c' = [c EXCEPT !.s_input_a_ack = TRUE]

GetA(en, x) ==
  /\ c.state = "get_a"
  /\ IF c.s_input_a_ack /\ en
       THEN c' = [c EXCEPT !.convert_valid_o = FALSE, !.s_input_a_ack = FALSE, !.a = x,
                           !.state = "convert_0"]
       ELSE c' = [c EXCEPT !.convert_valid_o = FALSE, !.s_input_a_ack = TRUE]

Convert0 ==
  /\ c.state = "convert_0"
  /\ IF c.a = 0
       THEN c' = [c EXCEPT !.z_s = 0, !.z_m = 0, !.z_e = -Bias % Pow2[EB],
                           !.state = "pack", !.age = Aged]
       ELSE c' = [c EXCEPT !.value = IF BitOf(c.a, W - 1) = 1 THEN Pow2[W] - c.a ELSE c.a,
                           !.z_s = BitOf(c.a, W - 1),
                           !.state = "convert_1", !.age = Aged]

Convert1 ==
  /\ c.state = "convert_1"
  /\ c' = [c EXCEPT !.z_e = W - 1, !.z_m = c.value \div Pow2[RestBits],
                    !.z_r = c.value % Pow2[RestBits],
                    !.state = "convert_2", !.age = Aged]

Convert2 ==
  /\ c.state = "convert_2"
  /\ IF BitOf(c.z_m, F) = 0
       THEN c' = [c EXCEPT !.z_e = (@ - 1) % Pow2[EB],
                           !.z_m = (2 * @ + BitOf(c.z_r, RestBits - 1)) % Pow2[F + 1],
                           !.z_r = (2 * @) % Pow2[RestBits], !.age = Aged]
       ELSE c' = [c EXCEPT !.guard = BitOf(c.z_r, RestBits - 1),
                           !.round_bit = BitOf(c.z_r, RestBits - 2),
                           !.sticky = IF c.z_r % Pow2[RestBits - 2] # 0 THEN 1 ELSE 0,
                           !.state = "round", !.age = Aged]

RoundsUp == c.guard = 1 /\ (c.round_bit = 1 \/ c.sticky = 1 \/ c.z_m % 2 = 1)

RoundZ ==
  /\ c.state = "round"
  /\ c' = [c EXCEPT !.z_m = IF RoundsUp THEN (@ + 1) % Pow2[F + 1] ELSE @,
                    !.z_e = IF RoundsUp /\ c.z_m = Pow2[F + 1] - 1 THEN (@ + 1) % Pow2[EB] ELSE @,
                    !.state = "pack", !.age = Aged]

PackedZ == [s |-> c.z_s, e |-> (c.z_e + Bias) % Pow2[EB], f |-> c.z_m % Pow2[F]]

Pack ==
  /\ c.state = "pack"
  /\ c' = [c EXCEPT !.z = PackedZ, !.state = "put_z", !.age = 0]

\* Valid rises in the first cycle of put_z and stays for the second.
PutZ ==
  /\ c.state = "put_z"
  /\ IF c.s_output_z_stb
       THEN c' = [c EXCEPT !.s_output_z = c.z, !.convert_valid_o = TRUE,
                           !.s_output_z_stb = FALSE, !.state = "get_a"]
       ELSE c' = [c EXCEPT !.s_output_z = c.z, !.convert_valid_o = TRUE,
                           !.s_output_z_stb = TRUE]

Compute == Convert0 \/ Convert1 \/ Convert2 \/ RoundZ \/ Pack

\* The falling edge of rst_i runs the block once more: the reset overrides the
\* control registers, the data registers keep what the branch of the state
\* assigns. (The working registers are written again before their next use, and
\* are left as they are here.)
TakenA(en, x) == IF c.state = "get_a" /\ c.s_input_a_ack /\ en THEN x ELSE c.a

ResetWith(newA) ==
  c' = [c EXCEPT !.state = "get_a", !.s_input_a_ack = FALSE, !.s_output_z_stb = FALSE,
                 !.convert_valid_o = FALSE, !.age = 0, !.a = newA,
                 !.z = IF c.state = "pack" THEN PackedZ ELSE @,
                 !.s_output_z = IF c.state = "put_z" THEN c.z ELSE @]

--------------------------------------------------------------------------------
(* Properties                                                              *)

SignedOf(w) == IF w < Pow2[W - 1] THEN w ELSE w - Pow2[W]

Unit == INSTANCE ConverterUnit WITH
  Words <- IntWords, Values <- Float, WorkCycles <- Latencies,
  Cvt <- LAMBDA w : OfInteger(SignedOf(w)),
  u <- [st |-> IF c.state \in Working THEN "work" ELSE c.state,
        ack_a |-> c.s_input_a_ack, stb |-> c.s_output_z_stb,
        valid |-> c.convert_valid_o, a |-> c.a, z |-> c.z,
        out |-> c.s_output_z, age |-> c.age]

\* The converter implements the unit the core's model is built from: every word,
\* the most negative one included, becomes in time the float nearest to it, ties
\* to even, whatever the client does meanwhile: every step that changes a register
\* is a step of the unit.
ImplementsUnit == Unit!Init /\ [][c' # c => Unit!Next]_c

\* Shifting loses nothing: mantissa, rest and exponent together still are the
\* magnitude of the word.
ShiftInvariant ==
  c.state = "convert_2" =>
    (c.z_m * Pow2[RestBits] + c.z_r) * Pow2[c.z_e] = c.value * Pow2[W - 1]

--------------------------------------------------------------------------------
(* The converter under two clients. One keeps its enable and its operand,  *)
(* as the ID stage does with a stalled instruction; its operand is any     *)
(* word, and the clock runs. The other drops its enable, changes its       *)
(* operand and resets as it likes, with a few words.                       *)

\* Zero, one (shifted furthest), the most negative word (not shifted), and a word
\* that rounds up to the next power of two.
FewWords == {0, 1, Pow2[W - 1], Pow2[F + 2] - 1}

VARIABLES
  holds,   \* the client keeps its request
  x        \* the operand it then presents

Quiet      == Init /\ holds = FALSE /\ x = 0
ClientInit == (Init /\ holds = TRUE /\ x \in IntWords) \/ Quiet

Hold ==
  /\ holds
  /\ GetA(TRUE, x) \/ Compute \/ PutZ
  /\ UNCHANGED <<holds, x>>

Change ==
  /\ ~holds
  /\ \/ \E en \in BOOLEAN, y \in FewWords : GetA(en, y)
     \/ Compute \/ PutZ
     \/ \E p \in {TakenA(en, y) : en \in BOOLEAN, y \in FewWords} : ResetWith(p)
  /\ UNCHANGED <<holds, x>>

\* A result that a patient client is shown is its own operand, rounded.
EveryResultIsRounded ==
  holds /\ c.convert_valid_o => c.s_output_z = OfInteger(SignedOf(x))

\* A client that keeps its request is answered, again and again: no word sends
\* the normalisation round for ever.
AnswersForEver == [](holds => <>c.convert_valid_o)
================================================================================
