------------------------------ MODULE DividerUnit ------------------------------
(***************************************************************************)
(* What the core sees of one ibex_float_divider: a unit that captures its  *)
(* two operands in two different clock cycles, works for a number of       *)
(* cycles and then raises valid for exactly one cycle.                     *)
(*                                                                         *)
(* The thirteen working states of the source (unpack ... pack) are one     *)
(* state here, "work", and the arithmetic is the constant operator Div:    *)
(* FloatDivider has both in full and implements this module.               *)
(***************************************************************************)
EXTENDS Integers

CONSTANTS
  Values,       \* the contents of a 32-bit register
  PowerUp,      \* what an unreset register may hold after power-up
  WorkCycles,   \* the numbers of cycles that unpack ... pack may take
  Div(_, _)     \* the result the working states compute

VARIABLE u      \* the registers of the unit

UnitStates == {"get_a", "get_b", "work", "put_z"}

(***************************************************************************)
(* age counts the cycles spent in "work": it stands for the inner state    *)
(* (which of the thirteen states, the loop counter).                       *)
(***************************************************************************)
UnitType ==
  [st : UnitStates, ack_a : BOOLEAN, ack_b : BOOLEAN, stb : BOOLEAN,
   valid : BOOLEAN, a : Values, b : Values, z : Values, out : Values,
   age : Nat]

\* The reset assigns only the control registers: the data registers power up
\* with an unknown content.
Init ==
  \E x, y, r, o \in PowerUp :
    u = [st |-> "get_a", ack_a |-> FALSE, ack_b |-> FALSE, stb |-> FALSE,
         valid |-> FALSE, a |-> x, b |-> y, z |-> r, out |-> o, age |-> 0]

\* Broken: get_a forgets to lower valid.
GetAKeepsValid(en, x) ==
  /\ u.st = "get_a"
  /\ IF u.ack_a /\ en
       THEN u' = [u EXCEPT !.ack_a = FALSE, !.a = x, !.st = "get_b"]
       ELSE u' = [u EXCEPT !.ack_a = TRUE]

(***************************************************************************)
(* One clock edge, by state. en, x and y are the inputs sampled at the     *)
(* edge: fdiv_en_i, input_a_i and input_b_i.                               *)
(***************************************************************************)
GetA(en, x) ==
  /\ u.st = "get_a"
  /\ IF u.ack_a /\ en
       THEN u' = [u EXCEPT !.valid = FALSE, !.ack_a = FALSE, !.a = x, !.st = "get_b"]
       ELSE u' = [u EXCEPT !.valid = FALSE, !.ack_a = TRUE]

GetB(y) ==
  /\ u.st = "get_b"
  /\ IF u.ack_b
       THEN u' = [u EXCEPT !.ack_b = FALSE, !.b = y, !.st = "work"]
       ELSE u' = [u EXCEPT !.ack_b = TRUE]

Work ==
  /\ u.st = "work"
  /\ \E n \in WorkCycles : n > u.age + 1
  /\ u' = [u EXCEPT !.age = @ + 1]

Finish ==
  /\ u.st = "work"
  /\ u.age + 1 \in WorkCycles
  /\ u' = [u EXCEPT !.age = 0, !.z = Div(u.a, u.b), !.st = "put_z"]

PutZ ==
  /\ u.st = "put_z"
  /\ IF u.stb
       THEN u' = [u EXCEPT !.out = u.z, !.stb = FALSE, !.valid = TRUE, !.st = "get_a"]
       ELSE u' = [u EXCEPT !.out = u.z, !.stb = TRUE]

Step(en, x, y) == GetA(en, x) \/ GetB(y) \/ Work \/ Finish \/ PutZ

\* The asynchronous reset runs the same block: what it does not reset keeps the
\* assignment the state's branch makes. (Of the working states, those that end
\* the work assign z.)
TakenA(en, x) == IF u.st = "get_a" /\ u.ack_a /\ en THEN x ELSE u.a
TakenB(y)     == IF u.st = "get_b" /\ u.ack_b THEN y ELSE u.b

ResetWith(newA, newB) ==
  \E r \in IF u.st = "work" THEN {u.z, Div(u.a, u.b)} ELSE {u.z} :
    u' = [u EXCEPT !.st = "get_a", !.ack_a = FALSE, !.ack_b = FALSE,
                   !.stb = FALSE, !.valid = FALSE, !.age = 0,
                   !.a = newA, !.b = newB, !.z = r,
                   !.out = IF u.st = "put_z" THEN u.z ELSE @]

Reset(en, x, y) == ResetWith(TakenA(en, x), TakenB(y))

\* What a and b may hold after a reset.
TakeableA == {u.a} \cup (IF u.st = "get_a" /\ u.ack_a THEN Values ELSE {})
TakeableB == {u.b} \cup (IF u.st = "get_b" /\ u.ack_b THEN Values ELSE {})

Next ==
  \/ Work \/ Finish \/ PutZ
  \/ u.st = "get_a" /\ \E en \in BOOLEAN, x \in Values : GetA(en, x)
  \/ u.st = "get_b" /\ \E y \in Values : GetB(y)
  \/ \E p \in TakeableA, q \in TakeableB : ResetWith(p, q)

Spec == Init /\ [][Next]_u

(***************************************************************************)
(* The unit r serves a client with operands x and y, where w says that the *)
(* client is waiting: the unit works only for it, and whatever it holds    *)
(* derives from its operands.                                              *)
(***************************************************************************)
Serves(r, w, x, y) ==
  /\ r.st # "get_a" => w /\ ~r.ack_a
  /\ r.valid => r.st = "get_a" /\ ~r.ack_a /\ w
  /\ r.stb => r.st = "put_z"
  /\ r.st \in {"get_b", "work"} => r.a = x
  /\ r.st = "work" => r.b = y
  /\ r.st = "put_z" => r.z = Div(x, y)
  /\ r.stb \/ r.valid => r.out = Div(x, y)
================================================================================
