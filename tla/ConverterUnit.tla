----------------------------- MODULE ConverterUnit -----------------------------
(***************************************************************************)
(* What the core sees of ibex_int2float: one operand, a number of working  *)
(* cycles (convert_0 ... pack, one state "work" here), and a valid that is *)
(* raised in put_z and lowered only in the get_a that follows.             *)
(***************************************************************************)
EXTENDS Integers

CONSTANTS
  Words,        \* the operands
  Values,       \* the results
  PowerUp,      \* what an unreset result register may hold after power-up
  WorkCycles,   \* the numbers of cycles that convert_0 ... pack may take
  Cvt(_)        \* the result the working states compute

VARIABLE u      \* the registers of the unit

UnitStates == {"get_a", "work", "put_z"}

UnitType ==
  [st : UnitStates, ack_a : BOOLEAN, stb : BOOLEAN, valid : BOOLEAN,
   a : Words, z : Values, out : Values, age : Nat]

Init ==
  \E x \in Words, r, o \in PowerUp :
    u = [st |-> "get_a", ack_a |-> FALSE, stb |-> FALSE, valid |-> FALSE,
         a |-> x, z |-> r, out |-> o, age |-> 0]

\* One clock edge, by state; en and x are convert_en_i and input_a_i.
GetA(en, x) ==
  /\ u.st = "get_a"
  /\ IF u.ack_a /\ en
       THEN u' = [u EXCEPT !.valid = FALSE, !.ack_a = FALSE, !.a = x, !.st = "work"]
       ELSE u' = [u EXCEPT !.valid = FALSE, !.ack_a = TRUE]

Work ==
  /\ u.st = "work"
  /\ \E n \in WorkCycles : n > u.age + 1
  /\ u' = [u EXCEPT !.age = @ + 1]

Finish ==
  /\ u.st = "work"
  /\ u.age + 1 \in WorkCycles
  /\ u' = [u EXCEPT !.age = 0, !.z = Cvt(u.a), !.st = "put_z"]

PutZ ==
  /\ u.st = "put_z"
  /\ IF u.stb
       THEN u' = [u EXCEPT !.out = u.z, !.valid = TRUE, !.stb = FALSE, !.st = "get_a"]
       ELSE u' = [u EXCEPT !.out = u.z, !.valid = TRUE, !.stb = TRUE]

Step(en, x) == GetA(en, x) \/ Work \/ Finish \/ PutZ

TakenA(en, x) == IF u.st = "get_a" /\ u.ack_a /\ en THEN x ELSE u.a

ResetWith(newA) ==
  \E r \in IF u.st = "work" THEN {u.z, Cvt(u.a)} ELSE {u.z} :
    u' = [u EXCEPT !.st = "get_a", !.ack_a = FALSE, !.stb = FALSE,
                   !.valid = FALSE, !.age = 0, !.a = newA, !.z = r,
                   !.out = IF u.st = "put_z" THEN u.z ELSE @]

Reset(en, x) == ResetWith(TakenA(en, x))

\* What a may hold after a reset.
Takeable == {u.a} \cup (IF u.st = "get_a" /\ u.ack_a THEN Words ELSE {})

Next ==
  \/ Work \/ Finish \/ PutZ
  \/ u.st = "get_a" /\ \E en \in BOOLEAN, x \in Words : GetA(en, x)
  \/ \E p \in Takeable : ResetWith(p)

Spec == Init /\ [][Next]_u

(***************************************************************************)
(* The unit r serves a client with operand x: w says that the client is    *)
(* waiting, p that it is present. The unit works only for it and holds     *)
(* only what derives from x. Its valid outlives the client by one cycle,   *)
(* in which no client may be present.                                      *)
(***************************************************************************)
Serves(r, w, p, x) ==
  /\ r.st # "get_a" => w /\ ~r.ack_a
  /\ r.stb => r.st = "put_z" /\ r.valid
  /\ r.valid => r.stb \/ (r.st = "get_a" /\ ~r.ack_a /\ ~p)
  /\ r.st = "work" => r.a = x
  /\ r.st = "put_z" => r.z = Cvt(x)
  /\ r.stb => r.out = Cvt(x)
================================================================================
