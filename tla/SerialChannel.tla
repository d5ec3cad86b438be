----------------------------- MODULE SerialChannel -----------------------------
(***************************************************************************)
(* What a UART line promises the software at its two ends: every word that *)
(* is sent is delivered once, unchanged, before the next one is sent, and  *)
(* nothing is delivered that was not sent.                                 *)
(***************************************************************************)
EXTENDS Integers

CONSTANTS
  Messages,   \* the words that can be sent
  None        \* no word is on the way

VARIABLES
  sent,    \* the word on the way, or None
  out,     \* the word delivered last
  tag      \* the number of words delivered, modulo 2

vars == <<sent, out, tag>>

Init == sent = None /\ out \in Messages /\ tag = 0

Send ==
  /\ sent = None
  /\ sent' \in Messages
  /\ UNCHANGED <<out, tag>>

Deliver ==
  /\ sent # None
  /\ out' = sent /\ sent' = None /\ tag' = 1 - tag

Next == Send \/ Deliver

Spec == Init /\ [][Next]_vars /\ WF_vars(Deliver)
================================================================================
