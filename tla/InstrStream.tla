------------------------------ MODULE InstrStream ------------------------------
(***************************************************************************)
(* What the fetch stage owes to the ID stage: from the address last set,   *)
(* one instruction after the other, each whole, none left out and none     *)
(* twice, and no instruction after a redirection that was fetched before   *)
(* it.                                                                     *)
(***************************************************************************)
EXTENDS ProgramImage

CONSTANT None

VARIABLES
  image,    \* the memory
  pc,       \* pc_if: the address of the instruction to be handed over next
  id,       \* the instruction in the ID stage, or None
  asleep,   \* the core waits for an interrupt
  turn      \* flips with every instruction handed over, redirection and reset

vars == <<image, pc, id, asleep, turn>>

Init ==
  /\ image \in Images /\ pc \in Halves
  /\ id = None /\ asleep = FALSE /\ turn = 0

HandOver ==
  /\ ~asleep
  /\ id' = Instruction(image, pc) /\ pc' = Ahead(pc, Length(image, pc))
  /\ turn' = 1 - turn /\ UNCHANGED <<image, asleep>>

\* The instruction in the ID stage leaves, and none follows yet.
Leave == id' = None /\ UNCHANGED <<image, pc, asleep, turn>>

\* A jump, a taken branch or a trap.
Redirect ==
  /\ ~asleep
  /\ pc' \in Halves /\ id' \in {id, None}
  /\ turn' = 1 - turn /\ UNCHANGED <<image, asleep>>

Sleep ==
  /\ asleep' = ~asleep /\ id' = None
  /\ UNCHANGED <<image, pc, turn>>

Reset ==
  /\ id' = None /\ asleep' = FALSE /\ turn' = 1 - turn
  /\ UNCHANGED <<image, pc>>

Next == HandOver \/ Leave \/ Redirect \/ Sleep \/ Reset

\* A core that stays awake gets an instruction or is redirected, for ever, unless
\* it is reset again and again.
Spec     == Init /\ [][Next]_vars
FairSpec == Spec /\ WF_vars(~asleep /\ (HandOver \/ Redirect \/ Reset))
================================================================================
