-------------------------------- MODULE MCLsuBus -------------------------------
(***************************************************************************)
(* LsuBus for a bounded number of accesses to a memory of three words in   *)
(* which every byte is different, and a device at the fourth and last one. *)
(***************************************************************************)
EXTENDS LsuBus

CONSTANT MaxAccesses

VARIABLE count   \* the accesses begun so far

MCMem == [w \in 0 .. 2 |-> [i \in Lane |-> 4 * w + i]]

MCDevice == {[i \in Lane |-> 12 - i], [i \in Lane |-> 2]}

L(size, word, off, sext, float) ==
  [we |-> FALSE, size |-> size, word |-> word, off |-> off, sext |-> sext,
   float |-> float, wdata |-> [i \in Lane |-> 0]]
S(size, word, off) ==
  [we |-> TRUE, size |-> size, word |-> word, off |-> off, sext |-> FALSE,
   float |-> off % 2 = 1, wdata |-> [i \in Lane |-> 15 - i]]

\* Every size and offset, loaded and stored; word 1, whose bytes are of both
\* signs, is read with both extensions. Word 3, the device, is read after the end
\* of the memory, before its start, and alone.
MCAccesses ==
  {L(size, 1, off, TRUE, FALSE) : size \in {1, 2, 4}, off \in Lane}
    \cup {L(2, 1, off, FALSE, FALSE) : off \in {2, 3}}
    \cup {L(4, 2, 3, FALSE, TRUE), L(4, 0, 0, FALSE, TRUE), L(4, 3, 1, FALSE, FALSE)}
    \cup {L(4, 3, 0, FALSE, FALSE), S(4, 2, 1), S(2, 3, 3)}
    \cup {S(size, 1, off) : size \in {1, 2, 4}, off \in Lane}

BoundedInit == Init /\ count = 0
BoundedNext ==
  /\ Next
  /\ count' = IF acc' # NoAccess /\ first' THEN count + 1 ELSE count
  /\ count' <= MaxAccesses

BoundedSpec ==
  /\ BoundedInit /\ [][BoundedNext]_<<vars, count>>
  /\ WF_<<vars, count>>(BoundedNext)
  /\ SF_<<vars, count>>(BoundedNext /\ Grants)
  /\ SF_<<vars, count>>(BoundedNext /\ Answers)
================================================================================
