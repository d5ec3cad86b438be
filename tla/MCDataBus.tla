------------------------------- MODULE MCDataBus -------------------------------
(***************************************************************************)
(* DataBus on an address space of six words: none, SRAM, SRAM, a UART, a   *)
(* GPIO register, a gap between the peripherals.                           *)
(***************************************************************************)
EXTENDS DataBus

MCSramWords == {1, 2}
MCApbWords  == {3, 4, 5}
MCDeviceOf  == [w \in MCApbWords |-> CASE w = 3 -> "uart" [] w = 4 -> "gpio" [] w = 5 -> "gap"]

\* Every byte of the memory is another, of both signs.
MCSram    == [r \in 0 .. 1 |-> [i \in Lane |-> 4 * r + i]]
MCPreload == [r \in {0} |-> MCSram[0]]
MCDevice  == {[i \in Lane |-> 9]}

L(size, word, off) ==
  [we |-> FALSE, size |-> size, word |-> word, off |-> off, sext |-> TRUE,
   float |-> size = 4 /\ off = 0, wdata |-> [i \in Lane |-> 0]]
S(size, word, off) ==
  [we |-> TRUE, size |-> size, word |-> word, off |-> off, sext |-> FALSE,
   float |-> FALSE, wdata |-> [i \in Lane |-> 15 - i]]

\* What the path carries out as it is asked to: loads of the SRAM, whole, split,
\* and across its end into the UART, stores of whole words to it; whole, narrow
\* and split accesses to the peripherals, into the gap and out of it; a word that
\* no slave has.
MCAccesses ==
  {L(4, 1, 0), L(4, 1, 3), L(2, 2, 3), S(4, 1, 0), S(4, 2, 0)}
    \cup {L(4, 4, 2), S(4, 3, 0), S(4, 3, 1), S(2, 4, 3)}
    \cup {S(4, 0, 0)}

\* A store of one byte.
MCNarrow == {L(4, 1, 0), S(1, 1, 1)}
================================================================================
