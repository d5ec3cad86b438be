------------------------------- MODULE UartFrame -------------------------------
(***************************************************************************)
(* What transmitter and receiver of the UART have in common: the registers *)
(* that configure a frame, and the words that it carries.                  *)
(***************************************************************************)
EXTENDS Integers, Sequences

\* The configurations the registers DATA, STOP and CHECK can express. (CHECK = 3
\* is none of the values the source names.)
Configs == [data : 5 .. 8, stop : {1, 2}, check : {"none", "odd", "even"}]

Bit     == {0, 1}
Data(n) == [1 .. n -> Bit]
Bits(n, b) == [i \in 1 .. n |-> b]
================================================================================
