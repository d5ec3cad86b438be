------------------------------ MODULE MCUartLink -------------------------------
(***************************************************************************)
(* UartLink in three configurations that differ in the length of the word, *)
(* the stop bits and the parity, each with words that begin with a one and *)
(* with a zero, with and without changes of level between their bits.      *)
(***************************************************************************)
EXTENDS UartLink

MCConfigs ==
  {[data |-> 5, stop |-> 1, check |-> "none"],
   [data |-> 5, stop |-> 2, check |-> "odd"],
   [data |-> 8, stop |-> 1, check |-> "even"]}

Alternating(n) == [i \in 1 .. n |-> i % 2]
MCWords(c)     == {Alternating(c.data), Bits(c.data, 0)}

\* What rx_data and state_out hold before the first word is received is
\* read by nobody: one value for it.
MCInit == Init /\ rx.rx_data = Bits(configs.data, 0) /\ ~rx.state_out
MCSpec == MCInit /\ [][Next]_vars /\ WF_vars(Clocks)
================================================================================
