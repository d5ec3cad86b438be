-------------------------------- MODULE UartRx ---------------------------------
(***************************************************************************)
(* rx: the receiver of the UART, one edge of its sampling clock (16 times  *)
(* the bit clock) at a time. It looks for a start bit in windows of eight  *)
(* samples, waits for the end of the start bit, and decides each bit by    *)
(* six samples around its middle.                                          *)
(***************************************************************************)
EXTENDS UartFrame

VARIABLES
  configs,   \* the configuration
  rx         \* the registers of the receiver

RxStates == {"IDLE", "START", "RECV_DATA", "CHECK", "FINISH"}

\* data_buffer and rx_data are kept to their configs.data low bits, num_of_one modulo
\* 2. parity is written and never read in time: see ParityBit.
RxType ==
  [state : RxStates, is_start : BOOLEAN, recv : BOOLEAN, done : BOOLEAN,
   check_done : BOOLEAN, count_start : 0 .. 8, count_start_valid : 0 .. 8,
   count_empty : 0 .. 16, sample_points_sum : 0 .. 6, count_sample_points : 0 .. 15,
   count_bits : 0 .. configs.data, data_buffer : Data(configs.data),
   num_of_one : Bit, parity : Bit,
   rx_data : Data(configs.data), check_error : BOOLEAN, state_out : BOOLEAN]

ResetState ==
  [state |-> "IDLE", is_start |-> FALSE, recv |-> FALSE, done |-> FALSE,
   check_done |-> FALSE, count_start |-> 0, count_start_valid |-> 0, count_empty |-> 0,
   sample_points_sum |-> 0, count_sample_points |-> 0, count_bits |-> 0,
   data_buffer |-> Bits(configs.data, 0), num_of_one |-> 0, parity |-> 0,
   rx_data |-> Bits(configs.data, 0),
   check_error |-> FALSE, state_out |-> FALSE]

\* rx_data and state_out have no reset.
Init == \E d \in Data(configs.data), s \in BOOLEAN :
          rx = [ResetState EXCEPT !.rx_data = d, !.state_out = s]

--------------------------------------------------------------------------------
(* One edge of the sampling clock, by state; line is uart_rx.              *)

\* The state register moves whether or not the receiver is enabled.
NextState ==
  CASE rx.state = "IDLE"  -> IF rx.is_start THEN "START" ELSE "IDLE"
    [] rx.state = "START" -> IF rx.recv THEN "RECV_DATA" ELSE "START"
    [] rx.state = "RECV_DATA" -> IF rx.count_bits # configs.data THEN "RECV_DATA"
                                 ELSE IF configs.check = "none" THEN "FINISH" ELSE "CHECK"
    [] rx.state = "CHECK"  -> IF rx.check_done THEN "FINISH" ELSE "CHECK"
    [] rx.state = "FINISH" -> "IDLE"

\* A window of the search for the start bit is over.
WindowEnds == rx.count_start = 8

Search(line) ==
  /\ rx.state = "IDLE" /\ ~WindowEnds
  /\ rx' = [rx EXCEPT !.state = NextState,
                      !.count_start = @ + 1,
                      !.count_start_valid = @ + 1 - line]

\* All samples low: a start bit. Some low: it may have begun in this window, and
\* the next one decides.
Judge ==
  LET low == rx.count_start_valid
  IN  /\ rx.state = "IDLE" /\ WindowEnds
      /\ rx' = [rx EXCEPT !.state = NextState,
                          !.is_start = low = 8,
                          !.count_empty = IF low = 8 THEN @ + 8 ELSE low,
                          !.count_start = 0, !.count_start_valid = 0]

\* Broken: the samples of the window that found the start bit are not deducted.
FlushLong ==
  /\ rx.state = "START"
  /\ rx' = [rx EXCEPT !.state = NextState,
                      !.recv = @ \/ rx.count_empty >= 13 + 8, !.state_out = TRUE,
                      !.count_empty = IF @ < 13 + 8 THEN @ + 1 ELSE 0]

\* The rest of the start bit: count_empty low samples are accounted for.
Flush ==
  /\ rx.state = "START"
  /\ rx' = [rx EXCEPT !.state = NextState,
                      !.recv = @ \/ rx.count_empty >= 13, !.state_out = TRUE,
                      !.count_empty = IF @ < 13 THEN @ + 1 ELSE 0]

\* Broken: seven samples, which can not be counted in a majority of six.
InMiddleSeven == rx.count_sample_points \in 5 .. 11

InMiddle == rx.count_sample_points \in 6 .. 11

Sample(line) ==
  /\ rx.state \in {"RECV_DATA", "CHECK"} /\ rx.count_sample_points # 15
  /\ rx' = [rx EXCEPT !.state = NextState,
                      !.sample_points_sum = IF InMiddle THEN @ + line ELSE @,
                      !.count_sample_points = @ + 1]

\* The majority of the samples; three of six leave the bit as it was.
Majority(old) == IF rx.sample_points_sum > 3 THEN 1
                 ELSE IF rx.sample_points_sum < 3 THEN 0 ELSE old

DataBit ==
  LET i == rx.count_bits + 1
  IN  /\ rx.state = "RECV_DATA" /\ rx.count_sample_points = 15
      /\ rx' = [rx EXCEPT !.state = NextState,
                          !.data_buffer[i] = Majority(@),
                          !.num_of_one = IF rx.sample_points_sum > 3 THEN 1 - @ ELSE @,
                          !.count_bits = @ + 1,
                          !.count_sample_points = 0, !.sample_points_sum = 0]

\* check_error is computed from the register parity, which gets the received bit
\* at this same edge.
ParityBit ==
  LET differ == rx.num_of_one # rx.parity
  IN  /\ rx.state = "CHECK" /\ rx.count_sample_points = 15
      /\ rx' = [rx EXCEPT !.state = NextState,
                          !.parity = Majority(@), !.check_done = TRUE,
                          !.check_error = IF configs.check = "odd" THEN differ ELSE ~differ,
                          !.count_sample_points = 0, !.sample_points_sum = 0]

\* The word is handed over; everything but count_empty is cleared.
Finish ==
  /\ rx.state = "FINISH"
  /\ rx' = [ResetState EXCEPT !.done = TRUE, !.rx_data = rx.data_buffer,
                              !.count_empty = rx.count_empty,
                              !.check_error = rx.check_error]

\* Without the enable, or with a word waiting, only the state register moves.
Hold == rx' = [rx EXCEPT !.state = NextState]

Step(en, line) ==
  IF en /\ ~rx.done
    THEN Search(line) \/ Judge \/ Flush \/ Sample(line) \/ DataBit \/ ParityBit \/ Finish
    ELSE Hold

\* The bus clock, much faster than the sampling clock, clears done as soon as the
\* enable is low.
Disabled == [rx EXCEPT !.done = FALSE]

Reset == rx' = [ResetState EXCEPT !.rx_data = rx.rx_data, !.state_out = rx.state_out]
================================================================================
