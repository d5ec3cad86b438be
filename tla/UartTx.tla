-------------------------------- MODULE UartTx ---------------------------------
(***************************************************************************)
(* tx: the transmitter of the UART, one edge of its bit clock at a time.   *)
(* Start bit, data bits (least significant first), parity bit if there is  *)
(* one, stop bits; then done stays up until the enable has been seen low.  *)
(***************************************************************************)
EXTENDS UartFrame

VARIABLES
  configs,   \* the configuration, which does not change while the UART is in use
  tx         \* the registers of the transmitter

TxStates == {"IDLE", "START", "DATA", "CHECK", "STOP", "FINISH"}

\* count_bit is the index of the next bit, from 0. num_of_one is kept modulo 2,
\* the only part of it that is used.
TxType ==
  [state : TxStates, count_bit : 0 .. configs.data, is_idle : BOOLEAN, done : BOOLEAN,
   send : BOOLEAN, num_of_one : Bit, uart_tx : Bit,
   serial_data : [1 .. 1 + configs.data + configs.stop -> Bit]]

\* The bits that serial_data holds between two frames; after a reset, zeros.
Serial(data) == <<0>> \o data \o Bits(configs.stop, 1)
NoSerial     == Bits(1 + configs.data + configs.stop, 0)

\* send has no reset. It is unknown at power-up, and an unknown condition counts
\* as false until the first enable makes it true.
Init ==
  tx = [state |-> "IDLE", count_bit |-> 0, is_idle |-> TRUE, done |-> FALSE,
        send |-> FALSE, serial_data |-> NoSerial, num_of_one |-> 0, uart_tx |-> 1]

--------------------------------------------------------------------------------
(* The three registers that follow their inputs in every state.            *)

\* Broken: the data follow the register of the bus while a frame is sent.
LoadAlways(data) == Serial(data)

Load(data) == IF tx.is_idle THEN Serial(data) ELSE tx.serial_data

\* send and done: an enable seen while idle asks for a frame; once the frame is
\* done and the enable is gone, both fall.
Rearmed(en) == tx.done /\ ~(en /\ tx.is_idle)
SendNext(en) == (en /\ tx.is_idle) \/ (tx.send /\ ~Rearmed(en))

Follow(en, data) ==
  [tx EXCEPT !.send = SendNext(en), !.done = tx.done /\ ~Rearmed(en),
             !.serial_data = Load(data)]

Active == tx.send /\ ~tx.done

--------------------------------------------------------------------------------
(* One edge of the bit clock, by state; en and data are tx_trans_en and    *)
(* tx_data. Outside of IDLE, a frame that is not active would lose bits:   *)
(* it does not happen.                                                     *)

Idle(en, data) ==
  /\ tx.state = "IDLE"
  /\ tx' = [Follow(en, data) EXCEPT !.state = IF Active THEN "START" ELSE "IDLE",
                                    !.uart_tx = IF Active THEN 1 ELSE @]

Start(en, data) ==
  /\ tx.state = "START" /\ Active
  /\ tx' = [Follow(en, data) EXCEPT !.state = "DATA", !.is_idle = FALSE,
                                    !.uart_tx = tx.serial_data[1]]

DataBit(en, data) ==
  LET bit  == tx.serial_data[tx.count_bit + 2]
      last == tx.count_bit = configs.data - 1
  IN  /\ tx.state = "DATA" /\ Active
      /\ tx' = [Follow(en, data) EXCEPT
                  !.state = IF ~last THEN "DATA"
                            ELSE IF configs.check = "none" THEN "STOP" ELSE "CHECK",
                  !.uart_tx = bit, !.num_of_one = (@ + bit) % 2,
                  !.count_bit = IF last /\ configs.check = "none" THEN 0 ELSE @ + 1]

ParityBit(en, data) ==
  /\ tx.state = "CHECK" /\ Active
  /\ tx' = [Follow(en, data) EXCEPT
              !.state = "STOP", !.count_bit = 0,
              !.uart_tx = IF configs.check = "odd" THEN 1 - tx.num_of_one ELSE tx.num_of_one]

StopBit(en, data) ==
  /\ tx.state = "STOP" /\ Active
  /\ tx' = [Follow(en, data) EXCEPT
              !.state = IF tx.count_bit = configs.stop - 1 THEN "FINISH" ELSE "STOP",
              !.uart_tx = tx.serial_data[configs.data + tx.count_bit + 2],
              !.count_bit = @ + 1]

Finish(en, data) ==
  /\ tx.state = "FINISH" /\ Active
  /\ tx' = [Follow(en, data) EXCEPT !.state = "IDLE", !.count_bit = 0, !.is_idle = TRUE,
                                    !.num_of_one = 0, !.uart_tx = 1, !.done = TRUE]

Step(en, data) ==
  \/ Idle(en, data) \/ Start(en, data) \/ DataBit(en, data)
  \/ ParityBit(en, data) \/ StopBit(en, data) \/ Finish(en, data)

\* The asynchronous reset. The block of send and done has no reset branch: its
\* assignments are made as at a clock edge, and done falls in any case.
Reset(en) ==
  tx' = [tx EXCEPT !.state = "IDLE", !.count_bit = 0, !.is_idle = TRUE, !.done = FALSE,
                   !.send = SendNext(en), !.serial_data = NoSerial,
                   !.num_of_one = 0, !.uart_tx = 1]

--------------------------------------------------------------------------------

\* The bit now on the line: 0 is the start bit, 1 .. configs.data the data bits, then
\* parity and stop bits; -1 between two frames.
OnLine ==
  CASE tx.state \in {"IDLE", "START"} -> -1
    [] tx.state = "DATA"  -> tx.count_bit
    [] tx.state = "CHECK" -> configs.data
    [] tx.state = "STOP"  -> IF tx.count_bit > 0 THEN configs.data + 2
                             ELSE IF configs.check = "none" THEN configs.data ELSE configs.data + 1
    [] tx.state = "FINISH" -> configs.data + 2
================================================================================
