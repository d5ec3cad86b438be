------------------------------- MODULE UartLink --------------------------------
(***************************************************************************)
(* A UART's transmitter wired to the receiver of another one, with the     *)
(* software at both ends. Both divide clocks of the same frequency, so     *)
(* that a bit lasts 16 samples, but the receiver's divisor is rounded down *)
(* (cfg_baud/16/2 against cfg_baud/2): now and then a bit lasts 17.        *)
(***************************************************************************)
EXTENDS UartFrame

CONSTANTS
  LinkConfigs,  \* the configurations the two ends may agree on
  Words(_),     \* the words that the software sends in a configuration
  MaxSlips,     \* the bits of one frame that may last 17 samples
  MinGap,       \* the edges of the bit clock that the enable must stay low
  None

ASSUME LinkAssumption ==
  /\ LinkConfigs \subseteq Configs
  /\ \A c \in LinkConfigs : Words(c) \subseteq Data(c.data)
  /\ MaxSlips \in Nat /\ MinGap \in Nat \ {0}
  /\ \A c \in LinkConfigs : None \notin Words(c)

VARIABLES
  configs,      \* the configuration registers, the same at both ends
  tx, rx,       \* the transmitter and the receiver
  sample,       \* the samples since the last edge of the bit clock
  slips,        \* the bits of this frame that lasted 17 samples
  tx_en, data,  \* the sender's ENABLE[1] and DATA
  rx_en,        \* the receiver's ENABLE[0]
  gap,          \* the edges of the bit clock since the enable fell
  sent,         \* history: the word on the way
  tag           \* history: the words received, modulo 2

vars == <<configs, tx, rx, sample, slips, tx_en, data, rx_en, gap, sent, tag>>

Tx == INSTANCE UartTx
Rx == INSTANCE UartRx

TypeOK ==
  /\ configs \in LinkConfigs
  /\ tx \in Tx!TxType /\ rx \in Rx!RxType
  /\ sample \in 0 .. 16 /\ slips \in 0 .. MaxSlips
  /\ tx_en \in BOOLEAN /\ rx_en \in BOOLEAN
  /\ data \in Data(configs.data) /\ sent \in Words(configs) \cup {None}
  /\ gap \in 0 .. MinGap /\ tag \in {0, 1}

Init ==
  /\ configs \in LinkConfigs
  /\ Tx!Init /\ Rx!Init
  /\ sample = 0 /\ slips = 0
  /\ tx_en = FALSE /\ rx_en = FALSE /\ data = Bits(configs.data, 0)
  /\ gap = MinGap /\ sent = None /\ tag = 0

--------------------------------------------------------------------------------
(* The software. "The transfering interval of two data should at least 2   *)
(* uart_baud_clk cycle" (uart_single_test/APB3_BFM.sv:89) is its part of   *)
(* the protocol, and so is to have the receiver enabled before the frame.  *)

\* Data and enable are two registers: a word is written first, any number of
\* edges before the enable that sends what the data register then holds. While
\* the transmitter has still to take that word it is left alone; the next one may
\* be written as soon as STATE[1] shows that the frame is on its way.
WriteData ==
  /\ sent = None \/ ~tx.is_idle
  /\ data' \in Words(configs)
  /\ UNCHANGED <<configs, tx, rx, sample, slips, tx_en, rx_en, gap, sent, tag>>

SendOn ==
  /\ ~tx_en /\ tx.is_idle /\ gap = MinGap
  /\ sent = None /\ rx_en /\ ~rx.done
  /\ data \in Words(configs)
  /\ tx_en' = TRUE /\ sent' = data
  /\ UNCHANGED <<configs, tx, rx, sample, slips, data, rx_en, gap, tag>>

\* The enable may be withdrawn, too, when the frame is on its way.
SendOff ==
  /\ tx_en /\ (~tx.is_idle \/ tx.done)
  /\ tx_en' = FALSE /\ gap' = 0
  /\ UNCHANGED <<configs, tx, rx, sample, slips, data, rx_en, sent, tag>>

\* Reading the word withdraws the receiver's enable, which the bus clock sees at
\* once.
Read ==
  /\ rx_en /\ rx.done
  /\ rx_en' = FALSE /\ rx' = Rx!Disabled
  /\ UNCHANGED <<configs, tx, sample, slips, tx_en, data, gap, sent, tag>>

ReceiveOn ==
  /\ ~rx_en
  /\ rx_en' = TRUE
  /\ UNCHANGED <<configs, tx, rx, sample, slips, tx_en, data, gap, sent, tag>>

--------------------------------------------------------------------------------
(* The clocks.                                                             *)

\* The receiver samples the line, before the transmitter's edge if there is one.
Receive ==
  /\ Rx!Step(rx_en, tx.uart_tx)
  /\ IF rx'.done /\ ~rx.done THEN tag' = 1 - tag /\ sent' = None ELSE UNCHANGED <<tag, sent>>

SampleTick ==
  /\ \/ sample < 15 /\ slips' = slips
     \/ sample = 15 /\ tx.state # "IDLE" /\ slips < MaxSlips /\ slips' = slips + 1
  /\ sample' = sample + 1
  /\ Receive
  /\ UNCHANGED <<configs, tx, tx_en, data, rx_en, gap>>

BitTick ==
  /\ sample >= 15 /\ sample' = 0
  /\ Receive
  /\ Tx!Step(tx_en, data)
  /\ slips' = IF tx.state = "IDLE" THEN 0 ELSE slips
  /\ gap' = IF ~tx_en /\ tx.is_idle /\ gap < MinGap THEN gap + 1 ELSE gap
  /\ UNCHANGED <<configs, tx_en, data, rx_en>>

\* The reset of both ends, between two frames: send has no reset branch, and one
\* inside a frame starts another frame.
Reset ==
  /\ Tx!Reset(tx_en) /\ Rx!Reset
  /\ tx_en' = FALSE /\ rx_en' = FALSE /\ data' = Bits(configs.data, 0)
  /\ gap' = MinGap /\ sent' = None /\ slips' = 0
  /\ UNCHANGED <<configs, sample, tag>>

QuietReset == ~tx.send /\ sent = None /\ Reset

Software == WriteData \/ SendOn \/ SendOff \/ Read \/ ReceiveOn
Clocks   == SampleTick \/ BitTick
Next     == Software \/ Clocks \/ QuietReset

\* The clocks run.
Spec == Init /\ [][Next]_vars /\ WF_vars(Clocks)

--------------------------------------------------------------------------------
(* Properties                                                              *)

\* The six samples a data bit is decided by are all taken while that bit is on
\* the line, wherever in the receiver's search the start bit began and whichever
\* bit is stretched.
SamplesItsOwnBit ==
  rx.state = "RECV_DATA" /\ rx.count_bits < configs.data /\ Rx!InMiddle
    => Tx!OnLine = rx.count_bits + 1

\* Every word that is sent is received once and unchanged, even if the software
\* has the next one in the data register before the frame is over.
Messages == UNION {Data(c.data) : c \in LinkConfigs}

Channel == INSTANCE SerialChannel WITH out <- rx.rx_data
ImplementsChannel == Channel!Spec

\* With odd parity the transmitter makes "the number of ones odd" (the comment at
\* tx.v:183): the receiver of an undisturbed frame reports no parity error.
IntactFrameHasNoError == rx.done => ~rx.check_error
================================================================================
