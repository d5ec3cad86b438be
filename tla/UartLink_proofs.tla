---------------------------- MODULE UartLink_proofs ----------------------------
(***************************************************************************)
(* Proofs about UartLink, for any configurations, words and interval, and  *)
(* up to seven stretched bits in a frame: every sample that decides a bit  *)
(* is taken while that bit is on the line, and every word sent is received *)
(* once and unchanged.                                                     *)
(*                                                                         *)
(* The inductive invariant says for each phase of the receiver how many    *)
(* samples were taken since the line fell, and compares that with the bit  *)
(* that the transmitter has on the line.                                   *)
(***************************************************************************)
EXTENDS UartLink, SequenceTheorems, TLAPS

\* The last bit of the word on the line, its parity bit if it has one; and the
\* bit that is on the line now: 0 is the start bit, the stop bits follow the last.
LastBit == IF configs.check = "none" THEN configs.data ELSE configs.data + 1
Place ==
  IF tx.state \in {"IDLE", "START"} THEN -1
  ELSE IF tx.state = "DATA" THEN tx.count_bit
  ELSE IF tx.state = "CHECK" THEN configs.data
  ELSE IF tx.state = "STOP" THEN LastBit + tx.count_bit
  ELSE LastBit + configs.stop

--------------------------------------------------------------------------------
(* The transmitter and the software that uses it.                          *)

Counted ==
  /\ tx.state \in {"IDLE", "START"} => tx.count_bit = 0
  /\ tx.state = "DATA"   => tx.count_bit < configs.data
  /\ tx.state = "CHECK"  => tx.count_bit = configs.data /\ configs.check # "none"
  /\ tx.state = "STOP"   => tx.count_bit < configs.stop
  /\ tx.state = "FINISH" => tx.count_bit = configs.stop

\* What is being sent has a start bit and stop bits, and between them the word on
\* the way.
Framed ==
  Tx!Active =>
    /\ tx.serial_data[1] = 0
    /\ \A i \in 1 .. configs.stop : tx.serial_data[1 + configs.data + i] = 1
    /\ sent # None => \A k \in 1 .. configs.data : tx.serial_data[1 + k] = sent[k]

Level ==
  /\ Place = -1 \/ Place > LastBit => tx.uart_tx = 1
  /\ Place = 0 => tx.uart_tx = 0
  /\ Place \in 1 .. configs.data => tx.uart_tx = tx.serial_data[1 + Place]

TxInv ==
  /\ tx.is_idle <=> tx.state \in {"IDLE", "START"}
  /\ tx.state # "IDLE" => Tx!Active
  /\ tx.done => tx.send
  /\ Counted /\ Framed /\ Level

\* The word stays in the data register until the transmitter has it; the enable
\* is seen low before it rises again; a word is delivered while its last bit or a
\* stop bit is on the line.
Handshake ==
  /\ sent # None => ~tx.done
  /\ sent # None /\ tx.is_idle => tx_en /\ data = sent
  /\ Tx!Active /\ tx.is_idle => sent # None
  /\ sent = None /\ tx_en => tx.send
  /\ sent = None /\ tx.state # "IDLE" => Place >= LastBit
  /\ tx_en => gap = MinGap
  /\ ~tx_en /\ gap > 0 => ~tx.send

--------------------------------------------------------------------------------
(* The receiver.                                                           *)

\* Nothing of a word is there yet; the receiver looks for a start bit.
Empty ==
  /\ ~rx.check_done /\ rx.count_bits = 0
  /\ rx.count_sample_points = 0 /\ rx.sample_points_sum = 0
Hunting ==
  /\ rx.state = "IDLE" /\ ~rx.is_start /\ ~rx.recv /\ Empty
  /\ rx.count_start_valid <= rx.count_start

\* Few lows were seen in this window: those of the last bit of the frame before,
\* if the receiver was early.
FewLows ==
  /\ rx.count_start_valid <= 5
  /\ Place = LastBit => sample >= 12 + rx.count_start_valid

Resting ==
  /\ Hunting /\ FewLows
  /\ rx.done => rx_en /\ rx.count_start = 0 /\ rx.count_start_valid = 0

\* The samples before the receiver has forgotten them, and those before the line
\* falls, at least.
Stale == IF rx.count_start_valid > 0 THEN 18 - rx.count_start
         ELSE IF rx.count_empty > 0 THEN 9 - rx.count_start ELSE 0
Ahead == (IF sample >= 15 THEN 1 ELSE 16 - sample)
         + (IF tx.state = "START" THEN 0 ELSE IF tx.send THEN 16 ELSE 32)

Waiting == Hunting /\ rx.count_start_valid <= 5 /\ Stale <= Ahead

\* The samples since the line fell: sixteen a bit, and one more for each bit of
\* this frame that was stretched, all of them or none since then. (The last sample of
\* a stretched bit is the seventeenth.)
Fewest == 16 * Place + sample
Most   == Fewest + slips - (IF sample = 16 THEN 1 ELSE 0)
Taken(lo, hi) == Fewest <= hi /\ lo <= Most

\* The window in which the line fell, the one after it, and a start bit found.
Falling  == Hunting /\ rx.count_empty = 0 /\ Taken(rx.count_start_valid, rx.count_start_valid)
Deciding ==
  LET t == rx.count_empty + 1 + rx.count_start
  IN  Hunting /\ rx.count_start_valid = rx.count_start /\ rx.count_empty <= 7 /\ Taken(t, t)
Found ==
  /\ rx.state = "IDLE" /\ rx.is_start /\ ~rx.recv /\ Empty
  /\ rx.count_start = 0 /\ rx.count_start_valid = 0
  /\ rx.count_empty \in 8 .. 15 /\ Taken(rx.count_empty + 1, rx.count_empty + 2)

\* The rest of the start bit.
Flushing ==
  /\ rx.state = "START" /\ ~rx.recv /\ Empty
  /\ rx.count_empty \in 8 .. 15 /\ Taken(rx.count_empty + 2, rx.count_empty + 3)
Flushed == rx.state = "START" /\ rx.recv /\ Empty /\ rx.count_empty = 0 /\ Taken(16, 19)

\* The samples in the middle of a bit are all that bit.
MiddleSum(b) ==
  IF rx.count_sample_points <= 6 THEN 0
  ELSE IF rx.count_sample_points <= 12 THEN (rx.count_sample_points - 6) * b ELSE 6 * b

Receiving ==
  LET t == 17 + 16 * rx.count_bits + rx.count_sample_points
  IN  /\ rx.state = "RECV_DATA" /\ ~rx.check_done
      /\ IF rx.count_bits < configs.data
           THEN rx.sample_points_sum = MiddleSum(sent[rx.count_bits + 1])
           ELSE rx.count_sample_points = 0 /\ rx.sample_points_sum = 0
      /\ Taken(t, t + 3)
Checking ==
  LET t == 17 + 16 * LastBit
  IN  /\ rx.state = "CHECK" /\ configs.check # "none" /\ rx.count_bits = configs.data
      /\ IF rx.check_done
           THEN rx.count_sample_points = 0 /\ rx.sample_points_sum = 0 /\ Taken(t, t + 3)
           ELSE /\ rx.count_sample_points > 0
                /\ rx.sample_points_sum <= MiddleSum(1)
                /\ Taken(t - 16 + rx.count_sample_points, t - 13 + rx.count_sample_points)
Finishing ==
  LET t == 18 + 16 * LastBit
  IN  rx.state = "FINISH" /\ rx.count_bits = configs.data /\ Taken(t, t + 3)

HasBits == \A i \in 1 .. rx.count_bits : rx.data_buffer[i] = sent[i]

\* What the receiver does, by what is on the line.
Phase ==
  \/ Falling \/ Deciding \/ Found \/ Flushing \/ Flushed
  \/ HasBits /\ (Receiving \/ Checking \/ Finishing)

RxInv ==
  /\ ~rx_en => ~rx.done
  /\ sent = None => Resting
  /\ sent # None => rx_en /\ ~rx.done
  /\ sent # None /\ Place = -1 => Waiting
  /\ sent # None /\ Place >= 0 => Phase

LinkInv == TypeOK /\ TxInv /\ Handshake /\ RxInv

--------------------------------------------------------------------------------
(* The transmitter's edges.                                                *)

USE DEF Bit, Tx!Bit, Rx!Bit, Data, Tx!Data, Rx!Data

\* What the registers of the configuration may hold.
LEMMA Config ==
  ASSUME configs \in LinkConfigs
  PROVE  /\ configs.data \in 5 .. 8 /\ configs.stop \in 1 .. 2
         /\ configs.check \in {"none", "odd", "even"}
         /\ LastBit \in configs.data .. configs.data + 1
  BY LinkAssumption DEF Configs, LastBit

\* A frame: start bit, word, stop bits.
LEMMA SerialBits ==
  ASSUME NEW w \in Data(configs.data), configs \in LinkConfigs
  PROVE  /\ Tx!Serial(w) \in [1 .. 1 + configs.data + configs.stop -> Bit]
         /\ Tx!Serial(w)[1] = 0
         /\ \A k \in 1 .. configs.data : Tx!Serial(w)[1 + k] = w[k]
         /\ \A i \in 1 .. configs.stop : Tx!Serial(w)[1 + configs.data + i] = 1
  <1> DEFINE d == configs.data
             m == configs.stop
             ones == Bits(m, 1)
             s == <<0>> \o w
             t == s \o ones
  <1>1. d \in Nat /\ m \in Nat
    BY Config
  <1>2. w \in [1 .. d -> Bit] /\ ones \in [1 .. m -> Bit] /\ \A i \in 1 .. m : ones[i] = 1
    BY DEF Data, Bits, Bit
  <1> HIDE DEF d, m, ones, t
  <1>3. w \in Seq(Bit) /\ Len(w) = d
    BY <1>1, <1>2, SeqDef, LenProperties
  <1>4. ones \in Seq(Bit) /\ Len(ones) = m
    BY <1>1, <1>2, SeqDef, LenProperties
  <1>5. <<0>> \in Seq(Bit) /\ Len(<<0>>) = 1 /\ <<0>>[1] = 0
    BY DEF Bit
  <1>6. /\ s \in Seq(Bit) /\ Len(s) = 1 + d
        /\ \A i \in 1 .. 1 + d : s[i] = IF i <= 1 THEN <<0>>[i] ELSE w[i - 1]
    BY <1>3, <1>4, <1>5, ConcatProperties
  <1> HIDE DEF s
  <1>7. /\ t \in Seq(Bit) /\ Len(t) = 1 + d + m
        /\ \A i \in 1 .. 1 + d + m : t[i] = IF i <= 1 + d THEN s[i] ELSE ones[i - (1 + d)]
    <2>1. /\ t \in Seq(Bit) /\ Len(t) = Len(s) + Len(ones)
          /\ \A i \in 1 .. Len(s) + Len(ones) :
               t[i] = IF i <= Len(s) THEN s[i] ELSE ones[i - Len(s)]
      BY <1>4, <1>6, ConcatProperties DEF t
    <2>2. QED
      BY <1>1, <1>4, <1>6, <2>1
  <1>8. Tx!Serial(w) = t
    BY Zenon DEF Tx!Serial, Tx!Bits, Bits, t, s, ones, m
  <1>9. t \in [1 .. 1 + d + m -> Bit]
    BY <1>7, LenProperties
  <1>10. t[1] = 0
    BY <1>1, <1>5, <1>6, <1>7
  <1>11. \A k \in 1 .. d : t[1 + k] = w[k]
    BY <1>1, <1>6, <1>7
  <1>12. \A i \in 1 .. m : t[1 + d + i] = 1
    BY <1>1, <1>2, <1>7
  <1>13. QED
    BY <1>8, <1>9, <1>10, <1>11, <1>12 DEF d, m

\* The registers that follow their inputs at every edge.
LEMMA Following ==
  ASSUME configs \in LinkConfigs, tx \in Tx!TxType,
         NEW en \in BOOLEAN, NEW w \in Data(configs.data), NEW f, f = Tx!Follow(en, w)
  PROVE  /\ f \in Tx!TxType
         /\ f.state = tx.state /\ f.count_bit = tx.count_bit /\ f.num_of_one = tx.num_of_one
         /\ f.uart_tx = tx.uart_tx /\ (f.is_idle <=> tx.is_idle)
         /\ f.send <=> Tx!SendNext(en)
         /\ f.done <=> tx.done /\ ~Tx!Rearmed(en)
         /\ f.serial_data = Tx!Load(w)
  <1> DEFINE n == Tx!SendNext(en)
             e == tx.done /\ ~Tx!Rearmed(en)
             l == Tx!Load(w)
  <1>1. n \in BOOLEAN /\ e \in BOOLEAN
    BY DEF Tx!TxType, Tx!SendNext, Tx!Rearmed
  <1>2. l \in [1 .. 1 + configs.data + configs.stop -> Bit]
    <2>1. Tx!Serial(w) \in [1 .. 1 + configs.data + configs.stop -> Bit]
      BY SerialBits
    <2>2. tx.serial_data \in [1 .. 1 + configs.data + configs.stop -> Bit]
      BY Config DEF Tx!TxType
    <2>3. QED
      BY <2>1, <2>2 DEF Tx!Load
  <1>3. f = [tx EXCEPT !.send = n, !.done = e, !.serial_data = l]
    BY DEF Tx!Follow
  <1> HIDE DEF n, e, l
  <1>4. f \in Tx!TxType
    BY <1>1, <1>2, <1>3, Config DEF Tx!TxType
  <1>5. /\ f.state = tx.state /\ f.count_bit = tx.count_bit /\ f.num_of_one = tx.num_of_one
        /\ f.uart_tx = tx.uart_tx /\ f.is_idle = tx.is_idle
        /\ f.send = n /\ f.done = e /\ f.serial_data = l
    BY <1>1, <1>2, <1>3 DEF Tx!TxType
  <1>6. QED
    BY <1>4, <1>5 DEF n, e, l

\* What an edge of the bit clock makes of the registers.
LEMMA TxEdge ==
  ASSUME configs \in LinkConfigs, tx \in Tx!TxType, TxInv,
         NEW en \in BOOLEAN, NEW w \in Data(configs.data), Tx!Step(en, w)
  PROVE  /\ tx' \in Tx!TxType
         /\ tx'.serial_data = Tx!Load(w)
         /\ tx'.send <=> Tx!SendNext(en)
         /\ tx'.done <=> tx.state = "FINISH" \/ (tx.done /\ ~Tx!Rearmed(en))
         /\ tx'.is_idle <=> tx'.state \in {"IDLE", "START"}
         /\ tx.state = "IDLE" =>
              /\ tx'.state = IF Tx!Active THEN "START" ELSE "IDLE"
              /\ tx'.count_bit = 0 /\ tx'.uart_tx = 1
         /\ tx.state = "START" =>
              tx'.state = "DATA" /\ tx'.count_bit = 0 /\ tx'.uart_tx = tx.serial_data[1]
         /\ tx.state = "DATA" =>
              /\ tx'.uart_tx = tx.serial_data[tx.count_bit + 2]
              /\ IF tx.count_bit < configs.data - 1
                   THEN tx'.state = "DATA" /\ tx'.count_bit = tx.count_bit + 1
                 ELSE IF configs.check = "none" THEN tx'.state = "STOP" /\ tx'.count_bit = 0
                 ELSE tx'.state = "CHECK" /\ tx'.count_bit = configs.data
         /\ tx.state = "CHECK" => tx'.state = "STOP" /\ tx'.count_bit = 0
         /\ tx.state = "STOP" =>
              /\ tx'.uart_tx = tx.serial_data[configs.data + tx.count_bit + 2]
              /\ tx'.count_bit = tx.count_bit + 1
              /\ tx'.state = IF tx.count_bit = configs.stop - 1 THEN "FINISH" ELSE "STOP"
         /\ tx.state = "FINISH" => tx'.state = "IDLE" /\ tx'.count_bit = 0 /\ tx'.uart_tx = 1
  <1> DEFINE f == Tx!Follow(en, w)
  <1>1. /\ f \in Tx!TxType
        /\ f.state = tx.state /\ f.count_bit = tx.count_bit /\ f.num_of_one = tx.num_of_one
        /\ f.uart_tx = tx.uart_tx /\ (f.is_idle <=> tx.is_idle)
        /\ f.send <=> Tx!SendNext(en)
        /\ f.done <=> tx.done /\ ~Tx!Rearmed(en)
        /\ f.serial_data = Tx!Load(w)
    BY Following
  <1> HIDE DEF f
  <1>2. /\ configs.data \in 5 .. 8 /\ configs.stop \in 1 .. 2
        /\ configs.check \in {"none", "odd", "even"}
    BY Config
  <1>3. /\ tx.is_idle <=> tx.state \in {"IDLE", "START"}
        /\ Counted
        /\ tx.state # "IDLE" => tx.send /\ ~tx.done
        /\ tx.state \in {"IDLE", "START"} => tx.uart_tx = 1
    BY DEF TxInv, Tx!Active, Level, Place
  <1>4. CASE Tx!Idle(en, w)
    <2>1. /\ tx.state = "IDLE"
          /\ tx' = [f EXCEPT !.state = IF Tx!Active THEN "START" ELSE "IDLE",
                             !.uart_tx = IF Tx!Active THEN 1 ELSE @]
      BY <1>4 DEF Tx!Idle, f
    <2>2. QED
      BY <1>1, <1>2, <1>3, <2>1 DEF Tx!TxType, Tx!TxStates, Counted
  <1>5. CASE Tx!Start(en, w)
    <2>1. /\ tx.state = "START" /\ tx.serial_data[1] \in Bit
          /\ tx' = [f EXCEPT !.state = "DATA", !.is_idle = FALSE, !.uart_tx = tx.serial_data[1]]
      BY <1>2, <1>5 DEF Tx!Start, f, Tx!TxType
    <2>2. QED
      BY <1>1, <1>2, <1>3, <2>1 DEF Tx!TxType, Tx!TxStates, Counted
  <1>6. CASE Tx!DataBit(en, w)
    <2> DEFINE b == tx.serial_data[tx.count_bit + 2]
               last == tx.count_bit = configs.data - 1
               s == IF ~last THEN "DATA" ELSE IF configs.check = "none" THEN "STOP" ELSE "CHECK"
               c == IF last /\ configs.check = "none" THEN 0 ELSE tx.count_bit + 1
               o == (tx.num_of_one + b) % 2
    <2>1. tx.state = "DATA" /\ tx.count_bit \in 0 .. configs.data - 1
      BY <1>2, <1>3, <1>6 DEF Tx!DataBit, Counted, Tx!TxType
    <2>2. b \in Bit /\ s \in Tx!TxStates /\ c \in 0 .. configs.data /\ o \in Bit
      <3>1. b \in Bit
        BY <1>2, <2>1 DEF Tx!TxType
      <3>2. s \in Tx!TxStates
        BY DEF Tx!TxStates
      <3>3. c \in 0 .. configs.data
        BY <1>2, <2>1
      <3>4. tx.num_of_one \in Bit
        BY DEF Tx!TxType
      <3> HIDE DEF b
      <3>5. o \in Bit
        BY <3>1, <3>4
      <3>6. QED
        BY <3>1, <3>2, <3>3, <3>5
    <2>3. tx' = [f EXCEPT !.state = s, !.uart_tx = b, !.num_of_one = (@ + b) % 2,
                          !.count_bit = IF last /\ configs.check = "none" THEN 0 ELSE @ + 1]
      BY <1>6 DEF Tx!DataBit, f
    <2>4. tx' = [f EXCEPT !.state = s, !.uart_tx = b, !.num_of_one = o, !.count_bit = c]
      BY <1>1, <2>3 DEF Tx!TxType
    <2>5. s = "STOP" \/ s = "CHECK" \/ s = "DATA"
      OBVIOUS
    <2> HIDE DEF b, s, c, o
    <2>6. /\ tx' \in Tx!TxType
          /\ tx'.state = s /\ tx'.count_bit = c /\ tx'.uart_tx = b
          /\ tx'.is_idle = f.is_idle /\ tx'.done = f.done /\ tx'.send = f.send
          /\ tx'.serial_data = f.serial_data
      BY <1>1, <2>2, <2>4 DEF Tx!TxType
    <2>7. QED
      BY <1>1, <1>2, <1>3, <2>1, <2>5, <2>6 DEF b, s, c
  <1>7. CASE Tx!ParityBit(en, w)
    <2> DEFINE b == IF configs.check = "odd" THEN 1 - tx.num_of_one ELSE tx.num_of_one
    <2>1. tx.state = "CHECK" /\ b \in Bit
      BY <1>7 DEF Tx!ParityBit, Tx!TxType
    <2>2. tx' = [f EXCEPT !.state = "STOP", !.count_bit = 0, !.uart_tx = b]
      BY <1>7 DEF Tx!ParityBit, f
    <2> HIDE DEF b
    <2>3. "STOP" \in Tx!TxStates /\ 0 \in 0 .. configs.data
      BY <1>2 DEF Tx!TxStates
    <2>4. /\ tx' \in Tx!TxType
          /\ tx'.state = "STOP" /\ tx'.count_bit = 0
          /\ tx'.is_idle = f.is_idle /\ tx'.done = f.done /\ tx'.send = f.send
          /\ tx'.serial_data = f.serial_data
      BY <1>1, <2>1, <2>2, <2>3 DEF Tx!TxType
    <2>5. QED
      BY <1>1, <1>3, <2>1, <2>4
  <1>8. CASE Tx!StopBit(en, w)
    <2> DEFINE b == tx.serial_data[configs.data + tx.count_bit + 2]
               s == IF tx.count_bit = configs.stop - 1 THEN "FINISH" ELSE "STOP"
               c == tx.count_bit + 1
    <2>1. tx.state = "STOP" /\ tx.count_bit \in 0 .. configs.stop - 1
      BY <1>2, <1>3, <1>8 DEF Tx!StopBit, Counted, Tx!TxType
    <2>2. b \in Bit /\ s \in Tx!TxStates /\ c \in 0 .. configs.data
      BY <1>2, <2>1 DEF Tx!TxType, Tx!TxStates
    <2>3. tx' = [f EXCEPT !.state = s, !.uart_tx = b, !.count_bit = @ + 1]
      BY <1>8 DEF Tx!StopBit, f
    <2>4. tx' = [f EXCEPT !.state = s, !.uart_tx = b, !.count_bit = c]
      BY <1>1, <2>3 DEF Tx!TxType
    <2>5. s = "STOP" \/ s = "FINISH"
      OBVIOUS
    <2> HIDE DEF b, s, c
    <2>6. /\ tx' \in Tx!TxType
          /\ tx'.state = s /\ tx'.count_bit = c /\ tx'.uart_tx = b
          /\ tx'.is_idle = f.is_idle /\ tx'.done = f.done /\ tx'.send = f.send
          /\ tx'.serial_data = f.serial_data
      BY <1>1, <2>2, <2>4 DEF Tx!TxType
    <2>7. QED
      BY <1>1, <1>2, <1>3, <2>1, <2>5, <2>6 DEF b, s, c
  <1>9. CASE Tx!Finish(en, w)
    <2>1. /\ tx.state = "FINISH"
          /\ tx' = [f EXCEPT !.state = "IDLE", !.count_bit = 0, !.is_idle = TRUE,
                             !.num_of_one = 0, !.uart_tx = 1, !.done = TRUE]
      BY <1>9 DEF Tx!Finish, f
    <2>2. "IDLE" \in Tx!TxStates /\ 0 \in 0 .. configs.data /\ 0 \in Bit /\ 1 \in Bit
      BY <1>2 DEF Tx!TxStates
    <2>3. /\ tx' \in Tx!TxType
          /\ tx'.state = "IDLE" /\ tx'.count_bit = 0 /\ tx'.uart_tx = 1
          /\ tx'.is_idle = TRUE /\ tx'.done = TRUE /\ tx'.send = f.send
          /\ tx'.serial_data = f.serial_data
      BY <1>1, <2>1, <2>2 DEF Tx!TxType
    <2>4. QED
      BY <1>1, <2>1, <2>3
  <1>10. QED
    BY <1>4, <1>5, <1>6, <1>7, <1>8, <1>9 DEF Tx!Step

\* The bits on the line follow each other.
LEMMA PlaceMoves ==
  ASSUME configs \in LinkConfigs, configs' = configs, tx \in Tx!TxType, TxInv,
         NEW en \in BOOLEAN, NEW w \in Data(configs.data), Tx!Step(en, w)
  PROVE  /\ LastBit' = LastBit
         /\ Place \in -1 .. LastBit + configs.stop
         /\ Place = -1 <=> tx.state \in {"IDLE", "START"}
         /\ Place = LastBit + configs.stop <=> tx.state = "FINISH"
         /\ tx.state \in {"IDLE", "FINISH"} => Place' = -1
         /\ tx.state \notin {"IDLE", "FINISH"} => Place' = Place + 1
  <1>1. LastBit' = LastBit
    BY DEF LastBit
  <1>2. /\ configs.data \in 5 .. 8 /\ configs.stop \in 1 .. 2
        /\ LastBit \in configs.data .. configs.data + 1
    BY Config
  <1>3. tx.state \in Tx!TxStates /\ tx.count_bit \in 0 .. configs.data /\ Counted
    BY DEF Tx!TxType, TxInv
  <1>4. /\ tx.state \in {"IDLE", "START"} => Place = -1
        /\ tx.state = "DATA"   => Place = tx.count_bit /\ tx.count_bit \in 0 .. configs.data - 1
        /\ tx.state = "CHECK"  => Place = configs.data /\ LastBit = configs.data + 1
        /\ tx.state = "STOP"   => /\ Place = LastBit + tx.count_bit
                                 /\ tx.count_bit \in 0 .. configs.stop - 1
        /\ tx.state = "FINISH" => Place = LastBit + configs.stop
    <2>1. configs.check # "none" => LastBit = configs.data + 1
      BY DEF LastBit
    <2>2. QED
      BY <1>2, <1>3, <2>1 DEF Place, Counted
  <1>5. tx.state \in {"IDLE", "START", "DATA", "CHECK", "STOP", "FINISH"}
    BY <1>3 DEF Tx!TxStates
  <1>6. /\ Place \in -1 .. LastBit + configs.stop
        /\ Place = -1 <=> tx.state \in {"IDLE", "START"}
        /\ Place = LastBit + configs.stop <=> tx.state = "FINISH"
    <2>1. CASE tx.state \in {"IDLE", "START"}
      BY <1>2, <1>4, <2>1
    <2>2. CASE tx.state \in {"DATA", "CHECK"}
      <3>1. Place \in 0 .. configs.data
        BY <1>2, <1>4, <2>2
      <3>2. QED
        BY <1>2, <2>2, <3>1
    <2>3. CASE tx.state = "STOP"
      <3>1. Place = LastBit + tx.count_bit /\ tx.count_bit \in 0 .. configs.stop - 1
        BY <1>4, <2>3
      <3>2. QED
        BY <1>2, <2>3, <3>1
    <2>4. CASE tx.state = "FINISH"
      BY <1>2, <1>4, <2>4
    <2>5. QED
      BY <1>5, <2>1, <2>2, <2>3, <2>4
  <1>7. Place' = IF tx'.state \in {"IDLE", "START"} THEN -1
                 ELSE IF tx'.state = "DATA" THEN tx'.count_bit
                 ELSE IF tx'.state = "CHECK" THEN configs.data
                 ELSE IF tx'.state = "STOP" THEN LastBit + tx'.count_bit
                 ELSE LastBit + configs.stop
    BY <1>1 DEF Place
  <1>8. /\ tx.state \in {"IDLE", "FINISH"} => Place' = -1
        /\ tx.state \notin {"IDLE", "FINISH"} => Place' = Place + 1
    <2>1. CASE tx.state = "IDLE"
      <3>1. tx'.state \in {"IDLE", "START"}
        BY <2>1, TxEdge
      <3>2. QED
        BY <1>7, <2>1, <3>1
    <2>2. CASE tx.state = "START"
      BY <1>4, <1>7, <2>2, TxEdge
    <2>3. CASE tx.state = "DATA"
      <3>1. IF tx.count_bit < configs.data - 1
              THEN tx'.state = "DATA" /\ tx'.count_bit = tx.count_bit + 1
            ELSE IF configs.check = "none" THEN tx'.state = "STOP" /\ tx'.count_bit = 0
            ELSE tx'.state = "CHECK" /\ tx'.count_bit = configs.data
        BY <2>3, TxEdge
      <3>2. configs.check = "none" => LastBit = configs.data
        BY DEF LastBit
      <3>3. QED
        BY <1>2, <1>4, <1>7, <2>3, <3>1, <3>2
    <2>4. CASE tx.state = "CHECK"
      <3>1. tx'.state = "STOP" /\ tx'.count_bit = 0
        BY <2>4, TxEdge
      <3>2. QED
        BY <1>2, <1>4, <1>7, <2>4, <3>1
    <2>5. CASE tx.state = "STOP"
      <3>1. /\ tx'.count_bit = tx.count_bit + 1
            /\ tx'.state = IF tx.count_bit = configs.stop - 1 THEN "FINISH" ELSE "STOP"
        BY <2>5, TxEdge
      <3>2. QED
        BY <1>2, <1>4, <1>7, <2>5, <3>1
    <2>6. CASE tx.state = "FINISH"
      <3>1. tx'.state = "IDLE"
        BY <2>6, TxEdge
      <3>2. QED
        BY <1>7, <2>6, <3>1
    <2>7. QED
      BY <1>5, <2>1, <2>2, <2>3, <2>4, <2>5, <2>6
  <1>9. QED
    BY <1>1, <1>6, <1>8

\* The place of a stop bit in serial_data, counted from the last bit of the word.
LEMMA StopPosition == \A n, d \in Nat : d + n + 2 = 1 + d + (n + 1)
  OBVIOUS

\* An edge keeps what the frame is made of. A word may be delivered at that edge.
LEMMA EdgeKeeps ==
  ASSUME configs \in LinkConfigs, configs' = configs, tx \in Tx!TxType, TxInv,
         tx_en \in BOOLEAN, data \in Data(configs.data), Tx!Step(tx_en, data), Handshake,
         sent' \in {sent, None}
  PROVE  TxInv'
  <1>1. /\ configs.data \in 5 .. 8 /\ configs.stop \in 1 .. 2
        /\ LastBit \in configs.data .. configs.data + 1 /\ LastBit' = LastBit
    BY Config DEF LastBit
  <1>2. /\ tx.is_idle <=> tx.state \in {"IDLE", "START"}
        /\ tx.state # "IDLE" => tx.send /\ ~tx.done
        /\ tx.done => tx.send
        /\ tx.count_bit \in 0 .. configs.data /\ tx.state \in Tx!TxStates
        /\ tx.send \in BOOLEAN /\ tx.done \in BOOLEAN
    BY DEF TxInv, Tx!Active, Tx!TxType
  <1>3. /\ tx'.is_idle <=> tx'.state \in {"IDLE", "START"}
        /\ tx'.send <=> (tx_en /\ tx.is_idle) \/ (tx.send /\ ~Tx!Rearmed(tx_en))
        /\ tx'.done <=> tx.state = "FINISH" \/ (tx.done /\ ~Tx!Rearmed(tx_en))
        /\ tx'.serial_data = IF tx.is_idle THEN Tx!Serial(data) ELSE tx.serial_data
    BY TxEdge DEF Tx!SendNext, Tx!Load
  <1>4. Tx!Rearmed(tx_en) <=> tx.done /\ ~(tx_en /\ tx.is_idle)
    BY DEF Tx!Rearmed
  <1>5. tx'.state # "IDLE" => Tx!Active'
    <2>1. tx.state = "IDLE" /\ ~Tx!Active => tx'.state = "IDLE"
      BY TxEdge
    <2>2. tx.state = "FINISH" => tx'.state = "IDLE"
      BY TxEdge
    <2>3. QED
      BY <1>2, <1>3, <1>4, <2>1, <2>2 DEF Tx!Active
  <1>6. tx'.done => tx'.send
    BY <1>2, <1>3, <1>4
  <1>7. Counted'
    <2>1. configs.check \in {"none", "odd", "even"}
      BY Config
    <2>2. tx.state \in {"IDLE", "START", "DATA", "CHECK", "STOP", "FINISH"} /\ Counted
      BY <1>2 DEF Tx!TxStates, TxInv
    <2>3. CASE tx.state \in {"IDLE", "START", "CHECK", "FINISH"}
      <3>1. tx'.state \in {"IDLE", "START", "DATA", "STOP"} /\ tx'.count_bit = 0
        BY <2>3, TxEdge
      <3>2. QED
        BY <1>1, <3>1 DEF Counted
    <2>4. CASE tx.state = "DATA"
      <3>1. IF tx.count_bit < configs.data - 1
              THEN tx'.state = "DATA" /\ tx'.count_bit = tx.count_bit + 1
            ELSE IF configs.check = "none" THEN tx'.state = "STOP" /\ tx'.count_bit = 0
            ELSE tx'.state = "CHECK" /\ tx'.count_bit = configs.data
        BY <2>4, TxEdge
      <3>2. QED
        BY <1>1, <1>2, <2>1, <3>1 DEF Counted
    <2>5. CASE tx.state = "STOP"
      <3>1. /\ tx'.count_bit = tx.count_bit + 1
            /\ tx'.state = IF tx.count_bit = configs.stop - 1 THEN "FINISH" ELSE "STOP"
        BY <2>5, TxEdge
      <3>2. QED
        BY <1>1, <1>2, <2>2, <2>5, <3>1 DEF Counted
    <2>6. QED
      BY <2>2, <2>3, <2>4, <2>5
  <1>8. Framed'
    <2>1. CASE tx.is_idle
      <3>1. sent # None => data = sent
        BY <2>1 DEF Handshake
      <3>2. QED
        BY <1>3, <2>1, <3>1, SerialBits DEF Framed
    <2>2. CASE ~tx.is_idle
      <3>1. Tx!Active /\ tx'.serial_data = tx.serial_data
        BY <1>2, <1>3, <2>2 DEF Tx!Active
      <3>2. QED
        BY <3>1 DEF Framed, TxInv
    <2>3. QED
      BY <2>1, <2>2
  <1>9. Level'
    <2>1. /\ Place \in -1 .. LastBit + configs.stop
          /\ Place = -1 <=> tx.state \in {"IDLE", "START"}
          /\ tx.state \in {"IDLE", "FINISH"} => Place' = -1
          /\ tx.state \notin {"IDLE", "FINISH"} => Place' = Place + 1
      BY PlaceMoves
    <2>2. CASE tx.state \in {"IDLE", "FINISH"}
      BY <1>1, <2>1, <2>2, TxEdge DEF Level
    <2>3. CASE tx.state = "START"
      <3>1. Place' = 0 /\ tx'.uart_tx = tx.serial_data[1]
        BY <2>1, <2>3, TxEdge
      <3>2. tx.serial_data[1] = 0
        BY <1>2, <2>3 DEF TxInv, Framed, Tx!Active
      <3>3. QED
        BY <1>1, <3>1, <3>2 DEF Level
    <2>4. CASE tx.state = "DATA"
      <3>1. Place = tx.count_bit /\ tx.count_bit < configs.data /\ Place' = Place + 1
        BY <2>1, <2>4 DEF Place, TxInv, Counted
      <3>2. tx'.uart_tx = tx.serial_data[tx.count_bit + 2] /\ tx'.serial_data = tx.serial_data
        BY <1>2, <1>3, <2>4, TxEdge
      <3>3. Place' \in 1 .. configs.data /\ tx'.uart_tx = tx'.serial_data[1 + Place']
        BY <1>1, <1>2, <3>1, <3>2
      <3>4. QED
        BY <1>1, <3>3 DEF Level
    <2>5. CASE tx.state = "CHECK"
      <3>1. Place' = configs.data + 1 /\ LastBit = configs.data + 1
        BY <1>1, <2>1, <2>5 DEF Place, LastBit, TxInv, Counted
      <3>2. QED
        BY <1>1, <3>1 DEF Level
    <2>6. CASE tx.state = "STOP"
      <3>1. /\ Place = LastBit + tx.count_bit /\ tx.count_bit < configs.stop
            /\ Place' = Place + 1
        BY <2>1, <2>6 DEF Place, TxInv, Counted
      <3>2. tx'.uart_tx = tx.serial_data[configs.data + tx.count_bit + 2]
        BY <2>6, TxEdge
      <3>3. \A i \in 1 .. configs.stop : tx.serial_data[1 + configs.data + i] = 1
        BY <1>2, <2>6 DEF TxInv, Framed, Tx!Active
      <3>4. tx.count_bit + 1 \in 1 .. configs.stop
            /\ configs.data + tx.count_bit + 2 = 1 + configs.data + (tx.count_bit + 1)
        <4>1. tx.count_bit \in Nat /\ configs.stop \in Nat /\ configs.data \in Nat
          BY <1>1, <1>2
        <4>2. tx.count_bit + 1 \in 1 .. configs.stop
          BY <3>1, <4>1
        <4>3. configs.data + tx.count_bit + 2 = 1 + configs.data + (tx.count_bit + 1)
          BY <4>1, StopPosition, Zenon
        <4>4. QED
          BY <4>2, <4>3
      <3>5. tx'.uart_tx = 1
        BY <3>2, <3>3, <3>4
      <3>6. Place' > LastBit
        BY <1>1, <1>2, <3>1
      <3>7. QED
        BY <1>1, <3>5, <3>6 DEF Level
    <2>7. QED
      BY <1>2, <2>2, <2>3, <2>4, <2>5, <2>6 DEF Tx!TxStates
  <1>10. QED
    BY <1>3, <1>5, <1>6, <1>7, <1>8, <1>9 DEF TxInv

--------------------------------------------------------------------------------
(* The receiver's edges.                                                   *)

\* Where the state register goes.
LEMMA NextStates ==
  ASSUME configs \in LinkConfigs, rx \in Rx!RxType
  PROVE  /\ Rx!NextState \in Rx!RxStates
         /\ rx.state = "IDLE" => Rx!NextState = IF rx.is_start THEN "START" ELSE "IDLE"
         /\ rx.state = "START" => Rx!NextState = IF rx.recv THEN "RECV_DATA" ELSE "START"
         /\ rx.state = "RECV_DATA" =>
              Rx!NextState = IF rx.count_bits # configs.data THEN "RECV_DATA"
                             ELSE IF configs.check = "none" THEN "FINISH" ELSE "CHECK"
         /\ rx.state = "CHECK" => Rx!NextState = IF rx.check_done THEN "FINISH" ELSE "CHECK"
  <1>1. rx.state \in Rx!RxStates
    BY DEF Rx!RxType
  <1>2. QED
    BY <1>1 DEF Rx!NextState, Rx!RxStates

\* A sample of the search for the start bit.
LEMMA SearchEdge ==
  ASSUME configs \in LinkConfigs, rx \in Rx!RxType, NEW b \in Bit, Rx!Search(b),
         rx.count_start_valid <= rx.count_start
  PROVE  /\ rx' \in Rx!RxType
         /\ rx.state = "IDLE" /\ rx.count_start \in 0 .. 7
         /\ rx'.state = IF rx.is_start THEN "START" ELSE "IDLE"
         /\ rx'.count_start = rx.count_start + 1
         /\ rx'.count_start_valid = rx.count_start_valid + 1 - b
         /\ rx'.is_start = rx.is_start /\ rx'.recv = rx.recv /\ rx'.done = rx.done
         /\ rx'.check_done = rx.check_done /\ rx'.count_empty = rx.count_empty
         /\ rx'.sample_points_sum = rx.sample_points_sum
         /\ rx'.count_sample_points = rx.count_sample_points
         /\ rx'.count_bits = rx.count_bits /\ rx'.rx_data = rx.rx_data
  <1> DEFINE s == Rx!NextState
             c == rx.count_start + 1
             v == rx.count_start_valid + 1 - b
  <1>1. rx.state = "IDLE" /\ rx.count_start \in 0 .. 7
    BY DEF Rx!Search, Rx!WindowEnds, Rx!RxType
  <1>2. s \in Rx!RxStates /\ s = IF rx.is_start THEN "START" ELSE "IDLE"
    BY <1>1, NextStates
  <1>3. c \in 0 .. 8 /\ v \in 0 .. 8
    BY <1>1 DEF Rx!RxType
  <1>4. rx' = [rx EXCEPT !.state = s, !.count_start = @ + 1, !.count_start_valid = @ + 1 - b]
    BY DEF Rx!Search
  <1>5. rx' = [rx EXCEPT !.state = s, !.count_start = c, !.count_start_valid = v]
    BY <1>4 DEF Rx!RxType
  <1> HIDE DEF s, c, v
  <1>6. rx' \in Rx!RxType
    BY <1>2, <1>3, <1>5 DEF Rx!RxType
  <1>7. /\ rx'.state = s /\ rx'.count_start = c /\ rx'.count_start_valid = v
        /\ rx'.is_start = rx.is_start /\ rx'.recv = rx.recv /\ rx'.done = rx.done
        /\ rx'.check_done = rx.check_done /\ rx'.count_empty = rx.count_empty
        /\ rx'.sample_points_sum = rx.sample_points_sum
        /\ rx'.count_sample_points = rx.count_sample_points
        /\ rx'.count_bits = rx.count_bits /\ rx'.rx_data = rx.rx_data
    BY <1>5 DEF Rx!RxType
  <1>8. QED
    BY <1>1, <1>2, <1>6, <1>7 DEF c, v

\* The end of a window.
LEMMA JudgeEdge ==
  ASSUME configs \in LinkConfigs, rx \in Rx!RxType, Rx!Judge,
         rx.count_start_valid = 8 => rx.count_empty <= 8
  PROVE  /\ rx' \in Rx!RxType
         /\ rx.state = "IDLE" /\ rx.count_start = 8
         /\ rx'.state = IF rx.is_start THEN "START" ELSE "IDLE"
         /\ rx'.is_start <=> rx.count_start_valid = 8
         /\ rx'.count_empty = IF rx.count_start_valid = 8 THEN rx.count_empty + 8
                              ELSE rx.count_start_valid
         /\ rx'.count_start = 0 /\ rx'.count_start_valid = 0
         /\ rx'.recv = rx.recv /\ rx'.done = rx.done /\ rx'.check_done = rx.check_done
         /\ rx'.sample_points_sum = rx.sample_points_sum
         /\ rx'.count_sample_points = rx.count_sample_points
         /\ rx'.count_bits = rx.count_bits /\ rx'.rx_data = rx.rx_data
  <1> DEFINE s == Rx!NextState
             i == rx.count_start_valid = 8
             e == IF rx.count_start_valid = 8 THEN rx.count_empty + 8 ELSE rx.count_start_valid
  <1>1. rx.state = "IDLE" /\ rx.count_start = 8
    BY DEF Rx!Judge, Rx!WindowEnds
  <1>2. s \in Rx!RxStates /\ s = IF rx.is_start THEN "START" ELSE "IDLE"
    BY <1>1, NextStates
  <1>3. e \in 0 .. 16 /\ i \in BOOLEAN /\ 0 \in 0 .. 8
    BY DEF Rx!RxType
  <1>4. rx' = [rx EXCEPT !.state = s, !.is_start = i,
                         !.count_empty = IF rx.count_start_valid = 8 THEN @ + 8
                                         ELSE rx.count_start_valid,
                         !.count_start = 0, !.count_start_valid = 0]
    BY DEF Rx!Judge
  <1> HIDE DEF i
  <1>5. rx' = [rx EXCEPT !.state = s, !.is_start = i, !.count_empty = e,
                         !.count_start = 0, !.count_start_valid = 0]
    BY <1>4 DEF Rx!RxType
  <1> HIDE DEF s, e
  <1>6. rx' \in Rx!RxType
    BY <1>2, <1>3, <1>5 DEF Rx!RxType
  <1>7. /\ rx'.state = s /\ rx'.is_start = i /\ rx'.count_empty = e
        /\ rx'.count_start = 0 /\ rx'.count_start_valid = 0
        /\ rx'.recv = rx.recv /\ rx'.done = rx.done /\ rx'.check_done = rx.check_done
        /\ rx'.sample_points_sum = rx.sample_points_sum
        /\ rx'.count_sample_points = rx.count_sample_points
        /\ rx'.count_bits = rx.count_bits /\ rx'.rx_data = rx.rx_data
    BY <1>5 DEF Rx!RxType
  <1>8. QED
    BY <1>1, <1>2, <1>6, <1>7 DEF e, i

\* The rest of the start bit.
LEMMA FlushEdge ==
  ASSUME configs \in LinkConfigs, rx \in Rx!RxType, Rx!Flush
  PROVE  /\ rx' \in Rx!RxType
         /\ rx.state = "START"
         /\ rx'.state = IF rx.recv THEN "RECV_DATA" ELSE "START"
         /\ rx'.recv <=> rx.recv \/ rx.count_empty >= 13
         /\ rx'.count_empty = IF rx.count_empty < 13 THEN rx.count_empty + 1 ELSE 0
         /\ rx'.done = rx.done /\ rx'.check_done = rx.check_done
         /\ rx'.sample_points_sum = rx.sample_points_sum
         /\ rx'.count_sample_points = rx.count_sample_points
         /\ rx'.count_bits = rx.count_bits /\ rx'.rx_data = rx.rx_data
  <1> DEFINE s == Rx!NextState
             r == rx.recv \/ rx.count_empty >= 13
             e == IF rx.count_empty < 13 THEN rx.count_empty + 1 ELSE 0
  <1>1. rx.state = "START"
    BY DEF Rx!Flush
  <1>2. s \in Rx!RxStates /\ s = IF rx.recv THEN "RECV_DATA" ELSE "START"
    BY <1>1, NextStates
  <1>3. e \in 0 .. 16 /\ r \in BOOLEAN
    BY DEF Rx!RxType
  <1>4. rx' = [rx EXCEPT !.state = s, !.recv = @ \/ rx.count_empty >= 13, !.state_out = TRUE,
                         !.count_empty = IF @ < 13 THEN @ + 1 ELSE 0]
    BY DEF Rx!Flush
  <1>5. rx' = [rx EXCEPT !.state = s, !.recv = r, !.state_out = TRUE, !.count_empty = e]
    BY <1>4 DEF Rx!RxType
  <1> HIDE DEF s, e, r
  <1>6. rx' \in Rx!RxType
    BY <1>2, <1>3, <1>5 DEF Rx!RxType
  <1>7. /\ rx'.state = s /\ rx'.recv = r /\ rx'.count_empty = e
        /\ rx'.done = rx.done /\ rx'.check_done = rx.check_done
        /\ rx'.sample_points_sum = rx.sample_points_sum
        /\ rx'.count_sample_points = rx.count_sample_points
        /\ rx'.count_bits = rx.count_bits /\ rx'.rx_data = rx.rx_data
    BY <1>5 DEF Rx!RxType
  <1>8. QED
    BY <1>1, <1>2, <1>6, <1>7 DEF e, r

\* A sample of a bit; only those in the middle count.
LEMMA SampleEdge ==
  ASSUME configs \in LinkConfigs, rx \in Rx!RxType, NEW b \in Bit, Rx!Sample(b),
         Rx!InMiddle => rx.sample_points_sum <= 5
  PROVE  /\ rx' \in Rx!RxType
         /\ rx.state \in {"RECV_DATA", "CHECK"} /\ rx.count_sample_points \in 0 .. 14
         /\ rx'.state = Rx!NextState
         /\ rx'.sample_points_sum = IF Rx!InMiddle THEN rx.sample_points_sum + b
                                    ELSE rx.sample_points_sum
         /\ rx'.count_sample_points = rx.count_sample_points + 1
         /\ rx'.done = rx.done /\ rx'.check_done = rx.check_done
         /\ rx'.count_bits = rx.count_bits /\ rx'.rx_data = rx.rx_data
         /\ rx'.data_buffer = rx.data_buffer
  <1> DEFINE s == Rx!NextState
             m == IF Rx!InMiddle THEN rx.sample_points_sum + b ELSE rx.sample_points_sum
             c == rx.count_sample_points + 1
  <1>1. rx.state \in {"RECV_DATA", "CHECK"} /\ rx.count_sample_points \in 0 .. 14
    BY DEF Rx!Sample, Rx!RxType
  <1>2. s \in Rx!RxStates
    BY NextStates
  <1>3. m \in 0 .. 6 /\ c \in 0 .. 15
    BY <1>1 DEF Rx!RxType
  <1>4. rx' = [rx EXCEPT !.state = s, !.sample_points_sum = IF Rx!InMiddle THEN @ + b ELSE @,
                         !.count_sample_points = @ + 1]
    BY DEF Rx!Sample
  <1>5. rx' = [rx EXCEPT !.state = s, !.sample_points_sum = m, !.count_sample_points = c]
    BY <1>4 DEF Rx!RxType
  <1> HIDE DEF s, m, c
  <1>6. rx' \in Rx!RxType
    BY <1>2, <1>3, <1>5 DEF Rx!RxType
  <1>7. /\ rx'.state = s /\ rx'.sample_points_sum = m /\ rx'.count_sample_points = c
        /\ rx'.done = rx.done /\ rx'.check_done = rx.check_done
        /\ rx'.count_bits = rx.count_bits /\ rx'.rx_data = rx.rx_data
        /\ rx'.data_buffer = rx.data_buffer
    BY <1>5 DEF Rx!RxType
  <1>8. QED
    BY <1>1, <1>6, <1>7 DEF s, m, c

\* The end of a data bit.
LEMMA DataEdge ==
  ASSUME configs \in LinkConfigs, rx \in Rx!RxType, Rx!DataBit, rx.count_bits < configs.data
  PROVE  /\ rx' \in Rx!RxType
         /\ rx.state = "RECV_DATA" /\ rx.count_sample_points = 15 /\ rx'.state = "RECV_DATA"
         /\ rx'.count_bits = rx.count_bits + 1
         /\ rx'.count_sample_points = 0 /\ rx'.sample_points_sum = 0
         /\ rx'.done = rx.done /\ rx'.check_done = rx.check_done /\ rx'.rx_data = rx.rx_data
         /\ \A k \in 1 .. configs.data :
              rx'.data_buffer[k] = IF k = rx.count_bits + 1 THEN Rx!Majority(rx.data_buffer[k])
                                   ELSE rx.data_buffer[k]
  <1> DEFINE s == Rx!NextState
             i == rx.count_bits + 1
             v == Rx!Majority(rx.data_buffer[i])
             d == [rx.data_buffer EXCEPT ![i] = v]
             o == IF rx.sample_points_sum > 3 THEN 1 - rx.num_of_one ELSE rx.num_of_one
  <1>1. rx.state = "RECV_DATA" /\ rx.count_sample_points = 15
    BY DEF Rx!DataBit
  <1>2. "RECV_DATA" \in Rx!RxStates /\ s = "RECV_DATA"
    BY <1>1, NextStates, Config DEF Rx!RxType, Rx!RxStates
  <1>3. i \in 1 .. configs.data /\ configs.data \in 5 .. 8
    BY Config DEF Rx!RxType
  <1>4. rx.data_buffer \in [1 .. configs.data -> Bit] /\ rx.num_of_one \in Bit
    BY DEF Rx!RxType
  <1>5. v \in Bit /\ o \in Bit
    BY <1>3, <1>4 DEF Rx!Majority
  <1> HIDE DEF v, o, s
  <1>6. d \in [1 .. configs.data -> Bit]
    BY <1>3, <1>4, <1>5
  <1>7. rx' = [rx EXCEPT !.state = s, !.data_buffer = d, !.num_of_one = o, !.count_bits = i,
                         !.count_sample_points = 0, !.sample_points_sum = 0]
    BY <1>3, <1>4 DEF Rx!DataBit, Rx!RxType, v, o, s
  <1>8. i \in 0 .. configs.data /\ 0 \in 0 .. 15 /\ 0 \in 0 .. 6
    BY <1>3
  <1>9. \A k \in 1 .. configs.data : d[k] = IF k = i THEN v ELSE rx.data_buffer[k]
    BY <1>3, <1>4
  <1> HIDE DEF d, i
  <1>10. rx' \in Rx!RxType
    BY <1>2, <1>5, <1>6, <1>7, <1>8 DEF Rx!RxType
  <1>11. /\ rx'.state = s /\ rx'.data_buffer = d /\ rx'.count_bits = i
         /\ rx'.count_sample_points = 0 /\ rx'.sample_points_sum = 0
         /\ rx'.done = rx.done /\ rx'.check_done = rx.check_done /\ rx'.rx_data = rx.rx_data
    BY <1>7 DEF Rx!RxType
  <1>12. QED
    BY <1>1, <1>2, <1>9, <1>10, <1>11 DEF i, v

\* The end of the parity bit.
LEMMA ParityEdge ==
  ASSUME configs \in LinkConfigs, rx \in Rx!RxType, Rx!ParityBit
  PROVE  /\ rx' \in Rx!RxType
         /\ rx.state = "CHECK" /\ rx.count_sample_points = 15
         /\ rx'.state = IF rx.check_done THEN "FINISH" ELSE "CHECK"
         /\ rx'.count_sample_points = 0 /\ rx'.sample_points_sum = 0
         /\ rx'.check_done = TRUE /\ rx'.done = rx.done
         /\ rx'.count_bits = rx.count_bits /\ rx'.rx_data = rx.rx_data
         /\ rx'.data_buffer = rx.data_buffer
  <1> DEFINE s == Rx!NextState
             v == Rx!Majority(rx.parity)
             differ == rx.num_of_one # rx.parity
             e == IF configs.check = "odd" THEN differ ELSE ~differ
  <1>1. rx.state = "CHECK" /\ rx.count_sample_points = 15
    BY DEF Rx!ParityBit
  <1>2. s \in Rx!RxStates /\ s = IF rx.check_done THEN "FINISH" ELSE "CHECK"
    BY <1>1, NextStates
  <1>3. v \in Bit
    BY DEF Rx!Majority, Rx!RxType
  <1>4. e \in BOOLEAN /\ TRUE \in BOOLEAN
    OBVIOUS
  <1>5. rx' = [rx EXCEPT !.state = s, !.parity = v, !.check_done = TRUE, !.check_error = e,
                         !.count_sample_points = 0, !.sample_points_sum = 0]
    <2>1. rx' = [rx EXCEPT !.state = s, !.parity = Rx!Majority(@), !.check_done = TRUE,
                           !.check_error = e, !.count_sample_points = 0,
                           !.sample_points_sum = 0]
      BY DEF Rx!ParityBit
    <2>2. QED
      BY <2>1 DEF Rx!RxType
  <1>6. 0 \in 0 .. 15 /\ 0 \in 0 .. 6
    OBVIOUS
  <1> HIDE DEF s, v, e
  <1>7. rx' \in Rx!RxType
    BY <1>2, <1>3, <1>4, <1>5, <1>6 DEF Rx!RxType
  <1>8. /\ rx'.state = s /\ rx'.count_sample_points = 0 /\ rx'.sample_points_sum = 0
        /\ rx'.check_done = TRUE /\ rx'.done = rx.done
        /\ rx'.count_bits = rx.count_bits /\ rx'.rx_data = rx.rx_data
        /\ rx'.data_buffer = rx.data_buffer
    BY <1>5 DEF Rx!RxType
  <1>9. QED
    BY <1>1, <1>2, <1>7, <1>8

\* A receiver that was reset hunts, and has seen nothing.
LEMMA Fresh ==
  ASSUME configs \in LinkConfigs
  PROVE  /\ Rx!ResetState \in Rx!RxType
         /\ Rx!ResetState.state = "IDLE" /\ Rx!ResetState.is_start = FALSE
         /\ Rx!ResetState.recv = FALSE /\ Rx!ResetState.done = FALSE
         /\ Rx!ResetState.check_done = FALSE
         /\ Rx!ResetState.count_start = 0 /\ Rx!ResetState.count_start_valid = 0
         /\ Rx!ResetState.count_empty = 0 /\ Rx!ResetState.sample_points_sum = 0
         /\ Rx!ResetState.count_sample_points = 0 /\ Rx!ResetState.count_bits = 0
  <1>1. Rx!Bits(configs.data, 0) \in [1 .. configs.data -> Bit]
    BY DEF Rx!Bits
  <1>2. 0 \in 0 .. configs.data
    BY Config
  <1>3. QED
    BY <1>1, <1>2 DEF Rx!ResetState, Rx!RxType, Rx!RxStates

\* The word is handed over.
LEMMA FinishEdge ==
  ASSUME configs \in LinkConfigs, rx \in Rx!RxType, Rx!Finish
  PROVE  /\ rx' \in Rx!RxType
         /\ rx.state = "FINISH" /\ rx'.state = "IDLE" /\ rx'.done = TRUE
         /\ rx'.is_start = FALSE /\ rx'.recv = FALSE /\ rx'.check_done = FALSE
         /\ rx'.count_start = 0 /\ rx'.count_start_valid = 0
         /\ rx'.sample_points_sum = 0 /\ rx'.count_sample_points = 0 /\ rx'.count_bits = 0
         /\ rx'.rx_data = rx.data_buffer
  <1> DEFINE z == Rx!ResetState
  <1>1. /\ z \in Rx!RxType
        /\ z.state = "IDLE" /\ z.is_start = FALSE /\ z.recv = FALSE /\ z.check_done = FALSE
        /\ z.count_start = 0 /\ z.count_start_valid = 0 /\ z.sample_points_sum = 0
        /\ z.count_sample_points = 0 /\ z.count_bits = 0
    BY Fresh
  <1>2. rx.state = "FINISH"
        /\ rx' = [z EXCEPT !.done = TRUE, !.rx_data = rx.data_buffer,
                           !.count_empty = rx.count_empty, !.check_error = rx.check_error]
    BY DEF Rx!Finish
  <1>3. /\ TRUE \in BOOLEAN /\ rx.data_buffer \in [1 .. configs.data -> Bit]
        /\ rx.count_empty \in 0 .. 16 /\ rx.check_error \in BOOLEAN
    BY DEF Rx!RxType
  <1> HIDE DEF z
  <1>4. rx' \in Rx!RxType
    BY <1>1, <1>2, <1>3 DEF Rx!RxType
  <1>5. QED
    BY <1>1, <1>2, <1>4 DEF Rx!RxType

--------------------------------------------------------------------------------
(* A sample while a frame is on the line.                                  *)

\* A frame is on the line.
Busy == TypeOK /\ TxInv /\ sent # None /\ Place >= 0 /\ rx_en /\ ~rx.done

\* An edge of either clock.
LEMMA Edge ==
  ASSUME TypeOK, Clocks
  PROVE  /\ configs \in LinkConfigs /\ configs' = configs /\ LastBit' = LastBit
         /\ tx \in Tx!TxType /\ rx \in Rx!RxType /\ tx.uart_tx \in Bit
         /\ sample \in 0 .. 16 /\ slips \in Nat /\ slips <= MaxSlips
         /\ tx_en \in BOOLEAN /\ data \in Data(configs.data)
         /\ rx_en' = rx_en /\ tx_en' = tx_en /\ data' = data
         /\ Receive
         /\ SampleTick \/ BitTick
  <1>1. configs' = configs /\ rx_en' = rx_en /\ tx_en' = tx_en /\ data' = data /\ Receive
    BY DEF Clocks, SampleTick, BitTick
  <1>2. MaxSlips \in Nat
    BY LinkAssumption
  <1>3. tx.uart_tx \in Bit
    BY DEF TypeOK, Tx!TxType
  <1>4. LastBit' = LastBit
    BY <1>1 DEF LastBit
  <1>5. QED
    BY <1>1, <1>2, <1>3, <1>4 DEF TypeOK, Clocks

\* One sample more, unless the frame is over.
LEMMA TimePasses ==
  ASSUME TypeOK, TxInv, Clocks, Place >= 0, Fewest <= 21 + 16 * LastBit
  PROVE  /\ Fewest \in Int /\ Most \in Int /\ Fewest' \in Int /\ Most' \in Int
         /\ Fewest' <= Fewest + 1 /\ Most + 1 <= Most'
         /\ Place' \in {Place, Place + 1}
         /\ BitTick => tx.state \notin {"IDLE", "FINISH"}
  <1>1. /\ sample \in 0 .. 16 /\ slips \in Nat /\ configs.stop \in 1 .. 2
        /\ LastBit \in 5 .. 9
    BY Edge, Config
  <1>2. Place \in Int
    BY <1>1, Config DEF Place, TypeOK, Tx!TxType
  <1>3. CASE SampleTick
    <2>1. Place' = Place
      BY <1>3 DEF SampleTick, Place, LastBit
    <2>2. /\ \/ sample < 15 /\ slips' = slips
             \/ sample = 15 /\ slips' = slips + 1
          /\ sample' = sample + 1
      BY <1>3 DEF SampleTick
    <2>3. ~BitTick
      BY <1>1, <2>2 DEF BitTick
    <2>4. QED
      BY <1>1, <1>2, <2>1, <2>2, <2>3 DEF Fewest, Most
  <1>4. CASE BitTick
    <2>1. sample >= 15 /\ sample' = 0 /\ Tx!Step(tx_en, data)
      BY <1>4 DEF BitTick
    <2>2. /\ Place \in -1 .. LastBit + configs.stop
          /\ Place = -1 <=> tx.state \in {"IDLE", "START"}
          /\ Place = LastBit + configs.stop <=> tx.state = "FINISH"
          /\ tx.state \notin {"IDLE", "FINISH"} => Place' = Place + 1
      BY <2>1, Edge, PlaceMoves
    <2>3. tx.state # "IDLE" /\ tx.state # "FINISH"
      BY <1>1, <1>2, <2>1, <2>2 DEF Fewest
    <2>4. slips' = slips
      BY <1>4, <2>3 DEF BitTick
    <2>5. QED
      BY <1>1, <1>2, <2>1, <2>2, <2>3, <2>4 DEF Fewest, Most
  <1>5. QED
    BY <1>3, <1>4 DEF Clocks

\* The bit on the line.
LEMMA OnTheLine ==
  ASSUME Busy
  PROVE  /\ configs.data \in 5 .. 8 /\ LastBit \in configs.data .. configs.data + 1
         /\ Place \in Nat /\ sample \in 0 .. 16
         /\ Fewest = 16 * Place + sample /\ Fewest \in Nat
         /\ Place = 0 => tx.uart_tx = 0
         /\ Place \in 1 .. configs.data => tx.uart_tx = sent[Place]
  <1>1. /\ configs.data \in 5 .. 8 /\ LastBit \in configs.data .. configs.data + 1
        /\ configs.stop \in 1 .. 2 /\ sample \in 0 .. 16
    BY Config DEF Busy, TypeOK
  <1>2. Place \in Nat
    BY <1>1 DEF Busy, Place, TypeOK, Tx!TxType
  <1>3. Tx!Active /\ Framed /\ Level /\ sent # None
    <2>1. tx.state # "IDLE"
      BY DEF Busy, Place
    <2>2. QED
      BY <2>1 DEF Busy, TxInv
  <1>4. \A k \in 1 .. configs.data : tx.serial_data[1 + k] = sent[k]
    BY <1>3 DEF Framed
  <1>5. QED
    BY <1>1, <1>2, <1>3, <1>4 DEF Level, Fewest

\* What the receiver does with a sample, by its state.
LEMMA Sampled ==
  ASSUME Busy, Clocks
  PROVE  /\ configs \in LinkConfigs /\ rx \in Rx!RxType /\ tx.uart_tx \in Bit
         /\ configs' = configs /\ LastBit' = LastBit
         /\ rx'.done = rx.done => sent' = sent /\ tag' = tag
         /\ rx.state = "IDLE" => Rx!Search(tx.uart_tx) \/ Rx!Judge
         /\ rx.state = "START" => Rx!Flush
         /\ rx.state = "RECV_DATA" => Rx!Sample(tx.uart_tx) \/ Rx!DataBit
         /\ rx.state = "CHECK" => Rx!Sample(tx.uart_tx) \/ Rx!ParityBit
         /\ rx.state = "FINISH" => Rx!Finish
  <1>1. Rx!Step(rx_en, tx.uart_tx) /\ rx_en /\ ~rx.done
    BY Edge DEF Busy, Receive
  <1>2. /\ configs \in LinkConfigs /\ rx \in Rx!RxType /\ tx.uart_tx \in Bit
        /\ configs' = configs /\ LastBit' = LastBit
        /\ rx'.done = rx.done => sent' = sent /\ tag' = tag
    BY Edge DEF Busy, Receive
  <1>3. QED
    BY <1>1, <1>2 DEF Rx!Step, Rx!Search, Rx!Judge, Rx!Flush, Rx!Sample, Rx!DataBit, Rx!ParityBit,
       Rx!Finish

\* Searching: the window in which the line fell, and the one that decides.
LEMMA FallingMoves ==
  ASSUME Busy, Clocks, Falling
  PROVE  /\ rx' \in Rx!RxType /\ rx'.done = rx.done /\ rx'.rx_data = rx.rx_data
         /\ Phase'
  <1> DEFINE v == rx.count_start_valid
  <1>1. /\ rx.state = "IDLE" /\ ~rx.is_start /\ ~rx.recv /\ Empty
        /\ v <= rx.count_start /\ rx.count_empty = 0
        /\ Fewest <= v /\ v <= Most
    BY DEF Falling, Hunting, Taken
  <1>2. v \in 0 .. 8 /\ rx.count_start \in 0 .. 8
    BY DEF Busy, TypeOK, Rx!RxType
  <1>3. Place = 0 /\ tx.uart_tx = 0 /\ LastBit \in 5 .. 9
    BY <1>1, <1>2, OnTheLine
  <1>4. /\ Fewest \in Int /\ Most \in Int /\ Fewest' \in Int /\ Most' \in Int
        /\ Fewest' <= v + 1 /\ v + 1 <= Most'
    <2>1. Fewest <= 21 + 16 * LastBit /\ TypeOK /\ TxInv /\ Place >= 0
      BY <1>1, <1>2, <1>3, OnTheLine DEF Busy
    <2>2. /\ Fewest \in Int /\ Most \in Int /\ Fewest' \in Int /\ Most' \in Int
          /\ Fewest' <= Fewest + 1 /\ Most + 1 <= Most'
      BY <2>1, TimePasses
    <2>3. QED
      BY <1>1, <1>2, <2>2
  <1> HIDE DEF v
  <1>5. CASE Rx!Search(tx.uart_tx)
    <2>1. /\ rx' \in Rx!RxType /\ rx'.state = "IDLE"
          /\ rx'.count_start = rx.count_start + 1 /\ rx'.count_start_valid = v + 1
          /\ rx'.is_start = rx.is_start /\ rx'.recv = rx.recv /\ rx'.done = rx.done
          /\ rx'.check_done = rx.check_done /\ rx'.count_empty = 0
          /\ rx'.sample_points_sum = rx.sample_points_sum
          /\ rx'.count_sample_points = rx.count_sample_points
          /\ rx'.count_bits = rx.count_bits /\ rx'.rx_data = rx.rx_data
      BY <1>1, <1>2, <1>3, <1>5, Sampled, SearchEdge DEF v, Busy
    <2>2. Hunting'
      BY <1>1, <1>2, <2>1 DEF Hunting, Empty
    <2>3. Falling'
      BY <1>4, <2>1, <2>2 DEF Falling, Taken
    <2>4. QED
      BY <2>1, <2>3 DEF Phase
  <1>6. CASE Rx!Judge
    <2>1. /\ rx' \in Rx!RxType /\ rx'.state = "IDLE"
          /\ rx'.is_start <=> v = 8
          /\ rx'.count_empty = IF v = 8 THEN 8 ELSE v
          /\ rx'.count_start = 0 /\ rx'.count_start_valid = 0
          /\ rx'.recv = rx.recv /\ rx'.done = rx.done /\ rx'.check_done = rx.check_done
          /\ rx'.sample_points_sum = rx.sample_points_sum
          /\ rx'.count_sample_points = rx.count_sample_points
          /\ rx'.count_bits = rx.count_bits /\ rx'.rx_data = rx.rx_data
      BY <1>1, <1>2, <1>6, Sampled, JudgeEdge DEF v, Busy
    <2>2. Empty'
      BY <1>1, <2>1 DEF Empty
    <2>3. CASE v = 8
      <3>1. Found'
        BY <1>1, <1>4, <2>1, <2>2, <2>3 DEF Found, Taken
      <3>2. QED
        BY <2>1, <3>1 DEF Phase
    <2>4. CASE v # 8
      <3>1. Deciding'
        BY <1>1, <1>2, <1>4, <2>1, <2>2, <2>4 DEF Deciding, Hunting, Taken
      <3>2. QED
        BY <2>1, <3>1 DEF Phase
    <2>5. QED
      BY <2>3, <2>4
  <1>7. QED
    BY <1>1, <1>5, <1>6, Sampled

\* The window that decides whether the fall was the start bit.
LEMMA DecidingMoves ==
  ASSUME Busy, Clocks, Deciding
  PROVE  /\ rx' \in Rx!RxType /\ rx'.done = rx.done /\ rx'.rx_data = rx.rx_data
         /\ Phase'
  <1> DEFINE t == rx.count_empty + 1 + rx.count_start
             e == rx.count_empty
  <1>1. /\ rx.state = "IDLE" /\ ~rx.is_start /\ ~rx.recv /\ Empty
        /\ rx.count_start_valid = rx.count_start /\ e <= 7
        /\ Fewest <= t /\ t <= Most
    BY DEF Deciding, Hunting, Taken
  <1>2. e \in 0 .. 7 /\ rx.count_start \in 0 .. 8 /\ t \in 1 .. 16
    BY <1>1 DEF Busy, TypeOK, Rx!RxType
  <1>3. LastBit \in 5 .. 9 /\ Place \in Nat /\ sample \in 0 .. 16
    BY OnTheLine
  <1>4. /\ Fewest \in Int /\ Most \in Int /\ Fewest' \in Int /\ Most' \in Int
        /\ Fewest' <= t + 1 /\ t + 1 <= Most'
    <2>1. Fewest <= 21 + 16 * LastBit /\ TypeOK /\ TxInv /\ Place >= 0
      BY <1>1, <1>2, <1>3 DEF Busy, Fewest
    <2>2. /\ Fewest \in Int /\ Most \in Int /\ Fewest' \in Int /\ Most' \in Int
          /\ Fewest' <= Fewest + 1 /\ Most + 1 <= Most'
      BY <2>1, TimePasses
    <2>3. QED
      BY <1>1, <1>2, <2>2
  <1>5. CASE Rx!Search(tx.uart_tx)
    <2>1. rx.count_start \in 0 .. 7
      BY <1>1, <1>2, <1>5, Sampled, SearchEdge
    <2>2. tx.uart_tx = 0
      BY <1>1, <1>2, <1>3, <2>1, OnTheLine
    <2>3. /\ rx' \in Rx!RxType /\ rx'.state = "IDLE"
          /\ rx'.count_start = rx.count_start + 1 /\ rx'.count_start_valid = rx.count_start + 1
          /\ rx'.is_start = rx.is_start /\ rx'.recv = rx.recv /\ rx'.done = rx.done
          /\ rx'.check_done = rx.check_done /\ rx'.count_empty = e
          /\ rx'.sample_points_sum = rx.sample_points_sum
          /\ rx'.count_sample_points = rx.count_sample_points
          /\ rx'.count_bits = rx.count_bits /\ rx'.rx_data = rx.rx_data
      BY <1>1, <1>2, <1>5, <2>2, Sampled, SearchEdge
    <2> HIDE DEF e
    <2>4. Hunting'
      BY <1>1, <1>2, <2>3 DEF Hunting, Empty
    <2>5. Deciding'
      BY <1>1, <1>2, <1>4, <2>3, <2>4 DEF Deciding, Taken, e
    <2>6. QED
      BY <2>3, <2>5 DEF Phase
  <1>6. CASE Rx!Judge
    <2>1. rx.count_start = 8
      BY <1>1, <1>2, <1>6, Sampled, JudgeEdge
    <2>2. /\ rx' \in Rx!RxType /\ rx'.state = "IDLE"
          /\ rx'.is_start /\ rx'.count_empty = e + 8
          /\ rx'.count_start = 0 /\ rx'.count_start_valid = 0
          /\ rx'.recv = rx.recv /\ rx'.done = rx.done /\ rx'.check_done = rx.check_done
          /\ rx'.sample_points_sum = rx.sample_points_sum
          /\ rx'.count_sample_points = rx.count_sample_points
          /\ rx'.count_bits = rx.count_bits /\ rx'.rx_data = rx.rx_data
      BY <1>1, <1>2, <1>6, <2>1, Sampled, JudgeEdge
    <2> HIDE DEF e
    <2>3. Empty'
      BY <1>1, <2>2 DEF Empty
    <2>4. Found'
      BY <1>1, <1>2, <1>4, <2>1, <2>2, <2>3 DEF Found, Taken, e
    <2>5. QED
      BY <2>2, <2>4 DEF Phase
  <1>7. QED
    BY <1>1, <1>5, <1>6, Sampled

\* The start bit is found, and what is left of it.
LEMMA FoundMoves ==
  ASSUME Busy, Clocks, Found
  PROVE  /\ rx' \in Rx!RxType /\ rx'.done = rx.done /\ rx'.rx_data = rx.rx_data
         /\ Phase'
  <1> DEFINE e == rx.count_empty
  <1>1. /\ rx.state = "IDLE" /\ rx.is_start /\ ~rx.recv /\ Empty
        /\ rx.count_start = 0 /\ rx.count_start_valid = 0
        /\ e \in 8 .. 15 /\ Fewest <= e + 2 /\ e + 1 <= Most
    BY DEF Found, Taken
  <1>2. LastBit \in 5 .. 9
    BY OnTheLine
  <1> HIDE DEF e
  <1>3. /\ Fewest' \in Int /\ Most' \in Int
        /\ Fewest' <= e + 3 /\ e + 2 <= Most'
    <2>1. Fewest \in Int
      BY OnTheLine
    <2>2. Fewest <= 21 + 16 * LastBit /\ TypeOK /\ TxInv /\ Place >= 0
      BY <1>1, <1>2, <2>1 DEF Busy
    <2>3. /\ Fewest \in Int /\ Most \in Int /\ Fewest' \in Int /\ Most' \in Int
          /\ Fewest' <= Fewest + 1 /\ Most + 1 <= Most'
      BY <2>2, TimePasses
    <2>4. QED
      BY <1>1, <2>3
  <1>4. Rx!Search(tx.uart_tx)
    <2>1. ~Rx!Judge
      BY <1>1 DEF Rx!Judge, Rx!WindowEnds
    <2>2. QED
      BY <1>1, <2>1, Sampled
  <1>5. /\ rx' \in Rx!RxType /\ rx'.state = "START" /\ rx'.count_empty = e
        /\ rx'.recv = rx.recv /\ rx'.done = rx.done /\ rx'.check_done = rx.check_done
        /\ rx'.sample_points_sum = rx.sample_points_sum
        /\ rx'.count_sample_points = rx.count_sample_points
        /\ rx'.count_bits = rx.count_bits /\ rx'.rx_data = rx.rx_data
    <2>1. rx.count_start_valid <= rx.count_start
      BY <1>1
    <2>2. QED
      BY <1>1, <1>4, <2>1, Sampled, SearchEdge DEF e
  <1>6. Flushing'
    BY <1>1, <1>3, <1>5 DEF Flushing, Taken, Empty
  <1>7. QED
    BY <1>5, <1>6 DEF Phase

\* What is left of the start bit, but for its last sample.
LEMMA FlushingMoves ==
  ASSUME Busy, Clocks, Flushing
  PROVE  /\ rx' \in Rx!RxType /\ rx'.done = rx.done /\ rx'.rx_data = rx.rx_data
         /\ Phase'
  <1> DEFINE e == rx.count_empty
  <1>1. /\ rx.state = "START" /\ ~rx.recv /\ Empty
        /\ e \in 8 .. 15 /\ Fewest <= e + 3 /\ e + 2 <= Most
    BY DEF Flushing, Taken
  <1>2. LastBit \in 5 .. 9
    BY OnTheLine
  <1> HIDE DEF e
  <1>3. /\ Fewest' \in Int /\ Most' \in Int
        /\ Fewest' <= e + 4 /\ e + 3 <= Most'
    <2>1. Fewest \in Int
      BY OnTheLine
    <2>2. Fewest <= 21 + 16 * LastBit /\ TypeOK /\ TxInv /\ Place >= 0
      BY <1>1, <1>2, <2>1 DEF Busy
    <2>3. /\ Fewest \in Int /\ Most \in Int /\ Fewest' \in Int /\ Most' \in Int
          /\ Fewest' <= Fewest + 1 /\ Most + 1 <= Most'
      BY <2>2, TimePasses
    <2>4. QED
      BY <1>1, <2>3
  <1>4. Rx!Flush
    BY <1>1, Sampled
  <1>5. /\ rx' \in Rx!RxType /\ rx'.state = "START"
        /\ rx'.recv <=> e >= 13
        /\ rx'.count_empty = IF e < 13 THEN e + 1 ELSE 0
        /\ rx'.done = rx.done /\ rx'.check_done = rx.check_done
        /\ rx'.sample_points_sum = rx.sample_points_sum
        /\ rx'.count_sample_points = rx.count_sample_points
        /\ rx'.count_bits = rx.count_bits /\ rx'.rx_data = rx.rx_data
    BY <1>1, <1>4, Sampled, FlushEdge DEF e
  <1>6. Empty'
    BY <1>1, <1>5 DEF Empty
  <1>7. CASE e < 13
    <2>1. Flushing'
      BY <1>1, <1>3, <1>5, <1>6, <1>7 DEF Flushing, Taken
    <2>2. QED
      BY <1>5, <2>1 DEF Phase
  <1>8. CASE e >= 13
    <2>1. Flushed'
      BY <1>1, <1>3, <1>5, <1>6, <1>8 DEF Flushed, Taken
    <2>2. QED
      BY <1>5, <2>1 DEF Phase
  <1>9. QED
    BY <1>1, <1>7, <1>8

\* The last sample of the start bit.
LEMMA FlushedMoves ==
  ASSUME Busy, Clocks, Flushed
  PROVE  /\ rx' \in Rx!RxType /\ rx'.done = rx.done /\ rx'.rx_data = rx.rx_data
         /\ Phase'
  <1>1. /\ rx.state = "START" /\ rx.recv /\ Empty /\ rx.count_empty = 0
        /\ Fewest <= 19 /\ 16 <= Most
    BY DEF Flushed, Taken
  <1>2. /\ Fewest' \in Int /\ Most' \in Int
        /\ Fewest' <= 20 /\ 17 <= Most'
    <2>1. Fewest \in Int /\ LastBit \in 5 .. 9
      BY OnTheLine
    <2>2. Fewest <= 21 + 16 * LastBit /\ TypeOK /\ TxInv /\ Place >= 0
      BY <1>1, <2>1 DEF Busy
    <2>3. /\ Fewest \in Int /\ Most \in Int /\ Fewest' \in Int /\ Most' \in Int
          /\ Fewest' <= Fewest + 1 /\ Most + 1 <= Most'
      BY <2>2, TimePasses
    <2>4. QED
      BY <1>1, <2>3
  <1>3. Rx!Flush
    BY <1>1, Sampled
  <1>4. /\ rx' \in Rx!RxType /\ rx'.state = "RECV_DATA"
        /\ rx'.done = rx.done /\ rx'.check_done = rx.check_done
        /\ rx'.sample_points_sum = rx.sample_points_sum
        /\ rx'.count_sample_points = rx.count_sample_points
        /\ rx'.count_bits = rx.count_bits /\ rx'.rx_data = rx.rx_data
    BY <1>1, <1>3, Sampled, FlushEdge
  <1>5. Empty'
    BY <1>1, <1>4 DEF Empty
  <1>6. Receiving'
    BY <1>2, <1>4, <1>5 DEF Receiving, Empty, Taken, MiddleSum
  <1>7. HasBits'
    BY <1>5 DEF HasBits, Empty
  <1>8. QED
    BY <1>4, <1>6, <1>7 DEF Phase

\* One sample of the data bits later.
LEMMA ReceivingTime ==
  ASSUME Busy, Clocks, NEW lo \in Nat, lo <= 18 + 16 * LastBit,
         Fewest <= lo + 3, lo <= Most
  PROVE  /\ Fewest' \in Int /\ Most' \in Int
         /\ Fewest' <= lo + 4 /\ lo + 1 <= Most'
  <1>1. Fewest \in Int /\ LastBit \in 5 .. 9
    BY OnTheLine
  <1>2. Fewest <= 21 + 16 * LastBit /\ TypeOK /\ TxInv /\ Place >= 0
    BY <1>1 DEF Busy
  <1>3. /\ Fewest \in Int /\ Most \in Int /\ Fewest' \in Int /\ Most' \in Int
        /\ Fewest' <= Fewest + 1 /\ Most + 1 <= Most'
    BY <1>2, TimePasses
  <1>4. QED
    BY <1>1, <1>3

\* A sample that counts is taken while the bit that it decides is on the line.
LEMMA RightBit ==
  ASSUME Busy, MaxSlips <= 7, Receiving, rx.count_bits < configs.data, Rx!InMiddle
  PROVE  Place = rx.count_bits + 1
  <1> DEFINE n == rx.count_bits
             p == rx.count_sample_points
  <1>1. /\ n \in Nat /\ p \in 6 .. 11 /\ Place \in Nat /\ sample \in 0 .. 16
        /\ Fewest = 16 * Place + sample
    BY OnTheLine DEF Busy, TypeOK, Rx!RxType, Rx!InMiddle
  <1>2. slips \in 0 .. 7
    <2>1. slips \in Nat /\ slips <= MaxSlips /\ MaxSlips \in Nat
      BY LinkAssumption DEF Busy, TypeOK
    <2>2. QED
      BY <2>1
  <1>3. /\ Fewest <= 17 + 16 * n + p + 3
        /\ 17 + 16 * n + p <= Fewest + slips - (IF sample = 16 THEN 1 ELSE 0)
    BY DEF Receiving, Taken, Most
  <1> HIDE DEF n, p
  <1>4. Place <= n + 1
    BY <1>1, <1>3
  <1>5. Place >= n + 1
    BY <1>1, <1>2, <1>3
  <1>6. QED
    BY <1>1, <1>4, <1>5 DEF n

\* A sample of a data bit, and the end of the bit.
LEMMA DataMoves ==
  ASSUME Busy, Clocks, MaxSlips <= 7, HasBits, Receiving, rx.count_bits < configs.data
  PROVE  /\ rx' \in Rx!RxType /\ rx'.done = rx.done /\ rx'.rx_data = rx.rx_data
         /\ Phase'
  <1> DEFINE n == rx.count_bits
             p == rx.count_sample_points
             t == 17 + 16 * n + p
             b == sent[n + 1]
             m == IF p <= 6 THEN 0 ELSE IF p <= 12 THEN (p - 6) * b ELSE 6 * b
  <1>1. /\ rx.state = "RECV_DATA" /\ ~rx.check_done
        /\ rx.sample_points_sum = m
        /\ Fewest <= t + 3 /\ t <= Most
    BY DEF Receiving, Taken, MiddleSum
  <1>2. /\ configs.data \in 5 .. 8 /\ LastBit \in configs.data .. configs.data + 1
        /\ n \in 0 .. configs.data - 1 /\ p \in 0 .. 15
        /\ configs' = configs
    BY OnTheLine, Sampled DEF Busy, TypeOK, Rx!RxType
  <1>3. sent \in Data(configs.data) /\ b \in Bit
    <2>1. sent \in Words(configs) /\ Words(configs) \subseteq [1 .. configs.data -> Bit]
      BY LinkAssumption DEF Busy, TypeOK
    <2>2. QED
      BY <1>2, <2>1
  <1>4. /\ Fewest' \in Int /\ Most' \in Int
        /\ Fewest' <= t + 4 /\ t + 1 <= Most'
    <2>1. t \in Nat /\ t <= 18 + 16 * LastBit
      BY <1>2
    <2> HIDE DEF t
    <2>2. QED
      BY <1>1, <2>1, ReceivingTime
  <1> HIDE DEF n, p, b, m
  <1>5. CASE Rx!Sample(tx.uart_tx)
    <2>1. Rx!InMiddle <=> p \in 6 .. 11
      BY DEF Rx!InMiddle, p
    <2>2. Rx!InMiddle => tx.uart_tx = b /\ m <= 5
      <3>1. Rx!InMiddle => Place = n + 1 /\ Place \in 1 .. configs.data
        BY <1>2, RightBit DEF n
      <3>2. Rx!InMiddle => tx.uart_tx = b
        BY <3>1, OnTheLine DEF b
      <3>3. p \in 6 .. 11 => m <= 5
        BY <1>2, <1>3 DEF m
      <3>4. QED
        BY <2>1, <3>2, <3>3
    <2>3. /\ rx' \in Rx!RxType /\ p \in 0 .. 14
          /\ rx'.state = Rx!NextState
          /\ rx'.sample_points_sum = IF p \in 6 .. 11 THEN m + tx.uart_tx ELSE m
          /\ rx'.count_sample_points = p + 1
          /\ rx'.done = rx.done /\ rx'.check_done = rx.check_done
          /\ rx'.count_bits = n /\ rx'.rx_data = rx.rx_data
          /\ rx'.data_buffer = rx.data_buffer
      <3>1. Rx!InMiddle => rx.sample_points_sum <= 5
        BY <1>1, <2>2
      <3>2. QED
        BY <1>1, <1>5, <2>1, <3>1, Sampled, SampleEdge DEF p, n
    <2>4. rx'.state = "RECV_DATA"
      BY <1>1, <1>2, <2>3, Sampled, NextStates DEF n
    <2>5. rx'.sample_points_sum = IF p + 1 <= 6 THEN 0
                                  ELSE IF p + 1 <= 12 THEN (p + 1 - 6) * b ELSE 6 * b
      <3>1. CASE b = 0
        BY <1>2, <2>1, <2>2, <2>3, <3>1 DEF m
      <3>2. CASE b = 1
        BY <1>2, <2>1, <2>2, <2>3, <3>2 DEF m
      <3>3. QED
        BY <1>3, <3>1, <3>2
    <2>6. sent' = sent
      BY <2>3, Sampled
    <2>7. Receiving'
      <3>1. /\ rx'.count_bits < configs'.data /\ (sent')[rx'.count_bits + 1] = b
            /\ 17 + 16 * rx'.count_bits + rx'.count_sample_points = t + 1
        BY <1>2, <2>3, <2>6 DEF b
      <3>2. rx'.sample_points_sum = MiddleSum(sent[rx.count_bits + 1])'
        BY <1>2, <2>3, <2>5, <3>1 DEF MiddleSum
      <3>3. (Taken(17 + 16 * rx.count_bits + rx.count_sample_points,
                   17 + 16 * rx.count_bits + rx.count_sample_points + 3))'
        BY <1>2, <1>4, <3>1 DEF Taken
      <3>4. QED
        BY <1>1, <2>3, <2>4, <3>1, <3>2, <3>3 DEF Receiving
    <2>8. HasBits'
      BY <2>3, <2>6 DEF HasBits, n
    <2>9. QED
      BY <2>3, <2>7, <2>8 DEF Phase
  <1>6. CASE Rx!DataBit
    <2>1. /\ rx' \in Rx!RxType
          /\ p = 15 /\ rx'.state = "RECV_DATA"
          /\ rx'.count_bits = n + 1
          /\ rx'.count_sample_points = 0 /\ rx'.sample_points_sum = 0
          /\ rx'.done = rx.done /\ rx'.check_done = rx.check_done /\ rx'.rx_data = rx.rx_data
          /\ \A k \in 1 .. configs.data :
               rx'.data_buffer[k] = IF k = n + 1 THEN Rx!Majority(rx.data_buffer[k])
                                    ELSE rx.data_buffer[k]
      BY <1>2, <1>6, Sampled, DataEdge DEF p, n
    <2>2. sent' = sent
      BY <2>1, Sampled
    <2>3. \A x : Rx!Majority(x) = b
      <3>1. m = 6 * b
        BY <2>1 DEF m
      <3>2. QED
        BY <1>1, <1>3, <3>1 DEF Rx!Majority
    <2>4. Receiving'
      <3>1. 17 + 16 * rx'.count_bits + rx'.count_sample_points = t + 1
        BY <1>2, <2>1
      <3>2. MiddleSum(sent[rx.count_bits + 1])' = 0
        BY <2>1 DEF MiddleSum
      <3>3. (Taken(17 + 16 * rx.count_bits + rx.count_sample_points,
                   17 + 16 * rx.count_bits + rx.count_sample_points + 3))'
        BY <1>2, <1>4, <2>1, <3>1 DEF Taken
      <3>4. QED
        BY <1>1, <2>1, <3>2, <3>3 DEF Receiving
    <2>5. HasBits'
      <3>1. \A k \in 1 .. n : rx.data_buffer[k] = sent[k]
        BY DEF HasBits, n
      <3>2. \A k \in 1 .. n + 1 : rx'.data_buffer[k] = sent[k]
        BY <1>2, <2>1, <2>3, <3>1 DEF b
      <3>3. QED
        BY <2>1, <2>2, <3>2 DEF HasBits
    <2>6. QED
      BY <2>1, <2>4, <2>5 DEF Phase
  <1>7. QED
    BY <1>1, <1>5, <1>6, Sampled

\* The last data bit is over: a parity bit follows it, or none.
LEMMA LastMoves ==
  ASSUME Busy, Clocks, HasBits, Receiving, ~(rx.count_bits < configs.data)
  PROVE  /\ rx' \in Rx!RxType /\ rx'.done = rx.done /\ rx'.rx_data = rx.rx_data
         /\ Phase'
  <1> DEFINE t == 17 + 16 * configs.data
  <1>1. /\ configs.data \in 5 .. 8 /\ rx.count_bits = configs.data
        /\ LastBit = IF configs.check = "none" THEN configs.data ELSE configs.data + 1
        /\ configs' = configs /\ LastBit' = LastBit
    <2>1. configs.data \in 5 .. 8 /\ configs' = configs
      BY OnTheLine, Sampled
    <2>2. rx.count_bits \in 0 .. configs.data
      BY DEF Busy, TypeOK, Rx!RxType
    <2>3. LastBit = IF configs.check = "none" THEN configs.data ELSE configs.data + 1
      BY DEF LastBit
    <2>4. LastBit' = LastBit
      BY <2>1 DEF LastBit
    <2>5. QED
      BY <2>1, <2>2, <2>3, <2>4
  <1>2. /\ rx.state = "RECV_DATA" /\ ~rx.check_done
        /\ rx.count_sample_points = 0 /\ rx.sample_points_sum = 0
        /\ Fewest <= t + 3 /\ t <= Most
    BY <1>1 DEF Receiving, Taken
  <1>3. /\ Fewest' \in Int /\ Most' \in Int
        /\ Fewest' <= t + 4 /\ t + 1 <= Most'
    <2>1. t \in Nat /\ t <= 18 + 16 * LastBit
      BY <1>1
    <2> HIDE DEF t
    <2>2. QED
      BY <1>2, <2>1, ReceivingTime
  <1>4. Rx!Sample(tx.uart_tx)
    <2>1. ~Rx!DataBit
      BY <1>2 DEF Rx!DataBit
    <2>2. QED
      BY <1>2, <2>1, Sampled
  <1>5. /\ rx' \in Rx!RxType
        /\ rx'.state = IF configs.check = "none" THEN "FINISH" ELSE "CHECK"
        /\ rx'.sample_points_sum = 0 /\ rx'.count_sample_points = 1
        /\ rx'.done = rx.done /\ rx'.check_done = rx.check_done
        /\ rx'.count_bits = configs.data /\ rx'.rx_data = rx.rx_data
        /\ rx'.data_buffer = rx.data_buffer
    <2>1. ~Rx!InMiddle
      BY <1>2 DEF Rx!InMiddle
    <2>2. Rx!NextState = IF configs.check = "none" THEN "FINISH" ELSE "CHECK"
      BY <1>1, <1>2, Sampled, NextStates
    <2>3. QED
      BY <1>1, <1>2, <1>4, <2>1, <2>2, Sampled, SampleEdge
  <1>6. sent' = sent
    BY <1>5, Sampled
  <1>7. HasBits'
    BY <1>1, <1>5, <1>6 DEF HasBits
  <1>8. CASE configs.check = "none"
    <2>1. Finishing'
      BY <1>1, <1>3, <1>5, <1>8 DEF Finishing, Taken
    <2>2. QED
      BY <1>5, <1>7, <2>1 DEF Phase
  <1>9. CASE configs.check # "none"
    <2>1. Checking'
      BY <1>1, <1>2, <1>3, <1>5, <1>9 DEF Checking, Taken, MiddleSum
    <2>2. QED
      BY <1>5, <1>7, <2>1 DEF Phase
  <1>10. QED
    BY <1>8, <1>9

\* The parity bit.
LEMMA ParityMoves ==
  ASSUME Busy, Clocks, HasBits, Checking
  PROVE  /\ rx' \in Rx!RxType /\ rx'.done = rx.done /\ rx'.rx_data = rx.rx_data
         /\ Phase'
  <1> DEFINE t == 17 + 16 * LastBit
             p == rx.count_sample_points
  <1>1. /\ rx.state = "CHECK" /\ configs.check # "none" /\ rx.count_bits = configs.data
        /\ p \in 0 .. 15
        /\ configs.data \in 5 .. 8 /\ LastBit = configs.data + 1
        /\ configs' = configs /\ LastBit' = LastBit
    BY OnTheLine, Sampled DEF Checking, Busy, TypeOK, Rx!RxType, LastBit
  <1>2. t - 16 + p \in Nat /\ t - 16 + p <= 18 + 16 * LastBit
        /\ t \in Nat /\ t <= 18 + 16 * LastBit
    BY <1>1
  <1>3. CASE rx.check_done
    <2>1. p = 0 /\ rx.sample_points_sum = 0 /\ Fewest <= t + 3 /\ t <= Most
      BY <1>3 DEF Checking, Taken
    <2>2. /\ Fewest' \in Int /\ Most' \in Int
          /\ Fewest' <= t + 4 /\ t + 1 <= Most'
      <3> HIDE DEF t
      <3>1. QED
        BY <1>2, <2>1, ReceivingTime
    <2>3. Rx!Sample(tx.uart_tx)
      <3>1. ~Rx!ParityBit
        BY <2>1 DEF Rx!ParityBit
      <3>2. QED
        BY <1>1, <3>1, Sampled
    <2>4. /\ rx' \in Rx!RxType /\ rx'.state = "FINISH"
          /\ rx'.done = rx.done /\ rx'.count_bits = configs.data
          /\ rx'.rx_data = rx.rx_data /\ rx'.data_buffer = rx.data_buffer
      <3>1. ~Rx!InMiddle
        BY <2>1 DEF Rx!InMiddle
      <3>2. Rx!NextState = "FINISH"
        BY <1>1, <1>3, Sampled, NextStates
      <3>3. QED
        BY <1>1, <2>3, <3>1, <3>2, Sampled, SampleEdge
    <2>5. sent' = sent
      BY <2>4, Sampled
    <2>6. HasBits'
      BY <1>1, <2>4, <2>5 DEF HasBits
    <2>7. Finishing'
      BY <1>1, <2>2, <2>4 DEF Finishing, Taken
    <2>8. QED
      BY <2>4, <2>6, <2>7 DEF Phase
  <1>4. CASE ~rx.check_done
    <2> DEFINE m == IF p <= 6 THEN 0 ELSE IF p <= 12 THEN (p - 6) * 1 ELSE 6 * 1
    <2>1. /\ p > 0 /\ rx.sample_points_sum <= m
          /\ Fewest <= t - 16 + p + 3 /\ t - 16 + p <= Most
      <3>1. p > 0 /\ rx.sample_points_sum <= MiddleSum(1) /\ Taken(t - 16 + p, t - 13 + p)
        BY <1>4 DEF Checking
      <3>2. t - 13 + p = t - 16 + p + 3
        BY <1>1
      <3>3. QED
        BY <3>1, <3>2 DEF Taken, MiddleSum
    <2>2. /\ Fewest' \in Int /\ Most' \in Int
          /\ Fewest' <= t - 16 + p + 4 /\ t - 16 + p + 1 <= Most'
      <3> DEFINE lo == t - 16 + p
      <3>1. lo \in Nat /\ lo <= 18 + 16 * LastBit /\ Fewest <= lo + 3 /\ lo <= Most
        BY <1>2, <2>1
      <3> HIDE DEF lo
      <3>2. /\ Fewest' \in Int /\ Most' \in Int
            /\ Fewest' <= lo + 4 /\ lo + 1 <= Most'
        BY <3>1, ReceivingTime
      <3>3. QED
        BY <3>2 DEF lo
    <2>3. rx.sample_points_sum \in 0 .. 6
      BY DEF Busy, TypeOK, Rx!RxType
    <2> HIDE DEF p, t
    <2>4. CASE Rx!Sample(tx.uart_tx)
      <3>1. Rx!InMiddle <=> p \in 6 .. 11
        BY DEF Rx!InMiddle, p
      <3>2. Rx!InMiddle => rx.sample_points_sum <= 5
        BY <1>1, <2>1, <2>3, <3>1
      <3>3. /\ rx' \in Rx!RxType /\ p \in 0 .. 14 /\ rx'.state = "CHECK"
            /\ rx'.sample_points_sum = IF p \in 6 .. 11 THEN rx.sample_points_sum + tx.uart_tx
                                       ELSE rx.sample_points_sum
            /\ rx'.count_sample_points = p + 1
            /\ rx'.done = rx.done /\ rx'.check_done = rx.check_done
            /\ rx'.count_bits = configs.data /\ rx'.rx_data = rx.rx_data
            /\ rx'.data_buffer = rx.data_buffer
        <4>1. Rx!NextState = "CHECK"
          BY <1>1, <1>4, Sampled, NextStates
        <4>2. QED
          BY <1>1, <2>4, <3>1, <3>2, <4>1, Sampled, SampleEdge DEF p
      <3>4. sent' = sent
        BY <3>3, Sampled
      <3>5. HasBits'
        BY <1>1, <3>3, <3>4 DEF HasBits
      <3>6. Checking'
        <4>1. rx'.sample_points_sum <= IF p + 1 <= 6 THEN 0
                                       ELSE IF p + 1 <= 12 THEN (p + 1 - 6) * 1 ELSE 6 * 1
          <5>1. tx.uart_tx \in {0, 1}
            BY Sampled
          <5>2. QED
            BY <1>1, <2>1, <2>3, <3>3, <5>1
        <4>2. rx'.sample_points_sum <= MiddleSum(1)'
          BY <3>3, <4>1 DEF MiddleSum
        <4>3. (Taken(17 + 16 * LastBit - 16 + rx.count_sample_points,
                     17 + 16 * LastBit - 13 + rx.count_sample_points))'
          BY <1>1, <2>2, <3>3 DEF Taken, t
        <4>4. rx'.count_sample_points > 0
          BY <1>1, <3>3
        <4>5. QED
          BY <1>1, <1>4, <3>3, <4>2, <4>3, <4>4 DEF Checking
      <3>7. QED
        BY <3>3, <3>5, <3>6 DEF Phase
    <2>5. CASE Rx!ParityBit
      <3>1. /\ rx' \in Rx!RxType /\ p = 15 /\ rx'.state = "CHECK"
            /\ rx'.count_sample_points = 0 /\ rx'.sample_points_sum = 0
            /\ rx'.check_done = TRUE /\ rx'.done = rx.done
            /\ rx'.count_bits = configs.data /\ rx'.rx_data = rx.rx_data
            /\ rx'.data_buffer = rx.data_buffer
        BY <1>1, <1>4, <2>5, Sampled, ParityEdge DEF p
      <3>2. sent' = sent
        BY <3>1, Sampled
      <3>3. HasBits'
        BY <1>1, <3>1, <3>2 DEF HasBits
      <3>4. Checking'
        <4>1. (Taken(17 + 16 * LastBit, 17 + 16 * LastBit + 3))'
          BY <1>1, <2>2, <3>1 DEF Taken, t
        <4>2. QED
          BY <1>1, <3>1, <4>1 DEF Checking
      <3>5. QED
        BY <3>1, <3>3, <3>4 DEF Phase
    <2>6. QED
      BY <1>1, <2>4, <2>5, Sampled
  <1>5. QED
    BY <1>3, <1>4

\* The word is handed over while its last bit or a stop bit is on the line.
LEMMA Delivers ==
  ASSUME Busy, Clocks, MaxSlips <= 7, HasBits, Finishing
  PROVE  /\ rx' \in Rx!RxType /\ rx'.done = TRUE /\ rx'.rx_data = sent
         /\ sent' = None /\ tag' = 1 - tag
         /\ Resting' /\ Place' >= LastBit'
  <1> DEFINE t == 18 + 16 * LastBit
  <1>1. /\ rx.state = "FINISH" /\ rx.count_bits = configs.data
        /\ Fewest <= t + 3 /\ t <= Most
        /\ configs.data \in 5 .. 8 /\ LastBit \in 5 .. 9
        /\ configs' = configs /\ LastBit' = LastBit
    BY OnTheLine, Sampled DEF Finishing, Taken
  <1>2. /\ Fewest' \in Int /\ Most' \in Int
        /\ Fewest' <= t + 4 /\ t + 1 <= Most'
    <2>1. t \in Nat /\ t <= 18 + 16 * LastBit
      BY <1>1
    <2> HIDE DEF t
    <2>2. QED
      BY <1>1, <2>1, ReceivingTime
  <1>3. /\ rx' \in Rx!RxType /\ rx'.state = "IDLE" /\ rx'.done = TRUE
        /\ rx'.is_start = FALSE /\ rx'.recv = FALSE /\ rx'.check_done = FALSE
        /\ rx'.count_start = 0 /\ rx'.count_start_valid = 0
        /\ rx'.sample_points_sum = 0 /\ rx'.count_sample_points = 0 /\ rx'.count_bits = 0
        /\ rx'.rx_data = rx.data_buffer
    BY <1>1, Sampled, FinishEdge
  <1>4. rx.data_buffer = sent
    <2>1. \A k \in 1 .. configs.data : rx.data_buffer[k] = sent[k]
      BY <1>1 DEF HasBits
    <2>2. rx.data_buffer \in [1 .. configs.data -> Bit]
      BY DEF Busy, TypeOK, Rx!RxType
    <2>3. sent \in [1 .. configs.data -> Bit]
      <3>1. sent \in Words(configs) /\ Words(configs) \subseteq [1 .. configs.data -> Bit]
        BY LinkAssumption DEF Busy, TypeOK
      <3>2. QED
        BY <3>1
    <2>4. /\ rx.data_buffer = [k \in 1 .. configs.data |-> rx.data_buffer[k]]
          /\ sent = [k \in 1 .. configs.data |-> sent[k]]
      BY <2>2, <2>3
    <2>5. QED
      BY <2>1, <2>4
  <1>5. sent' = None /\ tag' = 1 - tag
    BY <1>3, Edge DEF Busy, Receive
  <1>6. /\ Place' \in Nat /\ sample' \in 0 .. 16 /\ slips' \in 0 .. 7
        /\ Fewest' = 16 * Place' + sample'
        /\ Most' = Fewest' + slips' - (IF sample' = 16 THEN 1 ELSE 0)
    <2>1. Place' \in {Place, Place + 1} /\ Place \in Nat
      <3>1. Fewest <= 21 + 16 * LastBit /\ TypeOK /\ TxInv /\ Place >= 0
        BY <1>1, OnTheLine DEF Busy
      <3>2. QED
        BY <3>1, TimePasses, OnTheLine
    <2>2. slips \in Nat /\ slips <= MaxSlips /\ MaxSlips \in Nat /\ sample \in 0 .. 16
      BY LinkAssumption, Edge DEF Busy
    <2>3. sample' \in 0 .. 16 /\ slips' \in 0 .. 7
      BY <2>2 DEF Clocks, SampleTick, BitTick
    <2>4. QED
      BY <2>1, <2>3 DEF Fewest, Most
  <1>7. Place' >= LastBit /\ (Place' = LastBit => sample' >= 12)
    <2>1. ASSUME NEW l \in 5 .. 9, NEW p \in Nat, NEW s \in 0 .. 16, NEW z \in 0 .. 7,
                 19 + 16 * l <= 16 * p + s + z - (IF s = 16 THEN 1 ELSE 0)
          PROVE  p >= l /\ (p = l => s >= 12)
      <3>1. p < l => 16 * p <= 16 * l - 16
        OBVIOUS
      <3>2. QED
        BY <2>1, <3>1
    <2>2. 19 + 16 * LastBit <= Most'
      BY <1>1, <1>2
    <2>3. 19 + 16 * LastBit
            <= 16 * Place' + sample' + slips' - (IF sample' = 16 THEN 1 ELSE 0)
      BY <1>6, <2>2
    <2>4. QED
      BY <1>1, <1>6, <2>1, <2>3
  <1>8. Resting'
    <2>1. Hunting'
      BY <1>3 DEF Hunting, Empty
    <2>2. FewLows'
      BY <1>1, <1>3, <1>6, <1>7 DEF FewLows
    <2>3. rx_en'
      BY Edge DEF Busy
    <2>4. QED
      BY <1>3, <2>1, <2>2, <2>3 DEF Resting
  <1>9. QED
    BY <1>1, <1>3, <1>4, <1>5, <1>7, <1>8

--------------------------------------------------------------------------------
(* Every edge of either clock.                                             *)

\* What an edge does to the word on the way: nothing, or it delivers it.
Kept == rx'.done = rx.done /\ rx'.rx_data = rx.rx_data /\ sent' = sent /\ tag' = tag
Delivered ==
  /\ sent # None /\ sent' = None /\ tag' = 1 - tag
  /\ rx'.rx_data = sent /\ rx'.done = TRUE

\* The receiver is through with the frame before the transmitter is.
LEMMA InTime ==
  ASSUME Busy, Phase
  PROVE  Fewest <= 21 + 16 * LastBit
  <1>1. /\ configs.data \in 5 .. 8 /\ LastBit \in configs.data .. configs.data + 1
        /\ Fewest \in Nat
    BY OnTheLine
  <1>2. /\ rx.count_start_valid \in 0 .. 8 /\ rx.count_start \in 0 .. 8
        /\ rx.count_empty \in 0 .. 16
        /\ rx.count_bits \in 0 .. configs.data /\ rx.count_sample_points \in 0 .. 15
    BY DEF Busy, TypeOK, Rx!RxType
  <1>3. CASE Falling \/ Deciding \/ Found \/ Flushing \/ Flushed
    <2>1. Fewest <= 30
      BY <1>1, <1>2, <1>3 DEF Falling, Deciding, Found, Flushing, Flushed, Taken
    <2>2. QED
      BY <1>1, <2>1
  <1>4. CASE Receiving
    <2>1. Fewest <= 17 + 16 * rx.count_bits + rx.count_sample_points + 3
      BY <1>4 DEF Receiving, Taken
    <2>2. rx.count_bits < configs.data \/ rx.count_sample_points = 0
      BY <1>4 DEF Receiving
    <2>3. QED
      BY <1>1, <1>2, <2>1, <2>2
  <1>5. CASE Checking
    <2>1. rx.check_done => Fewest <= 17 + 16 * LastBit + 3
      BY <1>5 DEF Checking, Taken
    <2>2. ~rx.check_done => Fewest <= 17 + 16 * LastBit - 13 + rx.count_sample_points
      BY <1>1, <1>2, <1>5 DEF Checking, Taken
    <2>3. QED
      BY <1>1, <1>2, <2>1, <2>2
  <1>6. CASE Finishing
    BY <1>1, <1>6 DEF Finishing, Taken
  <1>7. QED
    BY <1>3, <1>4, <1>5, <1>6 DEF Phase

\* A frame on the line stays there until its word is delivered.
LEMMA BusyMoves ==
  ASSUME Busy, Clocks, MaxSlips <= 7, Phase
  PROVE  /\ rx' \in Rx!RxType
         /\ BitTick => tx.state \notin {"IDLE", "FINISH"}
         /\ \/ Kept /\ Phase' /\ Place' >= 0
            \/ Delivered /\ Resting' /\ Place' >= LastBit'
  <1>1. Place' \in {Place, Place + 1} /\ (BitTick => tx.state \notin {"IDLE", "FINISH"})
    BY InTime, TimePasses DEF Busy
  <1>2. Place' >= 0
    BY <1>1, OnTheLine
  <1>3. CASE HasBits /\ Finishing
    BY <1>1, <1>3, Delivers DEF Delivered, Busy
  <1>4. CASE ~(HasBits /\ Finishing)
    <2>1. /\ rx' \in Rx!RxType /\ rx'.done = rx.done /\ rx'.rx_data = rx.rx_data
          /\ Phase'
      BY <1>4, FallingMoves, DecidingMoves, FoundMoves, FlushingMoves, FlushedMoves,
         DataMoves, LastMoves, ParityMoves DEF Phase
    <2>2. Kept
      BY <2>1, Sampled DEF Kept
    <2>3. QED
      BY <1>1, <1>2, <2>1, <2>2
  <1>5. QED
    BY <1>3, <1>4

\* A sample of an enabled receiver that hunts, and what is left of earlier ones.
LEMMA HuntingMoves ==
  ASSUME TypeOK, Clocks, Hunting, rx_en, ~rx.done, rx.count_start_valid <= 5
  PROVE  /\ rx' \in Rx!RxType /\ Hunting' /\ Kept
         /\ \/ /\ rx.count_start \in 0 .. 7 /\ rx'.count_start = rx.count_start + 1
               /\ rx'.count_start_valid = rx.count_start_valid + 1 - tx.uart_tx
               /\ rx'.count_empty = rx.count_empty
            \/ /\ rx.count_start = 8 /\ rx'.count_start = 0
               /\ rx'.count_start_valid = 0 /\ rx'.count_empty = rx.count_start_valid
  <1>1. /\ rx.state = "IDLE" /\ ~rx.is_start /\ ~rx.recv /\ Empty
        /\ rx.count_start_valid <= rx.count_start
    BY DEF Hunting
  <1>2. rx.count_start_valid \in 0 .. 5 /\ rx.count_start \in 0 .. 8 /\ tx.uart_tx \in {0, 1}
    BY Edge DEF Rx!RxType
  <1>3. Rx!Search(tx.uart_tx) \/ Rx!Judge
    <2>1. Rx!Step(rx_en, tx.uart_tx)
      BY Edge DEF Receive
    <2>2. QED
      BY <1>1, <2>1 DEF Rx!Step, Rx!Search, Rx!Judge, Rx!Flush, Rx!Sample, Rx!DataBit,
         Rx!ParityBit, Rx!Finish
  <1>4. rx'.done = rx.done => sent' = sent /\ tag' = tag
    BY Edge DEF Receive
  <1>5. CASE Rx!Search(tx.uart_tx)
    <2>1. /\ rx' \in Rx!RxType /\ rx'.state = "IDLE" /\ rx.count_start \in 0 .. 7
          /\ rx'.count_start = rx.count_start + 1
          /\ rx'.count_start_valid = rx.count_start_valid + 1 - tx.uart_tx
          /\ rx'.is_start = rx.is_start /\ rx'.recv = rx.recv /\ rx'.done = rx.done
          /\ rx'.check_done = rx.check_done /\ rx'.count_empty = rx.count_empty
          /\ rx'.sample_points_sum = rx.sample_points_sum
          /\ rx'.count_sample_points = rx.count_sample_points
          /\ rx'.count_bits = rx.count_bits /\ rx'.rx_data = rx.rx_data
      BY <1>1, <1>5, Edge, SearchEdge
    <2>2. Hunting'
      BY <1>1, <1>2, <2>1 DEF Hunting, Empty
    <2>3. QED
      BY <1>4, <2>1, <2>2 DEF Kept
  <1>6. CASE Rx!Judge
    <2>1. rx.count_start_valid # 8
      BY <1>2
    <2>2. /\ rx' \in Rx!RxType /\ rx'.state = "IDLE" /\ rx.count_start = 8
          /\ ~rx'.is_start /\ rx'.count_empty = rx.count_start_valid
          /\ rx'.count_start = 0 /\ rx'.count_start_valid = 0
          /\ rx'.recv = rx.recv /\ rx'.done = rx.done /\ rx'.check_done = rx.check_done
          /\ rx'.sample_points_sum = rx.sample_points_sum
          /\ rx'.count_sample_points = rx.count_sample_points
          /\ rx'.count_bits = rx.count_bits /\ rx'.rx_data = rx.rx_data
      BY <1>1, <1>6, <2>1, Edge, JudgeEdge
    <2>3. Hunting'
      BY <1>1, <2>2 DEF Hunting, Empty
    <2>4. QED
      BY <1>4, <2>2, <2>3 DEF Kept
  <1>7. QED
    BY <1>3, <1>5, <1>6

\* An edge before the line falls.
LEMMA WaitingMoves ==
  ASSUME TypeOK, TxInv, Handshake, Clocks, sent # None, Place = -1, rx_en, ~rx.done, Waiting
  PROVE  /\ rx' \in Rx!RxType /\ Kept
         /\ BitTick => tx.state # "FINISH"
         /\ Place' = -1 => Waiting'
         /\ Place' # -1 => Place' = 0 /\ Falling'
  <1>1. /\ sample \in 0 .. 16 /\ slips \in Nat /\ configs' = configs
        /\ rx.count_start \in 0 .. 8 /\ rx.count_empty \in 0 .. 16
        /\ rx.count_start_valid \in 0 .. 5
        /\ LastBit \in 5 .. 9 /\ configs.stop \in 1 .. 2
    BY Edge, Config DEF Waiting, Rx!RxType
  <1>2. tx.state \in {"IDLE", "START"} /\ tx.uart_tx = 1
    <2>1. tx.count_bit \in Nat /\ tx.state \in Tx!TxStates
      BY Edge, Config DEF Tx!TxType
    <2>2. tx.state \in {"IDLE", "START"}
      BY <1>1, <2>1, Config, Edge DEF Place, Tx!TxStates
    <2>3. QED
      BY <2>2 DEF TxInv, Level
  <1>3. /\ rx' \in Rx!RxType /\ Hunting' /\ Kept
        /\ \/ /\ rx.count_start \in 0 .. 7 /\ rx'.count_start = rx.count_start + 1
              /\ rx'.count_start_valid = rx.count_start_valid
              /\ rx'.count_empty = rx.count_empty
           \/ /\ rx.count_start = 8 /\ rx'.count_start = 0
              /\ rx'.count_start_valid = 0 /\ rx'.count_empty = rx.count_start_valid
    BY <1>1, <1>2, HuntingMoves DEF Waiting
  <1> DEFINE k == IF tx.state = "START" THEN 0 ELSE IF tx.send THEN 16 ELSE 32
             ahead == (IF sample >= 15 THEN 1 ELSE 16 - sample) + k
             stale == IF rx.count_start_valid > 0 THEN 18 - rx.count_start
                      ELSE IF rx.count_empty > 0 THEN 9 - rx.count_start ELSE 0
  <1>4. stale <= ahead /\ ahead \in Nat /\ k \in {0, 16, 32}
    BY <1>1 DEF Waiting, Stale, Ahead
  <1>5. Stale' <= stale - 1 \/ Stale' <= 0
    BY <1>1, <1>3 DEF Stale
  <1>6. rx'.count_start_valid <= 5
    BY <1>1, <1>3
  <1>7. Stale' \in Int /\ stale \in Int
    BY <1>1, <1>3 DEF Stale
  <1>8. CASE SampleTick
    <2>1. /\ tx' = tx /\ Place' = -1 /\ sample' = sample + 1 /\ sample < 16 /\ ~BitTick
      BY <1>1, <1>8 DEF SampleTick, BitTick, Place, LastBit
    <2>2. Ahead' >= ahead - 1 /\ Ahead' \in Nat
      BY <1>1, <1>4, <2>1 DEF Ahead
    <2> HIDE DEF ahead, stale
    <2>3. Stale' <= Ahead'
      BY <1>4, <1>5, <1>7, <2>2
    <2>4. QED
      BY <1>3, <1>6, <2>1, <2>3 DEF Waiting
  <1>9. CASE BitTick
    <2>1. sample >= 15 /\ sample' = 0 /\ Tx!Step(tx_en, data)
      BY <1>9 DEF BitTick
    <2>2. tx_en /\ ~tx.done
      BY <1>2 DEF Handshake, TxInv
    <2>3. CASE tx.state = "START"
      <3>1. Place' = 0 /\ slips' = slips
        BY <1>2, <1>9, <2>1, <2>3, Edge, PlaceMoves DEF BitTick
      <3>2. k = 0
        BY <2>3
      <3>3. ahead = 1
        BY <1>1, <2>1, <3>2
      <3>4. rx'.count_start_valid = 0 /\ rx'.count_empty = 0
        BY <1>1, <1>3, <1>4, <3>3
      <3>5. Falling'
        BY <1>1, <1>3, <2>1, <3>1, <3>4 DEF Falling, Taken, Fewest, Most
      <3>6. QED
        BY <1>3, <2>3, <3>1, <3>5
    <2>4. CASE tx.state = "IDLE"
      <3>1. Place' = -1
        BY <2>1, <2>4, Edge, PlaceMoves
      <3>2. tx'.send /\ tx'.state = IF tx.send THEN "START" ELSE "IDLE"
        BY <2>1, <2>2, <2>4, Edge, TxEdge DEF Tx!SendNext, Tx!Active, TxInv
      <3>3. ahead = 1 + k
        BY <1>1, <2>1
      <3>4. Ahead' >= k /\ Ahead' \in Nat
        BY <2>1, <2>4, <3>2 DEF Ahead
      <3> HIDE DEF ahead, stale, k
      <3>5. Stale' <= Ahead'
        BY <1>4, <1>5, <1>7, <3>3, <3>4
      <3>6. QED
        BY <1>3, <1>6, <2>4, <3>1, <3>5 DEF Waiting
    <2>5. QED
      BY <1>2, <2>3, <2>4
  <1>10. QED
    BY <1>8, <1>9, Edge

\* An edge while no word is on the way.
LEMMA RestingMoves ==
  ASSUME TypeOK, TxInv, Handshake, Clocks, sent = None, ~rx_en => ~rx.done, Resting
  PROVE  rx' \in Rx!RxType /\ Kept /\ Resting'
  <1>1. /\ sample \in 0 .. 16 /\ configs' = configs /\ LastBit' = LastBit
        /\ rx.count_start_valid \in 0 .. 5 /\ rx.count_start \in 0 .. 8
        /\ LastBit \in 5 .. 9 /\ configs.stop \in 1 .. 2 /\ rx_en' = rx_en
        /\ tx.uart_tx \in {0, 1}
    BY Edge, Config DEF Resting, FewLows, Rx!RxType
  <1>2. Place = -1 \/ Place > LastBit => tx.uart_tx = 1
    BY DEF TxInv, Level
  <1>3. /\ Place \in Int /\ (Place = -1 \/ Place >= LastBit)
        /\ Place' = LastBit => Place = LastBit /\ sample' = sample + 1
    <2>1. Place \in Int
      BY <1>1, Edge, Config DEF Place, Tx!TxType
    <2>2. Place = -1 \/ Place >= LastBit
      BY DEF Handshake, Place
    <2>3. CASE SampleTick
      BY <2>1, <2>2, <2>3 DEF SampleTick, Place, LastBit
    <2>4. CASE BitTick
      <3>1. Tx!Step(tx_en, data)
        BY <2>4 DEF BitTick
      <3>2. /\ tx.state \in {"IDLE", "FINISH"} => Place' = -1
            /\ tx.state \notin {"IDLE", "FINISH"} => Place' = Place + 1 /\ Place >= LastBit
        BY <3>1, Edge, PlaceMoves DEF Handshake
      <3>3. Place' # LastBit
        BY <1>1, <2>1, <3>2
      <3>4. QED
        BY <2>1, <2>2, <3>3
    <2>5. QED
      BY <2>3, <2>4, Edge
  <1>4. CASE rx_en /\ ~rx.done
    <2>1. /\ rx' \in Rx!RxType /\ Hunting' /\ Kept
          /\ \/ /\ rx.count_start \in 0 .. 7 /\ rx'.count_start = rx.count_start + 1
                /\ rx'.count_start_valid = rx.count_start_valid + 1 - tx.uart_tx
                /\ rx'.count_empty = rx.count_empty
             \/ /\ rx.count_start = 8 /\ rx'.count_start = 0
                /\ rx'.count_start_valid = 0 /\ rx'.count_empty = rx.count_start_valid
      BY <1>1, <1>4, HuntingMoves DEF Resting
    <2>2. Place = LastBit => sample >= 12 + rx.count_start_valid
      BY DEF Resting, FewLows
    <2>3. rx'.count_start_valid <= 5
      <3>1. CASE tx.uart_tx = 1
        BY <1>1, <2>1, <3>1
      <3>2. CASE tx.uart_tx = 0
        <4>1. Place = LastBit
          BY <1>1, <1>2, <1>3, <3>2
        <4>2. QED
          BY <1>1, <2>1, <2>2, <3>2, <4>1
      <3>3. QED
        BY <1>1, <3>1, <3>2
    <2>4. Place' = LastBit => sample' >= 12 + rx'.count_start_valid
      <3>1. CASE Place' = LastBit
        <4>1. sample' = sample + 1 /\ sample >= 12 + rx.count_start_valid
          BY <1>3, <2>2, <3>1
        <4>2. QED
          BY <1>1, <2>1, <4>1
      <3>2. QED
        BY <3>1
    <2>5. rx'.done = FALSE
      BY <1>4, <2>1, Edge DEF Kept, Rx!RxType
    <2>6. QED
      BY <1>1, <2>1, <2>3, <2>4, <2>5 DEF Resting, FewLows
  <1>5. CASE ~(rx_en /\ ~rx.done)
    <2>1. rx' = [rx EXCEPT !.state = Rx!NextState] /\ rx \in Rx!RxType
      BY <1>5, Edge DEF Receive, Rx!Step, Rx!Hold
    <2>2. Rx!NextState = "IDLE" /\ "IDLE" \in Rx!RxStates
      BY Edge, NextStates DEF Resting, Hunting, Rx!RxStates
    <2>3. rx.state = "IDLE"
      BY DEF Resting, Hunting
    <2>4. rx' = rx
      BY <2>1, <2>2, <2>3 DEF Rx!RxType
    <2>5. Kept
      BY <2>4, Edge DEF Kept, Receive
    <2>6. Hunting'
      BY <2>4 DEF Resting, Hunting, Empty
    <2>7. FewLows'
      <3>1. rx.count_start_valid <= 5 /\ (Place = LastBit => sample >= 12 + rx.count_start_valid)
        BY DEF Resting, FewLows
      <3>2. Place' = LastBit => sample' >= 12 + rx.count_start_valid
        BY <1>1, <1>3, <3>1
      <3>3. QED
        BY <1>1, <2>4, <3>1, <3>2 DEF FewLows
    <2>8. QED
      BY <1>1, <2>1, <2>4, <2>5, <2>6, <2>7 DEF Resting
  <1>6. QED
    BY <1>4, <1>5

\* What an edge does to receiver and word, in any case.
LEMMA EdgeDelivers ==
  ASSUME LinkInv, Clocks, MaxSlips <= 7
  PROVE  /\ rx' \in Rx!RxType /\ RxInv' /\ (Kept \/ Delivered)
         /\ BitTick /\ sent # None => tx.state # "FINISH"
         /\ Delivered => Place >= 0 /\ Place' >= LastBit'
  <1>1. TypeOK /\ TxInv /\ Handshake /\ RxInv /\ rx_en' = rx_en /\ rx_en \in BOOLEAN
    BY Edge DEF LinkInv, TypeOK
  <1>2. Place \in Int /\ Place >= -1
    BY <1>1, Edge, Config DEF Place, Tx!TxType
  <1>3. CASE sent = None
    <2>1. rx' \in Rx!RxType /\ Kept /\ Resting'
      BY <1>1, <1>3, RestingMoves DEF RxInv
    <2>2. QED
      BY <1>1, <1>3, <2>1 DEF RxInv, Kept, Delivered
  <1>4. CASE sent # None /\ Place = -1
    <2>1. /\ rx' \in Rx!RxType /\ Kept
          /\ BitTick => tx.state # "FINISH"
          /\ Place' = -1 => Waiting'
          /\ Place' # -1 => Place' = 0 /\ Falling'
      BY <1>1, <1>4, WaitingMoves DEF RxInv
    <2>2. RxInv'
      BY <1>1, <1>4, <2>1 DEF RxInv, Kept, Phase
    <2>3. ~Delivered
      BY <1>4, <2>1 DEF Kept, Delivered
    <2>4. QED
      BY <2>1, <2>2, <2>3
  <1>5. CASE sent # None /\ Place >= 0
    <2>1. Busy /\ Phase
      BY <1>1, <1>5 DEF Busy, RxInv
    <2>2. /\ rx' \in Rx!RxType
          /\ BitTick => tx.state \notin {"IDLE", "FINISH"}
          /\ \/ Kept /\ Phase' /\ Place' >= 0
             \/ Delivered /\ Resting' /\ Place' >= LastBit'
      BY <2>1, BusyMoves
    <2>3. CASE Kept /\ Phase' /\ Place' >= 0
      <3>1. ~Delivered
        BY <1>5, <2>3 DEF Kept, Delivered
      <3>2. ~(Place' = -1)
        BY <2>3
      <3>3. RxInv'
        BY <1>1, <1>5, <2>1, <2>3, <3>2 DEF RxInv, Kept, Busy
      <3>4. QED
        BY <2>2, <2>3, <3>1, <3>3
    <2>4. CASE Delivered /\ Resting' /\ Place' >= LastBit'
      <3>1. RxInv'
        BY <1>1, <2>1, <2>4 DEF RxInv, Delivered, Busy
      <3>2. QED
        BY <1>5, <2>2, <2>4, <3>1
    <2>5. QED
      BY <2>2, <2>3, <2>4
  <1>6. QED
    BY <1>2, <1>3, <1>4, <1>5

\* The words and enables that the two ends have agreed on, at an edge of the bit
\* clock.
LEMMA BitHandshake ==
  ASSUME LinkInv, BitTick, MaxSlips <= 7
  PROVE  Handshake'
  <1>1. /\ Clocks /\ TypeOK /\ TxInv /\ Handshake /\ RxInv
        /\ configs \in LinkConfigs /\ configs' = configs /\ LastBit' = LastBit
        /\ tx \in Tx!TxType /\ tx_en \in BOOLEAN /\ data \in Data(configs.data)
        /\ tx_en' = tx_en /\ data' = data
    BY Edge DEF LinkInv, Clocks
  <1>2. /\ RxInv' /\ (Kept \/ Delivered)
        /\ sent # None => tx.state # "FINISH"
        /\ Delivered => Place >= 0 /\ Place' >= LastBit'
    BY <1>1, EdgeDelivers
  <1>3. Tx!Step(tx_en, data)
    BY DEF BitTick
  <1>4. /\ tx.send \in BOOLEAN /\ tx.done \in BOOLEAN /\ tx.is_idle \in BOOLEAN
        /\ tx.is_idle <=> tx.state \in {"IDLE", "START"}
        /\ tx.state # "IDLE" => tx.send /\ ~tx.done
        /\ tx.done => tx.send
    BY <1>1 DEF Tx!TxType, TxInv, Tx!Active
  <1>5. /\ tx'.send <=> (tx_en /\ tx.is_idle) \/ (tx.send /\ ~Tx!Rearmed(tx_en))
        /\ tx'.done <=> tx.state = "FINISH" \/ (tx.done /\ ~Tx!Rearmed(tx_en))
        /\ tx'.is_idle <=> tx'.state \in {"IDLE", "START"}
        /\ Tx!Rearmed(tx_en) <=> tx.done /\ ~(tx_en /\ tx.is_idle)
    BY <1>1, <1>3, TxEdge DEF Tx!SendNext, Tx!Rearmed
  <1>6. tx'.is_idle => tx.state \in {"IDLE", "FINISH"}
    <2>1. Place' = -1 <=> tx'.state \in {"IDLE", "START"}
      <3>1. tx'.count_bit \in Nat /\ tx'.state \in Tx!TxStates
        BY <1>1, <1>3, TxEdge, Config DEF Tx!TxType
      <3>2. LastBit \in 5 .. 9 /\ configs.stop \in 1 .. 2 /\ configs.data \in 5 .. 8
        BY <1>1, Config
      <3>3. QED
        BY <1>1, <3>1, <3>2 DEF Place, Tx!TxStates
    <2>2. /\ Place \in -1 .. LastBit + configs.stop
          /\ tx.state \notin {"IDLE", "FINISH"} => Place' = Place + 1
      BY <1>1, <1>3, PlaceMoves
    <2>3. LastBit \in 5 .. 9 /\ configs.stop \in 1 .. 2
      BY <1>1, Config
    <2>4. QED
      BY <1>5, <2>1, <2>2, <2>3
  <1>7. sent' # None => sent' = sent /\ sent # None
    BY <1>2 DEF Kept, Delivered
  <1>8. Delivered => tx.state \notin {"IDLE", "START"} /\ sent # None
    BY <1>2 DEF Place, Delivered
  <1>9. sent' # None => ~tx'.done
    BY <1>1, <1>2, <1>5, <1>7 DEF Handshake
  <1>10. sent' # None /\ tx'.is_idle => tx_en' /\ data' = sent'
    BY <1>1, <1>2, <1>4, <1>6, <1>7 DEF Handshake
  <1>11. Tx!Active' /\ tx'.is_idle => sent' # None
    <2> SUFFICES ASSUME tx'.send, ~tx'.done, tx'.is_idle, sent' = None
                 PROVE  FALSE
      BY DEF Tx!Active
    <2>1. tx.state = "IDLE"
      BY <1>5, <1>6
    <2>2. sent = None
      BY <1>2, <1>8, <2>1 DEF Kept
    <2>3. ~(tx.send /\ ~tx.done)
      BY <1>1, <1>4, <2>1, <2>2 DEF Handshake, Tx!Active
    <2>4. tx_en => tx.send
      BY <1>1, <2>2 DEF Handshake
    <2>5. QED
      BY <1>4, <1>5, <2>1, <2>3, <2>4
  <1>12. sent' = None /\ tx_en' => tx'.send
    BY <1>1, <1>4, <1>5
  <1>13. sent' = None /\ tx'.state # "IDLE" => Place' >= LastBit'
    <2>1. CASE Delivered
      BY <1>2, <2>1
    <2>2. CASE Kept /\ sent = None
      <3>1. tx.state # "IDLE" => Place >= LastBit
        BY <1>1, <2>2 DEF Handshake
      <3>2. tx.state = "IDLE" => tx'.state = "IDLE"
        <4>1. tx.state = "IDLE" => ~Tx!Active
          BY <1>1, <1>4, <2>2 DEF Handshake
        <4>2. QED
          BY <1>1, <1>3, <4>1, TxEdge
      <3>3. tx.state = "FINISH" => tx'.state = "IDLE"
        BY <1>1, <1>3, TxEdge
      <3>4. /\ Place \in -1 .. LastBit + configs.stop
            /\ tx.state \notin {"IDLE", "FINISH"} => Place' = Place + 1
        BY <1>1, <1>3, PlaceMoves
      <3>5. LastBit \in 5 .. 9 /\ configs.stop \in 1 .. 2
        BY <1>1, Config
      <3>6. QED
        BY <1>1, <3>1, <3>2, <3>3, <3>4, <3>5
    <2>3. QED
      BY <1>2, <2>1, <2>2 DEF Kept
  <1>14. tx_en' => gap' = MinGap
    BY <1>1 DEF Handshake, BitTick
  <1>15. ~tx_en' /\ gap' > 0 => ~tx'.send
    <2> SUFFICES ASSUME ~tx_en, gap' > 0, tx'.send
                 PROVE  FALSE
      BY <1>1
    <2>1. tx.send /\ ~tx.done
      BY <1>5
    <2>2. ~(gap > 0)
      BY <1>1, <2>1 DEF Handshake
    <2>3. tx.is_idle
      BY <2>2 DEF BitTick
    <2>4. sent # None
      BY <1>1, <2>1, <2>3 DEF Handshake, Tx!Active
    <2>5. QED
      BY <1>1, <2>3, <2>4 DEF Handshake
  <1>16. QED
    BY <1>9, <1>10, <1>11, <1>12, <1>13, <1>14, <1>15 DEF Handshake

\* An edge of the sampling clock alone moves neither transmitter nor software.
LEMMA SampleHandshake ==
  ASSUME LinkInv, SampleTick, MaxSlips <= 7
  PROVE  TxInv' /\ Handshake'
  <1>1. /\ Clocks /\ TypeOK /\ TxInv /\ Handshake /\ RxInv
        /\ configs' = configs /\ tx' = tx /\ tx_en' = tx_en /\ data' = data /\ gap' = gap
    BY DEF LinkInv, Clocks, SampleTick
  <1>2. /\ Kept \/ Delivered
        /\ Delivered => Place >= 0 /\ Place' >= LastBit'
    BY <1>1, EdgeDelivers
  <1>3. LastBit' = LastBit /\ Place' = Place /\ (Tx!Active' <=> Tx!Active)
    BY <1>1 DEF LastBit, Place, Tx!Active
  <1>4. TxInv'
    <2>1. Counted' /\ Level'
      BY <1>1, <1>3 DEF TxInv, Counted, Level
    <2>2. sent' # None => sent' = sent
      BY <1>2 DEF Kept, Delivered
    <2>3. Framed'
      <3> SUFFICES ASSUME Tx!Active
                   PROVE  /\ tx.serial_data[1] = 0
                          /\ \A i \in 1 .. configs.stop :
                               tx.serial_data[1 + configs.data + i] = 1
                          /\ sent' # None => \A k \in 1 .. configs.data :
                                               tx.serial_data[1 + k] = (sent')[k]
        BY <1>1, <1>3 DEF Framed
      <3>1. Framed
        BY <1>1 DEF TxInv
      <3>2. QED
        BY <2>2, <3>1 DEF Framed
    <2>4. QED
      BY <1>1, <1>3, <2>1, <2>3 DEF TxInv
  <1>5. Handshake'
    <2>1. CASE Kept
      BY <1>1, <1>3, <2>1 DEF Handshake, Kept
    <2>2. CASE Delivered
      <3>1. tx.state \notin {"IDLE", "START"} /\ sent' = None
        BY <1>2, <2>2 DEF Place, Delivered
      <3>2. ~tx.is_idle /\ tx.send
        BY <1>1, <3>1 DEF TxInv, Tx!Active
      <3>3. QED
        BY <1>1, <1>2, <1>3, <2>2, <3>1, <3>2 DEF Handshake
    <2>3. QED
      BY <1>2, <2>1, <2>2
  <1>6. QED
    BY <1>4, <1>5

\* An edge of either clock, or of both.
LEMMA ClocksKeep ==
  ASSUME LinkInv, Clocks, MaxSlips <= 7
  PROVE  LinkInv' /\ configs' = configs /\ (Kept \/ Delivered)
  <1>1. /\ TypeOK /\ TxInv /\ Handshake /\ RxInv
        /\ configs \in LinkConfigs /\ configs' = configs /\ LastBit' = LastBit
        /\ tx \in Tx!TxType /\ tx_en \in BOOLEAN /\ data \in Data(configs.data)
        /\ tx_en' = tx_en /\ data' = data /\ rx_en' = rx_en
        /\ sample \in 0 .. 16 /\ slips \in Nat /\ slips <= MaxSlips
        /\ MaxSlips \in Nat /\ MinGap \in Nat \ {0}
    BY LinkAssumption, Edge DEF LinkInv
  <1>2. rx' \in Rx!RxType /\ RxInv' /\ (Kept \/ Delivered)
    BY EdgeDelivers
  <1>3. sent' \in {sent, None} /\ tag' \in {0, 1}
    BY <1>1, <1>2 DEF Kept, Delivered, TypeOK
  <1>4. tx' \in Tx!TxType /\ TxInv' /\ Handshake'
    <2>1. CASE SampleTick
      BY <1>1, <2>1, SampleHandshake DEF SampleTick
    <2>2. CASE BitTick
      <3>1. Tx!Step(tx_en, data)
        BY <2>2 DEF BitTick
      <3>2. QED
        BY <1>1, <1>3, <2>2, <3>1, TxEdge, EdgeKeeps, BitHandshake
    <2>3. QED
      BY <2>1, <2>2 DEF Clocks
  <1>5. sample' \in 0 .. 16 /\ slips' \in 0 .. MaxSlips
    BY <1>1 DEF Clocks, SampleTick, BitTick
  <1>6. gap' \in 0 .. MinGap
    BY <1>1 DEF TypeOK, Clocks, SampleTick, BitTick
  <1>7. tx' \in (Tx!TxType)' /\ rx' \in (Rx!RxType)'
    BY <1>1, <1>2, <1>4 DEF Tx!TxType, Rx!RxType
  <1>8. TypeOK'
    BY <1>1, <1>3, <1>5, <1>6, <1>7 DEF TypeOK
  <1>9. QED
    BY <1>1, <1>2, <1>4, <1>8 DEF LinkInv

--------------------------------------------------------------------------------
(* The software, and the reset.                                            *)

\* The transmitter and the receiver do not move, nor do the clocks.
LEMMA SoftwareEdge ==
  ASSUME LinkInv, UNCHANGED <<configs, tx, sample>>
  PROVE  /\ TypeOK /\ TxInv /\ Handshake /\ RxInv
         /\ configs \in LinkConfigs /\ MinGap \in Nat \ {0}
         /\ LastBit' = LastBit /\ Place' = Place /\ Ahead' = Ahead
         /\ (Tx!Active' <=> Tx!Active) /\ Counted' /\ Level'
         /\ tx.send \in BOOLEAN /\ tx.done \in BOOLEAN /\ gap \in 0 .. MinGap
         /\ tx' \in (Tx!TxType)' /\ (sent' = sent => TxInv')
  <1>1. /\ TypeOK /\ TxInv /\ Handshake /\ RxInv
        /\ configs' = configs /\ tx' = tx /\ sample' = sample
        /\ configs \in LinkConfigs /\ MinGap \in Nat \ {0} /\ gap \in 0 .. MinGap
        /\ tx \in Tx!TxType
    BY LinkAssumption DEF LinkInv, TypeOK
  <1>2. LastBit' = LastBit /\ Place' = Place /\ (Tx!Active' <=> Tx!Active)
    BY <1>1 DEF LastBit, Place, Tx!Active
  <1>3. Ahead' = Ahead
    BY <1>1 DEF Ahead
  <1>4. Counted' /\ Level'
    BY <1>1, <1>2 DEF TxInv, Counted, Level
  <1>5. tx.send \in BOOLEAN /\ tx.done \in BOOLEAN
    BY <1>1 DEF Tx!TxType
  <1>6. tx' \in (Tx!TxType)'
    BY <1>1 DEF Tx!TxType
  <1>7. sent' = sent => TxInv'
    <2>1. sent' = sent => Framed'
      BY <1>1, <1>2 DEF TxInv, Framed
    <2>2. QED
      BY <1>1, <1>2, <1>4, <2>1 DEF TxInv
  <1>8. QED
    BY <1>1, <1>2, <1>3, <1>4, <1>5, <1>6, <1>7

\* Software asks for the word in the data register to be sent: from then on it is the
\* word to be delivered.
LEMMA SendOnKeeps ==
  ASSUME LinkInv, SendOn
  PROVE  LinkInv' /\ \E w \in Words(configs) : sent = None /\ sent' = w
  <1>1. /\ TypeOK /\ TxInv /\ Handshake /\ RxInv
        /\ configs \in LinkConfigs /\ MinGap \in Nat \ {0}
        /\ LastBit' = LastBit /\ Place' = Place /\ Ahead' = Ahead
        /\ (Tx!Active' <=> Tx!Active) /\ Counted' /\ Level'
        /\ tx.send \in BOOLEAN /\ tx.done \in BOOLEAN
        /\ tx' \in (Tx!TxType)'
    BY SoftwareEdge DEF SendOn
  <1>2. /\ ~tx_en /\ tx.is_idle /\ gap = MinGap /\ sent = None /\ rx_en /\ ~rx.done
        /\ data \in Words(configs) /\ data' = data
        /\ tx_en' = TRUE /\ sent' = data
        /\ configs' = configs /\ tx' = tx /\ rx' = rx /\ sample' = sample
        /\ slips' = slips /\ rx_en' = rx_en /\ gap' = gap /\ tag' = tag
    BY DEF SendOn
  <1>3. data \in Data(configs.data) /\ data # None
    BY <1>1, <1>2, LinkAssumption
  <1>5. ~tx.send /\ ~tx.done /\ ~Tx!Active
    BY <1>1, <1>2 DEF Handshake, TxInv, Tx!Active
  <1>6. tx.state = "IDLE" /\ Place = -1
    BY <1>1, <1>5 DEF TxInv, Place
  <1>7. TypeOK'
    <2>1. rx' \in (Rx!RxType)'
      BY <1>1, <1>2 DEF TypeOK, Rx!RxType
    <2>2. QED
      BY <1>1, <1>2, <1>3, <2>1 DEF TypeOK
  <1>8. TxInv'
    <2>1. Framed'
      BY <1>1, <1>5 DEF Framed
    <2>2. QED
      BY <1>1, <1>2, <2>1 DEF TxInv
  <1>9. Handshake'
    <2>1. ~Tx!Active'
      BY <1>1, <1>5
    <2>2. QED
      BY <1>2, <1>3, <1>5, <2>1 DEF Handshake
  <1>10. RxInv'
    <2>1. Hunting /\ rx.count_start_valid <= 5
      BY <1>1, <1>2 DEF RxInv, Resting, FewLows
    <2>2. /\ rx.count_start \in 0 .. 8 /\ rx.count_start_valid \in 0 .. 8
          /\ rx.count_empty \in 0 .. 16 /\ sample \in 0 .. 16
      BY <1>1 DEF TypeOK, Rx!RxType
    <2>3. Stale <= 18 /\ Stale \in Int
      BY <2>2 DEF Stale
    <2>4. Ahead >= 32 /\ Ahead \in Int
      BY <1>5, <1>6, <2>2 DEF Ahead
    <2>5. Stale <= Ahead
      BY <2>3, <2>4
    <2>6. Stale' = Stale /\ Hunting'
      BY <1>2, <2>1 DEF Stale, Hunting, Empty
    <2>7. Waiting'
      BY <1>1, <1>2, <2>1, <2>5, <2>6 DEF Waiting
    <2>8. QED
      BY <1>1, <1>2, <1>3, <1>6, <2>7 DEF RxInv
  <1>11. QED
    BY <1>2, <1>7, <1>8, <1>9, <1>10 DEF LinkInv

\* The data register may change before a word is asked for, and as soon as the
\* transmitter has it.
LEMMA WriteDataKeeps ==
  ASSUME LinkInv, WriteData
  PROVE  LinkInv'
  <1>1. /\ TypeOK /\ TxInv /\ Handshake /\ RxInv
        /\ configs \in LinkConfigs
        /\ LastBit' = LastBit /\ Place' = Place /\ Ahead' = Ahead
        /\ (Tx!Active' <=> Tx!Active)
        /\ tx' \in (Tx!TxType)' /\ (sent' = sent => TxInv')
    BY SoftwareEdge DEF WriteData
  <1>2. /\ (sent = None \/ ~tx.is_idle) /\ data' \in Words(configs)
        /\ configs' = configs /\ tx' = tx /\ rx' = rx /\ sample' = sample
        /\ slips' = slips /\ tx_en' = tx_en /\ rx_en' = rx_en /\ gap' = gap
        /\ sent' = sent /\ tag' = tag
    BY DEF WriteData
  <1>3. TypeOK'
    <2>1. rx' \in (Rx!RxType)'
      BY <1>1, <1>2 DEF TypeOK, Rx!RxType
    <2>2. data' \in Data(configs.data)
      BY <1>1, <1>2, LinkAssumption
    <2>3. QED
      BY <1>1, <1>2, <2>1, <2>2 DEF TypeOK
  <1>4. Handshake'
    BY <1>1, <1>2 DEF Handshake
  <1>5. RxInv'
    <2>1. Resting' = Resting /\ Waiting' = Waiting /\ Phase' = Phase
      BY <1>1, <1>2 DEF Resting, Hunting, FewLows, Empty, Waiting, Stale, Phase, Falling,
         Deciding, Found, Flushing, Flushed, Receiving, Checking, Finishing, HasBits,
         Taken, Fewest, Most, MiddleSum
    <2>2. QED
      BY <1>1, <1>2, <2>1 DEF RxInv
  <1>6. QED
    BY <1>1, <1>2, <1>3, <1>4, <1>5 DEF LinkInv

\* The enable may fall once the frame is on its way.
LEMMA SendOffKeeps ==
  ASSUME LinkInv, SendOff
  PROVE  LinkInv'
  <1>1. /\ TypeOK /\ TxInv /\ Handshake /\ RxInv
        /\ configs \in LinkConfigs /\ MinGap \in Nat \ {0}
        /\ LastBit' = LastBit /\ Place' = Place /\ Ahead' = Ahead
        /\ (Tx!Active' <=> Tx!Active)
        /\ tx' \in (Tx!TxType)' /\ (sent' = sent => TxInv')
    BY SoftwareEdge DEF SendOff
  <1>2. /\ tx_en /\ (~tx.is_idle \/ tx.done) /\ tx_en' = FALSE /\ gap' = 0
        /\ configs' = configs /\ tx' = tx /\ rx' = rx /\ sample' = sample
        /\ slips' = slips /\ data' = data /\ rx_en' = rx_en
        /\ sent' = sent /\ tag' = tag
    BY DEF SendOff
  <1>3. TypeOK'
    <2>1. rx' \in (Rx!RxType)'
      BY <1>1, <1>2 DEF TypeOK, Rx!RxType
    <2>2. gap' \in 0 .. MinGap
      BY <1>1, <1>2
    <2>3. tx_en' \in BOOLEAN
      BY <1>2
    <2>4. QED
      BY <1>1, <1>2, <2>1, <2>2, <2>3 DEF TypeOK
  <1>4. Handshake'
    BY <1>1, <1>2 DEF Handshake
  <1>5. RxInv'
    <2>1. Resting' = Resting /\ Waiting' = Waiting /\ Phase' = Phase
      BY <1>1, <1>2 DEF Resting, Hunting, FewLows, Empty, Waiting, Stale, Phase, Falling,
         Deciding, Found, Flushing, Flushed, Receiving, Checking, Finishing, HasBits,
         Taken, Fewest, Most, MiddleSum
    <2>2. QED
      BY <1>1, <1>2, <2>1 DEF RxInv
  <1>6. QED
    BY <1>1, <1>2, <1>3, <1>4, <1>5 DEF LinkInv

\* Reading the word, and enabling the receiver again: both between two words.
LEMMA ReceiverKeeps ==
  ASSUME LinkInv, Read \/ ReceiveOn
  PROVE  LinkInv' /\ rx'.rx_data = rx.rx_data
  <1>1. /\ TypeOK /\ TxInv /\ Handshake /\ RxInv
        /\ configs \in LinkConfigs
        /\ LastBit' = LastBit /\ Place' = Place
        /\ (Tx!Active' <=> Tx!Active)
        /\ tx' \in (Tx!TxType)' /\ (sent' = sent => TxInv')
    BY SoftwareEdge DEF Read, ReceiveOn
  <1>2. /\ configs' = configs /\ tx' = tx /\ sample' = sample
        /\ slips' = slips /\ tx_en' = tx_en /\ data' = data /\ gap' = gap
        /\ sent' = sent /\ tag' = tag /\ rx_en' \in BOOLEAN
    BY DEF Read, ReceiveOn
  <1>3. rx \in Rx!RxType /\ sent = None
    BY <1>1 DEF Read, ReceiveOn, TypeOK, RxInv
  <1>4. /\ rx' \in Rx!RxType /\ rx'.rx_data = rx.rx_data /\ ~rx'.done
        /\ rx'.state = rx.state /\ rx'.is_start = rx.is_start /\ rx'.recv = rx.recv
        /\ rx'.check_done = rx.check_done /\ rx'.count_bits = rx.count_bits
        /\ rx'.count_sample_points = rx.count_sample_points
        /\ rx'.sample_points_sum = rx.sample_points_sum
        /\ rx'.count_start = rx.count_start
        /\ rx'.count_start_valid = rx.count_start_valid
    <2>1. CASE Read
      BY <1>3, <2>1 DEF Read, Rx!Disabled, Rx!RxType
    <2>2. CASE ReceiveOn
      BY <1>1, <1>3, <2>2 DEF ReceiveOn, RxInv
    <2>3. QED
      BY <2>1, <2>2
  <1>5. TypeOK'
    <2>1. rx' \in (Rx!RxType)'
      BY <1>2, <1>4 DEF Rx!RxType
    <2>2. QED
      BY <1>1, <1>2, <2>1 DEF TypeOK
  <1>6. Handshake'
    BY <1>1, <1>2 DEF Handshake
  <1>7. Resting'
    <2>1. Hunting /\ FewLows
      BY <1>1, <1>3 DEF RxInv, Resting
    <2>2. Hunting' /\ FewLows'
      BY <1>1, <1>2, <1>4, <2>1 DEF Hunting, Empty, FewLows
    <2>3. QED
      BY <1>4, <2>2 DEF Resting
  <1>8. QED
    BY <1>1, <1>2, <1>3, <1>4, <1>5, <1>6, <1>7 DEF RxInv, LinkInv

\* A reset between two frames: nothing is sent, nor asked for.
LEMMA ResetKeeps ==
  ASSUME LinkInv, QuietReset
  PROVE  LinkInv' /\ configs' = configs /\ UNCHANGED <<sent, tag>> /\ rx'.rx_data = rx.rx_data
  <1>1. /\ TypeOK /\ TxInv /\ Handshake /\ RxInv
        /\ configs \in LinkConfigs /\ tx \in Tx!TxType /\ rx \in Rx!RxType
        /\ MaxSlips \in Nat /\ MinGap \in Nat \ {0}
    BY LinkAssumption DEF LinkInv, TypeOK
  <1>2. /\ ~tx.send /\ sent = None /\ sent' = None /\ tag' = tag
        /\ tx_en' = FALSE /\ rx_en' = FALSE /\ data' = Bits(configs.data, 0)
        /\ gap' = MinGap /\ slips' = 0 /\ configs' = configs /\ sample' = sample
        /\ Tx!Reset(tx_en) /\ Rx!Reset
    BY DEF QuietReset, Reset
  <1>3. /\ configs.data \in 5 .. 8 /\ configs.stop \in 1 .. 2 /\ LastBit \in 5 .. 9
        /\ LastBit' = LastBit
    BY <1>1, <1>2, Config DEF LastBit
  <1>4. ~Tx!SendNext(tx_en)
    BY <1>1, <1>2 DEF Handshake, Tx!SendNext
  <1>5. /\ tx' \in Tx!TxType
        /\ tx'.state = "IDLE" /\ tx'.count_bit = 0 /\ tx'.is_idle = TRUE
        /\ tx'.done = FALSE /\ tx'.send = FALSE /\ tx'.uart_tx = 1
    <2> DEFINE z == Tx!NoSerial
               n == Tx!SendNext(tx_en)
    <2>1. z \in [1 .. 1 + configs.data + configs.stop -> Bit]
      BY DEF Tx!NoSerial, Tx!Bits
    <2>2. n = FALSE
      BY <1>4
    <2>3. 0 \in 0 .. configs.data /\ "IDLE" \in Tx!TxStates /\ FALSE \in BOOLEAN
      BY <1>3 DEF Tx!TxStates
    <2>4. tx' = [tx EXCEPT !.state = "IDLE", !.count_bit = 0, !.is_idle = TRUE,
                           !.done = FALSE, !.send = n, !.serial_data = z,
                           !.num_of_one = 0, !.uart_tx = 1]
      BY <1>2 DEF Tx!Reset
    <2> HIDE DEF z, n
    <2>5. QED
      BY <1>1, <2>1, <2>2, <2>3, <2>4 DEF Tx!TxType
  <1>6. /\ rx' \in Rx!RxType /\ rx'.rx_data = rx.rx_data
        /\ rx'.state = "IDLE" /\ ~rx'.is_start /\ ~rx'.recv /\ ~rx'.done /\ ~rx'.check_done
        /\ rx'.count_start = 0 /\ rx'.count_start_valid = 0 /\ rx'.sample_points_sum = 0
        /\ rx'.count_sample_points = 0 /\ rx'.count_bits = 0
    <2> DEFINE z == Rx!ResetState
    <2>1. /\ z \in Rx!RxType /\ z.state = "IDLE" /\ z.is_start = FALSE /\ z.recv = FALSE
          /\ z.done = FALSE /\ z.check_done = FALSE
          /\ z.count_start = 0 /\ z.count_start_valid = 0 /\ z.sample_points_sum = 0
          /\ z.count_sample_points = 0 /\ z.count_bits = 0
      BY <1>1, Fresh
    <2>2. rx' = [z EXCEPT !.rx_data = rx.rx_data, !.state_out = rx.state_out]
      BY <1>2 DEF Rx!Reset
    <2> HIDE DEF z
    <2>3. QED
      BY <1>1, <2>1, <2>2 DEF Rx!RxType
  <1>7. TypeOK'
    <2>1. tx' \in (Tx!TxType)' /\ rx' \in (Rx!RxType)'
      BY <1>2, <1>5, <1>6 DEF Tx!TxType, Rx!RxType
    <2>2. data' \in Data(configs.data)
      BY <1>2 DEF Bits
    <2>3. gap' \in 0 .. MinGap /\ slips' \in 0 .. MaxSlips
      BY <1>1, <1>2
    <2>4. tx_en' \in BOOLEAN /\ rx_en' \in BOOLEAN
      BY <1>2
    <2>5. QED
      BY <1>1, <1>2, <2>1, <2>2, <2>3, <2>4 DEF TypeOK
  <1>8. TxInv' /\ Place' = -1
    BY <1>5 DEF TxInv, Place, Counted, Framed, Level, Tx!Active
  <1>9. Handshake'
    BY <1>1, <1>2, <1>5 DEF Handshake, Tx!Active
  <1>10. Resting'
    BY <1>3, <1>6, <1>8 DEF Resting, Hunting, Empty, FewLows
  <1>11. QED
    BY <1>2, <1>6, <1>7, <1>8, <1>9, <1>10 DEF RxInv, LinkInv

--------------------------------------------------------------------------------
(* The theorems.                                                           *)

\* The invariant holds when the link starts.
LEMMA LinkStarts ==
  ASSUME Init
  PROVE  LinkInv
  <1>1. /\ configs \in LinkConfigs /\ Tx!Init /\ Rx!Init
        /\ sample = 0 /\ slips = 0 /\ tx_en = FALSE /\ rx_en = FALSE
        /\ data = Bits(configs.data, 0) /\ gap = MinGap /\ sent = None /\ tag = 0
        /\ MaxSlips \in Nat /\ MinGap \in Nat \ {0}
    BY LinkAssumption DEF Init
  <1>2. configs.data \in 5 .. 8 /\ configs.stop \in 1 .. 2 /\ LastBit \in 5 .. 9
    BY <1>1, Config
  <1>3. /\ tx \in Tx!TxType
        /\ tx.state = "IDLE" /\ tx.count_bit = 0 /\ tx.is_idle = TRUE
        /\ tx.done = FALSE /\ tx.send = FALSE /\ tx.uart_tx = 1
    <2> DEFINE z == Tx!NoSerial
    <2>1. z \in [1 .. 1 + configs.data + configs.stop -> Bit]
      BY DEF Tx!NoSerial, Tx!Bits
    <2>2. 0 \in 0 .. configs.data /\ "IDLE" \in Tx!TxStates
      BY <1>2 DEF Tx!TxStates
    <2>3. tx = [state |-> "IDLE", count_bit |-> 0, is_idle |-> TRUE, done |-> FALSE,
                send |-> FALSE, serial_data |-> z, num_of_one |-> 0, uart_tx |-> 1]
      BY <1>1 DEF Tx!Init
    <2> HIDE DEF z
    <2>4. QED
      BY <2>1, <2>2, <2>3 DEF Tx!TxType
  <1>4. /\ rx \in Rx!RxType
        /\ rx.state = "IDLE" /\ ~rx.is_start /\ ~rx.recv /\ ~rx.done /\ ~rx.check_done
        /\ rx.count_start = 0 /\ rx.count_start_valid = 0 /\ rx.sample_points_sum = 0
        /\ rx.count_sample_points = 0 /\ rx.count_bits = 0
    <2> DEFINE z == Rx!ResetState
    <2>1. /\ z \in Rx!RxType /\ z.state = "IDLE" /\ z.is_start = FALSE /\ z.recv = FALSE
          /\ z.done = FALSE /\ z.check_done = FALSE
          /\ z.count_start = 0 /\ z.count_start_valid = 0 /\ z.sample_points_sum = 0
          /\ z.count_sample_points = 0 /\ z.count_bits = 0
      BY <1>1, Fresh
    <2>2. PICK d \in Rx!Data(configs.data), s \in BOOLEAN :
            rx = [z EXCEPT !.rx_data = d, !.state_out = s]
      BY <1>1 DEF Rx!Init
    <2> HIDE DEF z
    <2>3. QED
      BY <2>1, <2>2 DEF Rx!RxType
  <1>5. TypeOK
    <2>1. data \in Data(configs.data)
      BY <1>1 DEF Bits
    <2>2. gap \in 0 .. MinGap /\ slips \in 0 .. MaxSlips /\ sample \in 0 .. 16
      BY <1>1
    <2>3. QED
      BY <1>1, <1>3, <1>4, <2>1, <2>2 DEF TypeOK
  <1>6. TxInv /\ Place = -1
    BY <1>3 DEF TxInv, Place, Counted, Framed, Level, Tx!Active
  <1>7. Handshake
    BY <1>1, <1>3 DEF Handshake, Tx!Active
  <1>8. Resting
    BY <1>2, <1>4, <1>6 DEF Resting, Hunting, Empty, FewLows
  <1>9. QED
    BY <1>1, <1>4, <1>5, <1>6, <1>7, <1>8 DEF RxInv, LinkInv

\* A step that changes nothing keeps the invariant.
LEMMA StutterKeeps ==
  ASSUME LinkInv, UNCHANGED vars
  PROVE  LinkInv' /\ rx'.rx_data = rx.rx_data
  <1>1. /\ TypeOK /\ TxInv /\ Handshake /\ RxInv
        /\ LastBit' = LastBit /\ Place' = Place /\ Ahead' = Ahead
        /\ (Tx!Active' <=> Tx!Active)
        /\ tx' \in (Tx!TxType)' /\ (sent' = sent => TxInv')
    BY SoftwareEdge DEF vars
  <1>2. /\ configs' = configs /\ tx' = tx /\ rx' = rx /\ sample' = sample
        /\ slips' = slips /\ tx_en' = tx_en /\ data' = data /\ rx_en' = rx_en
        /\ gap' = gap /\ sent' = sent /\ tag' = tag
    BY DEF vars
  <1>3. TypeOK'
    <2>1. rx' \in (Rx!RxType)'
      BY <1>1, <1>2 DEF TypeOK, Rx!RxType
    <2>2. QED
      BY <1>1, <1>2, <2>1 DEF TypeOK
  <1>4. Handshake'
    BY <1>1, <1>2 DEF Handshake
  <1>5. RxInv'
    <2>1. Resting' = Resting /\ Waiting' = Waiting /\ Phase' = Phase
      BY <1>1, <1>2 DEF Resting, Hunting, FewLows, Empty, Waiting, Stale, Phase, Falling,
         Deciding, Found, Flushing, Flushed, Receiving, Checking, Finishing, HasBits,
         Taken, Fewest, Most, MiddleSum
    <2>2. QED
      BY <1>1, <1>2, <2>1 DEF RxInv
  <1>6. QED
    BY <1>1, <1>2, <1>3, <1>4, <1>5 DEF LinkInv

\* Every step keeps the invariant, and is a step of the channel or none of its
\* variables changes.
LEMMA StepKeeps ==
  ASSUME LinkInv, [Next]_vars, MaxSlips <= 7
  PROVE  LinkInv' /\ [Channel!Next]_Channel!vars
  <1> USE DEF Channel!vars
  <1>1. CASE SendOn
    <2>1. PICK w \in Words(configs) : sent = None /\ sent' = w
      BY <1>1, SendOnKeeps
    <2>2. w \in Messages
      BY <2>1, LinkAssumption DEF Messages, LinkInv, TypeOK
    <2>3. rx' = rx /\ tag' = tag
      BY <1>1 DEF SendOn
    <2>4. Channel!Send
      BY <2>1, <2>2, <2>3 DEF Channel!Send
    <2>5. QED
      BY <1>1, <2>4, SendOnKeeps DEF Channel!Next
  <1>2. CASE WriteData \/ SendOff
    <2>1. rx' = rx /\ sent' = sent /\ tag' = tag
      BY <1>2 DEF WriteData, SendOff
    <2>2. QED
      BY <1>2, <2>1, WriteDataKeeps, SendOffKeeps
  <1>3. CASE Read \/ ReceiveOn
    <2>1. sent' = sent /\ tag' = tag
      BY <1>3 DEF Read, ReceiveOn
    <2>2. QED
      BY <1>3, <2>1, ReceiverKeeps
  <1>4. CASE Clocks
    <2>1. LinkInv' /\ (Kept \/ Delivered)
      BY <1>4, ClocksKeep
    <2>2. Delivered => Channel!Deliver
      BY DEF Delivered, Channel!Deliver
    <2>3. Kept => UNCHANGED Channel!vars
      BY DEF Kept
    <2>4. QED
      BY <2>1, <2>2, <2>3 DEF Channel!Next
  <1>5. CASE QuietReset
    BY <1>5, ResetKeeps
  <1>6. CASE UNCHANGED vars
    <2>1. sent' = sent /\ tag' = tag
      BY <1>6 DEF vars
    <2>2. QED
      BY <1>6, <2>1, StutterKeeps
  <1>7. QED
    BY <1>1, <1>2, <1>3, <1>4, <1>5, <1>6 DEF Next, Software

\* The invariant holds in every behaviour of the link.
LEMMA LinkIsInductive ==
  ASSUME MaxSlips <= 7
  PROVE  Spec => []LinkInv
  <1>1. Init => LinkInv
    BY LinkStarts
  <1>2. LinkInv /\ [Next]_vars => LinkInv'
    BY StepKeeps
  <1>3. QED
    BY <1>1, <1>2, PTL DEF Spec

\* With up to seven stretched bits in a frame, the registers of both ends hold
\* what they are meant to hold: no counter of the receiver runs over.
THEOREM LinkIsTyped ==
  ASSUME MaxSlips <= 7
  PROVE  Spec => []TypeOK
  <1>1. LinkInv => TypeOK
    BY DEF LinkInv
  <1>2. QED
    BY <1>1, LinkIsInductive, PTL

\* The six samples that decide a data bit are taken while that bit is on the line.
THEOREM BitsAreSampledInside ==
  ASSUME MaxSlips <= 7
  PROVE  Spec => []SamplesItsOwnBit
  <1>1. LinkInv => SamplesItsOwnBit
    <2> SUFFICES ASSUME LinkInv, rx.state = "RECV_DATA", rx.count_bits < configs.data,
                        Rx!InMiddle
                 PROVE  Tx!OnLine = rx.count_bits + 1
      BY DEF SamplesItsOwnBit
    <2>1. TypeOK /\ TxInv /\ Handshake /\ RxInv /\ configs \in LinkConfigs
      BY DEF LinkInv, TypeOK
    <2>2. sent # None
      BY <2>1 DEF RxInv, Resting, Hunting
    <2>3. Place \in Int /\ Place >= -1 /\ tx.state \in Tx!TxStates
      <3>1. /\ tx.count_bit \in Nat /\ tx.state \in Tx!TxStates
            /\ configs.data \in Nat /\ LastBit \in Nat /\ configs.stop \in Nat
        BY <2>1, Config DEF TypeOK, Tx!TxType
      <3>2. QED
        BY <3>1 DEF Place
    <2>4. Place # -1
      BY <2>1, <2>2 DEF RxInv, Waiting, Hunting
    <2>5. Busy /\ Phase
      BY <2>1, <2>2, <2>3, <2>4 DEF Busy, RxInv
    <2>6. Receiving
      BY <2>5 DEF Phase, Falling, Deciding, Hunting, Found, Flushing, Flushed, Checking,
         Finishing
    <2>7. Place = rx.count_bits + 1
      BY <2>5, <2>6, RightBit
    <2>8. /\ configs.data \in 5 .. 8 /\ LastBit \in configs.data .. configs.data + 1
          /\ configs.stop \in 1 .. 2 /\ Place \in 1 .. configs.data
      BY <2>1, <2>7, Config DEF TypeOK, Rx!RxType
    <2>9. Tx!OnLine = Place
      <3>1. tx.state \in {"DATA", "CHECK", "STOP"}
        BY <2>3, <2>8 DEF Place, Tx!TxStates
      <3>2. CASE tx.state = "DATA"
        BY <3>2 DEF Place, Tx!OnLine
      <3>3. CASE tx.state = "CHECK"
        BY <3>3 DEF Place, Tx!OnLine
      <3>4. CASE tx.state = "STOP"
        <4>1. tx.count_bit \in Nat /\ Place = LastBit + tx.count_bit
          BY <2>1, <2>8, <3>4 DEF Place, TypeOK, Tx!TxType
        <4>2. tx.count_bit = 0 /\ LastBit = configs.data
          BY <2>8, <4>1
        <4>3. configs.check = "none"
          BY <2>8, <4>2 DEF LastBit
        <4>4. QED
          BY <2>8, <3>4, <4>1, <4>2, <4>3 DEF Tx!OnLine
      <3>5. QED
        BY <3>1, <3>2, <3>3, <3>4
    <2>10. QED
      BY <2>7, <2>9
  <1>2. QED
    BY <1>1, LinkIsInductive, PTL

\* Every word sent is delivered once and unchanged, before the next one is sent:
\* the link implements the channel, but for the promise that it delivers at all.
THEOREM LinkIsChannel ==
  ASSUME MaxSlips <= 7
  PROVE  Spec => Channel!Init /\ [][Channel!Next]_Channel!vars
  <1>1. Init => Channel!Init
    <2> SUFFICES ASSUME Init
                 PROVE  Channel!Init
      OBVIOUS
    <2>1. LinkInv
      BY LinkStarts
    <2>2. rx.rx_data \in Data(configs.data) /\ configs \in LinkConfigs
      BY <2>1 DEF LinkInv, TypeOK, Rx!RxType
    <2>3. rx.rx_data \in Messages
      BY <2>2 DEF Messages
    <2>4. QED
      BY <2>3 DEF Init, Channel!Init
  <1>2. LinkInv /\ [Next]_vars => [Channel!Next]_Channel!vars
    BY StepKeeps
  <1>3. QED
    BY <1>1, <1>2, LinkIsInductive, PTL DEF Spec
================================================================================
