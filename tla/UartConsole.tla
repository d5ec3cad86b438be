------------------------------ MODULE UartConsole ------------------------------
(***************************************************************************)
(* sw/lib/uart.c: characters to and from a UART with a busy flag and a     *)
(* data register that reads negative while it holds nothing. The device is *)
(* not in the repository; it transmits in its own time, characters arrive  *)
(* in theirs, and one that finds the last one unread is lost.              *)
(***************************************************************************)
EXTENDS Integers, Sequences, SequencesExt

CONSTANTS
  Chars, NewLine,   \* the characters; NewLine stands for \n and \r
  Untouched,        \* what the caller's buffer holds before the call
  Texts,            \* the strings the program sends
  BufferSize,       \* the bytes of the caller's buffer, 0 to BufferSize - 1
  Empty,            \* what the data register reads as without a character
  MaxConsole        \* bound: the calls, and the characters that arrive

ASSUME ConsoleAssumption ==
  /\ NewLine \in Chars /\ Texts \subseteq Seq(Chars)
  /\ Empty \notin Chars /\ Untouched \notin Chars \cup {0} /\ 0 \notin Chars
  /\ BufferSize \in Nat \ {0} /\ MaxConsole \in Nat

VARIABLES
  tx, rx,           \* the device: the character being sent, the one received
  line,             \* what has left the device
  fn,               \* the function in progress, or "none"
  text,             \* the characters it has yet to send
  buf, next, size,  \* the caller's buffer, where it writes next, what is left
  ready,            \* the last poll found the device ready
  made, arrived,    \* how many calls were made, how many characters arrived
  written, taken    \* history: the characters sent, those this call received

consoleVars == <<tx, rx, line, fn, text, buf, next, size, ready, made, arrived, written, taken>>

Blank == [i \in 0 .. BufferSize |-> Untouched]

ConsoleInit ==
  /\ tx = Empty /\ rx = Empty /\ line = <<>>
  /\ fn = "none" /\ text = <<>> /\ buf = Blank /\ next = 0 /\ size = 0 /\ ready = FALSE
  /\ made = 0 /\ arrived = 0 /\ written = <<>> /\ taken = <<>>

progVars == <<fn, text, buf, next, size, ready, made, written, taken>>

\* The device.
Transmitted ==
  /\ tx # Empty /\ line' = Append(line, tx) /\ tx' = Empty
  /\ UNCHANGED <<rx, arrived, progVars>>

\* A character arrives, and is lost if the last one is still there.
Arrive ==
  /\ arrived < MaxConsole /\ arrived' = arrived + 1
  /\ IF rx = Empty THEN rx' \in Chars ELSE rx' = rx
  /\ UNCHANGED <<tx, line, progVars>>

\* The program calls uart_puts or uart_write, uart_gets, or uart_read.
Calling(f, s, n) ==
  /\ fn = "none" /\ made < MaxConsole /\ made' = made + 1
  /\ fn' = f /\ text' = s /\ size' = n
  /\ buf' = Blank /\ next' = 0 /\ taken' = <<>> /\ ready' = FALSE
  /\ UNCHANGED <<tx, rx, line, arrived, written>>

Invoke ==
  \/ \E s \in Texts : Calling("puts", s, 0)
  \/ \E n \in 1 .. BufferSize : \E f \in {"gets", "read"} : Calling(f, <<>>, n)

\* uart_putc: the poll of the status, then the write of the data.
PollStatus ==
  /\ fn = "puts" /\ text # <<>> /\ ~ready
  /\ ready' = (tx = Empty)
  /\ UNCHANGED <<tx, rx, line, fn, text, buf, next, size, made, arrived, written, taken>>

\* Broken: the status is polled once for the whole text.
WriteDataPollsOnce ==
  /\ fn = "puts" /\ ready /\ text # <<>>
  /\ tx' = Head(text) /\ written' = Append(written, Head(text))
  /\ text' = Tail(text) /\ ready' = TRUE
  /\ UNCHANGED <<rx, line, fn, buf, next, size, made, arrived, taken>>

WriteData ==
  /\ fn = "puts" /\ ready
  /\ tx' = Head(text) /\ written' = Append(written, Head(text))
  /\ text' = Tail(text) /\ ready' = FALSE
  /\ UNCHANGED <<rx, line, fn, buf, next, size, made, arrived, taken>>

PutsReturns ==
  /\ fn = "puts" /\ text = <<>> /\ fn' = "none"
  /\ UNCHANGED <<tx, rx, line, text, buf, next, size, ready, made, arrived, written, taken>>

\* uart_gets asks for another character, uart_read likewise.
WantsMore ==
  \/ fn = "gets" /\ size > 1 /\ (taken # <<>> => Last(taken) # NewLine)
  \/ fn = "read" /\ size > 0

\* uart_getc: the read of the data register takes the character, if any.
ReadData ==
  /\ WantsMore
  /\ IF rx = Empty THEN UNCHANGED <<rx, buf, next, size, taken>>
     ELSE /\ rx' = Empty /\ taken' = Append(taken, rx)
          /\ buf' = [buf EXCEPT ![next] = rx] /\ next' = next + 1 /\ size' = size - 1
  /\ UNCHANGED <<tx, line, fn, text, ready, made, arrived, written>>

ReadReturns ==
  /\ fn \in {"gets", "read"} /\ ~WantsMore
  /\ fn' = "none"
  /\ buf' = IF fn = "gets" THEN [buf EXCEPT ![next] = 0] ELSE buf
  /\ UNCHANGED <<tx, rx, line, text, next, size, ready, made, arrived, written, taken>>

ConsoleStep ==
  \/ Transmitted \/ Arrive \/ Invoke
  \/ PollStatus \/ WriteData \/ PutsReturns \/ ReadData \/ ReadReturns

--------------------------------------------------------------------------------
ConsoleTypeOK ==
  /\ tx \in Chars \cup {Empty} /\ rx \in Chars \cup {Empty}
  /\ fn \in {"none", "puts", "gets", "read"} /\ text \in Seq(Chars)
  /\ buf \in [0 .. BufferSize -> Chars \cup {0, Untouched}]
  /\ next \in 0 .. BufferSize /\ size \in 0 .. BufferSize /\ ready \in BOOLEAN

\* Every character uart_putc (uart.c:6) accepts leaves the device once and in
\* order, none written over one that is still being sent; and uart_gets and
\* uart_read (uart.c:29-47) stay inside the caller's buffer, which holds the
\* characters taken in their order and no others but a zero.
ConsoleIntact ==
  /\ written = IF tx = Empty THEN line ELSE Append(line, tx)
  /\ buf[BufferSize] = Untouched
  /\ \A i \in 1 .. Len(taken) : buf[i - 1] = taken[i]
  /\ \A i \in Len(taken) .. BufferSize : buf[i] \in {Untouched, 0}

================================================================================
