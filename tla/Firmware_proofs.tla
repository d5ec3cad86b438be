---------------------------- MODULE Firmware_proofs ----------------------------
(***************************************************************************)
(* Proofs about the programs, for every image of the memory and all words, *)
(* characters, texts, buffer sizes and delays: the timer library keeps the *)
(* times, the updates and the faults whole under its client and under      *)
(* hello_test, whose main loses no wakeup; the characters pass the UART    *)
(* library unharmed, and the delays of the LED program are kept.           *)
(***************************************************************************)
EXTENDS Firmware, SequenceTheorems, TLAPS

--------------------------------------------------------------------------------
(* The timer library under any client.                                     *)

\* The words of the client's timer.
LEMMA ClientWidths ==
  /\ ClientSpan \in Nat \ {0, 1} /\ ClientCountSpan \in Nat \ {0, 1}
  /\ ClientLastTime \in Client!Wide(ClientSpan)
BY FirmwareAssumption, Zenon DEF Wide, Client!Wide

Functions ==
  {"none", "timer_enable", "timecmp_update", "timer_read", "timer_disable",
   "get_elapsed_time", "isr", "exc"}

Places ==
  {"idle", "enable", "disable", "load", "load_other", "read_high", "read_low", "read_again",
   "cmp_mask", "cmp_high", "cmp_low", "set_mie", "set_mstatus", "count", "mret", "done",
   "epc", "cause", "tval", "halt"}

Calls ==
  [fn : Functions, pc : Places, half : {"hi", "lo"}, base : Client!Wide(ClientSpan),
   time : [hi : Nat, lo : Nat], target : Client!Wide(ClientSpan), from : Client!Wide(ClientSpan),
     torn : BOOLEAN]

Items == Client!Contexts \cup {"none", "timer", "fault", "address"}

Typed ==
  /\ mtime \in Client!Wide(ClientSpan) /\ Client!Leq(mtime, ClientLastTime)
  /\ mtimecmp \in Client!Wide(ClientSpan) /\ time_increment \in Client!Wide(ClientSpan)
     /\ asked \subseteq Client!Wide(ClientSpan)
  /\ time_elapsed \in Client!Wide(ClientCountSpan) /\ seen \subseteq Client!Wide(ClientCountSpan)
  /\ mstatus \in [mie : BOOLEAN, mpie : BOOLEAN] /\ mie \in BOOLEAN /\ mixed \in BOOLEAN
  /\ trap \in [epc : Client!Contexts, cause : Client!Causes, tval : {"none", "address"}]
  /\ running \in Client!Contexts /\ call \in [Client!Contexts -> Calls] /\ out \in Seq(Items)

\* Each step of the library belongs to the functions that have it.
InItsFunction(k) ==
  /\ k.pc \in {"read_high", "read_low", "read_again"} =>
       k.fn \in {"isr", "timer_enable", "timer_read"}
  /\ k.pc \in {"cmp_mask", "cmp_high", "cmp_low"} =>
       k.fn \in {"isr", "timer_enable", "timecmp_update"}
  /\ k.pc \in {"enable", "set_mie", "set_mstatus"} => k.fn = "timer_enable"
  /\ k.pc = "disable" => k.fn = "timer_disable"
  /\ k.pc \in {"load", "load_other"} => k.fn = "get_elapsed_time"
  /\ k.pc \in {"count", "mret"} => k.fn = "isr"
  /\ k.pc \in {"epc", "cause", "tval"} => k.fn = "exc"

\* Handlers run with the interrupts disabled, and the main program waits.
Hart ==
  /\ \A c \in Client!Contexts : InItsFunction(call[c])
  /\ \A c \in Client!Contexts : call[c].pc = "halt" => call[c].fn = "exc"
  /\ call["main"].fn \notin {"isr", "exc"}
  /\ call["isr"].fn \in {"none", "isr"} /\ call["exc"].fn \in {"none", "exc"}
  /\ ~asleep /\ (running # "main" => ~mstatus.mie)
  /\ running = "isr" => trap.epc = "main"
  /\ running = "main" => call["isr"].pc = "idle"
  /\ \A c \in Client!Contexts : call[c].pc = "idle" /\ c # "exc" => call[c].fn = "none"

\* The work with the time that was read.
Used(k) ==
  \/ k.fn \in {"isr", "timer_enable"} /\ k.pc = "cmp_mask"
  \/ k.fn = "timer_read" /\ k.pc = "done"

\* The high word that was read first is not above mtime's; while they are equal,
\* the low word belongs to it.
FreshCall(k, now) ==
  /\ Client!Leq(k.from, now)
  /\ k.pc \in {"read_low", "read_again"} => k.from.hi <= k.time.hi /\ k.time.hi <= now.hi
  /\ k.pc = "read_again" /\ k.time.hi = now.hi =>
       Client!Leq(k.from, k.time) /\ Client!Leq(k.time, now)
  /\ Used(k) => Client!Leq(k.from, k.time) /\ Client!Leq(k.time, now)

Reading == \A c \in {"main", "isr"} : FreshCall(call[c], mtime)

\* An update that nothing has interrupted has the compare value in its hands;
\* otherwise the update is known to be mixed.
Setting ==
  /\ \A c \in {"main", "isr"} : Client!Updating(c) /\ ~call[c].torn =>
       /\ call[c].target \in asked /\ mtimecmp.lo = ClientSpan - 1
       /\ call[c].pc = "cmp_low" => mtimecmp.hi = call[c].target.hi
  /\ ~call["isr"].torn
  /\ Client!Updating("main") /\ running # "main" => call["main"].torn
  /\ Client!Updating("main") /\ call["main"].torn => mixed
  /\ mixed \/ \E t \in asked : Client!Leq(t, mtimecmp)
  /\ mixed \/ Client!Updating("main") \/ Client!Updating("isr") \/ mtimecmp \in asked

\* Between the two loads, the first half is that of a value that was there.
Loading ==
  call["main"].pc = "load_other" =>
    /\ time_elapsed \in seen
    /\ \E s \in seen : \/ call["main"].half = "hi" /\ call["main"].time.hi = s.hi
                       \/ call["main"].half = "lo" /\ call["main"].time.lo = s.lo

\* The report, as far as it has got. (A handler that runs is at one of its steps.)
Reporting ==
  /\ running = "isr" => call["isr"].pc # "idle"
  /\ running = "exc" =>
       /\ trap.epc = Faulty /\ trap.cause = "fault" /\ trap.tval = "address"
       /\ call["exc"].pc \in {"epc", "cause", "tval", "halt", "idle"}
       /\ call["exc"].pc = "cause" => Len(out) >= 1 /\ out[Len(out)] = Faulty
       /\ call["exc"].pc = "tval" =>
            Len(out) >= 2 /\ out[Len(out) - 1] = Faulty /\ out[Len(out)] = "fault"
       /\ call["exc"].pc \in {"halt", "idle"} =>
            /\ Len(out) >= 3 /\ out[Len(out) - 2] = Faulty
            /\ out[Len(out) - 1] = "fault" /\ out[Len(out)] = "address"
  /\ halted => running = "exc" /\ call["exc"].pc = "idle"

\* The inductive invariants.
TimeInv == Typed /\ Hart /\ Reading
Later == mtime' \in Client!Wide(ClientSpan) /\ Client!Leq(mtime', ClientLastTime)
  /\ Client!Leq(mtime, mtime')

\* The facts about numbers of two words.
LEMMA WideNumbers ==
  ASSUME NEW n \in Nat \ {0}, NEW t \in Client!Wide(n)
  PROVE  t.hi \in 0 .. n - 1 /\ t.lo \in 0 .. n - 1 /\ t = Client!Pair(t.hi, t.lo)
BY DEF Client!Wide, Client!Pair

\* A remainder is below the divisor, and is the number itself if that was.
LEMMA Remainder ==
  ASSUME NEW n \in Nat \ {0}, NEW i \in Nat
  PROVE  i % n \in 0 .. n - 1 /\ (i < n => i % n = i)
OBVIOUS

\* The next number has as many words, also behind the last one.
LEMMA Successor ==
  ASSUME NEW n \in Nat \ {0}, NEW t \in Client!Wide(n)
  PROVE  Client!Succ(t, n) \in Client!Wide(n)
<1>1. (t.hi + 1) % n \in 0 .. n - 1 /\ 0 \in 0 .. n - 1
  BY Remainder, t.hi + 1 \in Nat DEF Client!Wide
<1>2. t.lo # n - 1 => t.hi \in 0 .. n - 1 /\ t.lo + 1 \in 0 .. n - 1
  BY DEF Client!Wide
<1> QED BY <1>1, <1>2 DEF Client!Wide, Client!Succ, Client!Pair

\* So has the sum that a compare value is computed by, its carry dropped.
LEMMA SumIsWide ==
  ASSUME NEW s \in [hi : Nat, lo : Nat], NEW t \in Client!Wide(ClientSpan)
  PROVE  Client!Plus(s, t) \in Client!Wide(ClientSpan)
<1> DEFINE carry == IF s.lo + t.lo >= ClientSpan THEN 1 ELSE 0
<1>1. s.hi + t.hi + carry \in Nat /\ s.lo + t.lo \in Nat /\ ClientSpan \in Nat \ {0}
  BY ClientWidths DEF Client!Wide
<1>2. (s.hi + t.hi + carry) % ClientSpan \in 0 .. ClientSpan - 1
        /\ (s.lo + t.lo) % ClientSpan \in 0 .. ClientSpan - 1
  BY <1>1, Remainder
<1> QED BY <1>2 DEF Client!Wide, Client!Plus, Client!Pair

\* A tick takes mtime forward while it is below its bound.
LEMMA TimePasses ==
  ASSUME mtime \in Client!Wide(ClientSpan), Client!Leq(mtime, ClientLastTime), Client!Clock
  PROVE  Later
<1>1. CASE mtime' = mtime
  BY <1>1, ClientWidths DEF Later, Client!Wide, Client!Leq
<1>2. CASE mtime # ClientLastTime /\ mtime' = Client!Succ(mtime, ClientSpan)
  <2>1. mtime' \in Client!Wide(ClientSpan)
    BY <1>2, Successor, ClientWidths
  <2>2. \/ mtime.hi < ClientLastTime.hi
        \/ mtime.hi = ClientLastTime.hi /\ mtime.lo < ClientLastTime.lo
    BY <1>2, ClientWidths DEF Client!Wide, Client!Leq
  <2>3. mtime.lo = ClientSpan - 1 =>
            mtime.hi + 1 <= ClientLastTime.hi /\ (mtime.hi + 1) % ClientSpan = mtime.hi + 1
    <3> SUFFICES ASSUME mtime.lo = ClientSpan - 1
                 PROVE  /\ mtime.hi + 1 <= ClientLastTime.hi
                        /\ (mtime.hi + 1) % ClientSpan = mtime.hi + 1
      OBVIOUS
    <3>1. mtime.hi + 1 <= ClientLastTime.hi /\ mtime.hi + 1 \in Nat /\ mtime.hi + 1 < ClientSpan
      BY <2>2, ClientWidths DEF Client!Wide
    <3> QED BY <3>1, Remainder, ClientWidths
  <2> QED BY <1>2, <2>1, <2>2, <2>3, ClientWidths
             DEF Later, Client!Wide, Client!Leq, Client!Succ, Client!Pair
<1> QED BY <1>1, <1>2 DEF Client!Clock

\* Where a call, a handler or the exception's report begins.
LEMMA Names ==
  /\ {"enable", "cmp_mask", "read_high", "disable", "load", "epc"} \subseteq Places
  /\ {"timer_enable", "timecmp_update", "timer_read", "timer_disable", "get_elapsed_time",
      "isr", "exc"} \subseteq Functions
<1>1. {"enable", "cmp_mask", "read_high", "disable", "load", "epc"} \subseteq Places
  BY DEF Places
<1>2. {"timer_enable", "timecmp_update", "timer_read", "timer_disable", "get_elapsed_time",
       "isr", "exc"} \subseteq Functions
  BY DEF Functions
<1> QED BY <1>1, <1>2

\* The calls that are begun, with what they start from.
LEMMA NewCalls ==
  ASSUME mtime \in Client!Wide(ClientSpan)
  PROVE  /\ Client!NoCall \in Calls /\ Client!NoCall.fn = "none" /\ Client!NoCall.pc = "idle"
         /\ Client!NoCall.from = Client!ZeroPair /\ ~Client!NoCall.torn
         /\ \A f \in Functions, p \in Places, b \in Client!Wide(ClientSpan) :
              /\ Client!Call(f, p, b) \in Calls
              /\ Client!Call(f, p, b).fn = f /\ Client!Call(f, p, b).pc = p
                 /\ Client!Call(f, p, b).from = mtime
              /\ ~Client!Call(f, p, b).torn
<1>1. Client!ZeroPair \in Client!Wide(ClientSpan) /\ Client!ZeroPair \in [hi : Nat, lo : Nat]
  BY ClientWidths DEF Client!ZeroPair, Client!Pair, Client!Wide
<1>2. "none" \in Functions /\ "idle" \in Places
  BY DEF Functions, Places
<1>3. /\ Client!NoCall \in Calls /\ Client!NoCall.fn = "none" /\ Client!NoCall.pc = "idle"
      /\ Client!NoCall.from = Client!ZeroPair /\ ~Client!NoCall.torn
  BY <1>1, <1>2 DEF Client!NoCall, Calls
<1>4. ASSUME NEW f \in Functions, NEW p \in Places, NEW b \in Client!Wide(ClientSpan)
      PROVE  /\ Client!Call(f, p, b) \in Calls
             /\ Client!Call(f, p, b).fn = f /\ Client!Call(f, p, b).pc = p
                /\ Client!Call(f, p, b).from = mtime
             /\ ~Client!Call(f, p, b).torn
  <2>1. PICK j : j = [Client!NoCall EXCEPT !.fn = f, !.pc = p, !.base = b, !.from = mtime]
    OBVIOUS
  <2>2. Client!Call(f, p, b) = j
    BY <2>1 DEF Client!Call
  <2>3. j \in Calls /\ j.fn = f /\ j.pc = p /\ j.from = mtime /\ ~j.torn
    BY <1>3, <2>1 DEF Calls
  <2> QED BY <2>2, <2>3
<1> QED BY <1>3, <1>4

\* A call in progress goes on to another step, or ends its update.
LEMMA Moves ==
  ASSUME call \in [Client!Contexts -> Calls], NEW c \in Client!Contexts, NEW p \in Places
  PROVE  /\ [call EXCEPT ![c].pc = p] \in [Client!Contexts -> Calls]
         /\ [call EXCEPT ![c].pc = p, ![c].torn = FALSE] \in [Client!Contexts -> Calls]
<1>1. ASSUME NEW k \in Calls PROVE [k EXCEPT !.pc = p] \in Calls
  BY DEF Calls
<1>2. ASSUME NEW k \in Calls PROVE [k EXCEPT !.torn = FALSE] \in Calls
  BY DEF Calls
<1> QED BY <1>1, <1>2

\* A step of the library keeps the types.
LEMMA LibraryTyped ==
  ASSUME Typed, Hart, Client!LibraryStep
  PROVE  Typed'
<1>0. ASSUME Client!Clock PROVE Later
  BY <1>0, TimePasses DEF Typed
<1>1. call \in [Client!Contexts -> Calls]
  BY DEF Typed
<1>2. /\ {"main", "isr"} \subseteq Client!Contexts /\ {"main", "exc"} \subseteq Client!Contexts
      /\ "main" \in Client!Contexts /\ "isr" \in Client!Contexts /\ "exc" \in Client!Contexts
  BY DEF Client!Contexts
<1>3. /\ mtime.hi \in Nat /\ mtime.lo \in Nat
      /\ mtime \in Client!Wide(ClientSpan) /\ time_increment \in Client!Wide(ClientSpan)
  BY DEF Typed, Client!Wide
<1>4. ASSUME NEW c \in {"main", "isr"}, Client!ReadHigh(c) PROVE Typed'
  <2>1. Later
    BY <1>0, <1>4 DEF Client!ReadHigh
  <2>2. "read_low" \in Places
    BY DEF Places
  <2>3. call' \in [Client!Contexts -> Calls]
    BY <1>1, <1>2, <1>3, <1>4, <2>2 DEF Client!ReadHigh, Calls
  <2> QED
    BY <1>4, <2>1, <2>3, ClientWidths
       DEF Client!ReadHigh, Later, Typed, Client!hartVars, Client!csrVars, Client!ramVars,
           Client!cmpVars
<1>5. ASSUME NEW c \in {"main", "isr"}, Client!ReadLow(c) PROVE Typed'
  <2>1. Later
    BY <1>0, <1>5 DEF Client!ReadLow
  <2>2. "read_again" \in Places
    BY DEF Places
  <2>3. call' \in [Client!Contexts -> Calls]
    BY <1>1, <1>2, <1>3, <1>5, <2>2 DEF Client!ReadLow, Calls
  <2> QED
    BY <1>5, <2>1, <2>3, ClientWidths
       DEF Client!ReadLow, Later, Typed, Client!hartVars, Client!csrVars, Client!ramVars,
           Client!cmpVars
<1>6. ASSUME NEW c \in {"main", "isr"}, Client!ReadAgain(c) PROVE Typed'
  <2>1. Later
    BY <1>0, <1>6 DEF Client!ReadAgain
  <2>2. "read_high" \in Places /\ "done" \in Places /\ "cmp_mask" \in Places
    BY DEF Places
  <2>3. call' \in [Client!Contexts -> Calls]
    <3>1. Client!Plus(call[c].time, call[c].base) \in Client!Wide(ClientSpan)
      BY <1>1, <1>2, SumIsWide DEF Calls
    <3>2. CASE Client!Goto(c, "read_high")
      BY <1>1, <1>2, <2>2, <3>2, Moves, Zenon DEF Client!Goto
    <3>3. CASE ~Client!Goto(c, "read_high")
      BY <1>1, <1>2, <1>6, <2>2, <3>1, <3>3 DEF Client!ReadAgain, Calls
    <3> QED BY <3>2, <3>3
  <2> QED
    BY <1>6, <2>1, <2>3, ClientWidths
       DEF Client!ReadAgain, Later, Typed, Client!hartVars, Client!csrVars, Client!ramVars,
           Client!cmpVars
<1>7. ASSUME NEW c \in {"main", "isr"}, Client!MaskCompare(c) PROVE Typed'
  <2>1. Later
    BY <1>0, <1>7 DEF Client!MaskCompare
  <2>2. "cmp_high" \in Places
    BY DEF Places
  <2>3. call' \in [Client!Contexts -> Calls]
    BY <1>1, <1>2, <1>7, <2>2, Moves, Zenon DEF Client!MaskCompare
  <2>4. mtimecmp \in Client!Wide(ClientSpan) /\ asked \subseteq Client!Wide(ClientSpan)
          /\ ClientSpan - 1 \in 0 .. ClientSpan - 1
    BY ClientWidths DEF Typed
  <2>5. \A d \in Client!Contexts : call[d].target \in Client!Wide(ClientSpan)
          /\ call[d].torn \in BOOLEAN
    BY <1>1 DEF Calls
  <2>6. mtimecmp' \in Client!Wide(ClientSpan)
    BY <1>2, <1>7, <2>4, <2>5 DEF Client!MaskCompare, Client!Wide
  <2>7. asked' \subseteq Client!Wide(ClientSpan)
    BY <1>2, <1>7, <2>4, <2>5 DEF Client!MaskCompare
  <2>8. Client!Updating("main") \in BOOLEAN /\ call["main"].torn \in BOOLEAN
    BY <1>2, <2>5 DEF Client!Updating
  <2>9. mixed' \in BOOLEAN
    BY <1>7, <2>8 DEF Client!MaskCompare, Typed
  <2> QED
    BY <1>7, <2>1, <2>3, <2>6, <2>7, <2>9
       DEF Client!MaskCompare, Later, Typed, Client!hartVars, Client!csrVars, Client!ramVars
<1>8. ASSUME NEW c \in {"main", "isr"}, Client!WriteHigh(c) PROVE Typed'
  <2>1. Later
    BY <1>0, <1>8 DEF Client!WriteHigh
  <2>2. "cmp_low" \in Places
    BY DEF Places
  <2>3. call' \in [Client!Contexts -> Calls]
    BY <1>1, <1>2, <1>8, <2>2, Moves, Zenon DEF Client!WriteHigh, Client!Goto
  <2>4. mtimecmp \in Client!Wide(ClientSpan) /\ asked \subseteq Client!Wide(ClientSpan)
          /\ ClientSpan - 1 \in 0 .. ClientSpan - 1
    BY ClientWidths DEF Typed
  <2>5. \A d \in Client!Contexts : call[d].target \in Client!Wide(ClientSpan)
          /\ call[d].torn \in BOOLEAN
    BY <1>1 DEF Calls
  <2>6. mtimecmp' \in Client!Wide(ClientSpan)
    BY <1>2, <1>8, <2>4, <2>5 DEF Client!WriteHigh, Client!Wide
  <2>7. asked' \subseteq Client!Wide(ClientSpan)
    BY <1>2, <1>8, <2>4, <2>5 DEF Client!WriteHigh
  <2>8. Client!Updating("main") \in BOOLEAN /\ call["main"].torn \in BOOLEAN
    BY <1>2, <2>5 DEF Client!Updating
  <2>9. mixed' \in BOOLEAN
    BY <1>8, <2>8 DEF Client!WriteHigh, Typed
  <2> QED
    BY <1>8, <2>1, <2>3, <2>6, <2>7, <2>9
       DEF Client!WriteHigh, Later, Typed, Client!hartVars, Client!csrVars, Client!ramVars
<1>9. ASSUME NEW c \in {"main", "isr"}, Client!WriteLow(c) PROVE Typed'
  <2>1. Later
    BY <1>0, <1>9 DEF Client!WriteLow
  <2>2. "count" \in Places /\ "set_mie" \in Places /\ "done" \in Places
    BY DEF Places
  <2>3. call[c].fn \in {"isr", "timer_enable", "timecmp_update"}
    BY <1>2, <1>9 DEF Client!WriteLow, Hart, InItsFunction
  <2>4. Client!AfterUpdate[call[c].fn] \in Places
    BY <2>2, <2>3 DEF Client!AfterUpdate
  <2>5. call' \in [Client!Contexts -> Calls]
    BY <1>1, <1>2, <1>9, <2>4, Moves, Zenon DEF Client!WriteLow, Client!Goto
  <2>6. mtimecmp \in Client!Wide(ClientSpan) /\ asked \subseteq Client!Wide(ClientSpan)
          /\ ClientSpan - 1 \in 0 .. ClientSpan - 1
    BY ClientWidths DEF Typed
  <2>7. \A d \in Client!Contexts : call[d].target \in Client!Wide(ClientSpan)
          /\ call[d].torn \in BOOLEAN
    BY <1>1 DEF Calls
  <2>8. mtimecmp' \in Client!Wide(ClientSpan)
    BY <1>2, <1>9, <2>6, <2>7 DEF Client!WriteLow, Client!Wide
  <2>9. asked' \subseteq Client!Wide(ClientSpan)
    BY <1>2, <1>9, <2>6, <2>7 DEF Client!WriteLow
  <2>10. Client!Updating("main") \in BOOLEAN /\ call["main"].torn \in BOOLEAN
    BY <1>2, <2>7 DEF Client!Updating
  <2>11. mixed' \in BOOLEAN
    BY <1>9, <2>10 DEF Client!WriteLow, Typed
  <2> QED
    BY <1>9, <2>1, <2>5, <2>8, <2>9, <2>11
       DEF Client!WriteLow, Later, Typed, Client!hartVars, Client!csrVars, Client!ramVars
<1>10. ASSUME Client!EnableVariables PROVE Typed'
  <2>1. Later
    BY <1>0, <1>10 DEF Client!EnableVariables
  <2>2. "read_high" \in Places
    BY DEF Places
  <2>3. "timer_enable" \in Functions
    BY DEF Functions
  <2>4. call["main"].base \in Client!Wide(ClientSpan)
    BY <1>1, <1>2 DEF Calls
  <2>5. Client!ZeroPair \in Client!Wide(ClientCountSpan)
    BY ClientWidths DEF Client!ZeroPair, Client!Pair, Client!Wide
  <2>6. call' \in [Client!Contexts -> Calls]
    BY <1>1, <1>2, <1>3, <1>10, <2>2, <2>3, <2>4, NewCalls DEF Client!EnableVariables, Calls
  <2> QED
    BY <1>10, <2>1, <2>6, <2>4, <2>5, ClientWidths
       DEF Client!EnableVariables, Later, Typed, Client!hartVars, Client!csrVars, Client!cmpVars
<1>11. ASSUME Client!EnableTimerInterrupt PROVE Typed'
  <2>1. Later
    BY <1>0, <1>11 DEF Client!EnableTimerInterrupt
  <2>2. "set_mstatus" \in Places
    BY DEF Places
  <2>3. call' \in [Client!Contexts -> Calls]
    BY <1>1, <1>2, <1>11, <2>2, Moves, Zenon DEF Client!EnableTimerInterrupt, Client!Goto
  <2> QED
    BY <1>11, <2>1, <2>3, ClientWidths
       DEF Client!EnableTimerInterrupt, Later, Typed, Client!ramVars, Client!cmpVars
<1>12. ASSUME Client!EnableInterrupts PROVE Typed'
  <2>1. Later
    BY <1>0, <1>12 DEF Client!EnableInterrupts
  <2>2. "done" \in Places
    BY DEF Places
  <2>3. call' \in [Client!Contexts -> Calls]
    BY <1>1, <1>2, <1>12, <2>2, Moves, Zenon DEF Client!EnableInterrupts, Client!Goto
  <2> QED
    BY <1>12, <2>1, <2>3, ClientWidths
       DEF Client!EnableInterrupts, Later, Typed, Client!ramVars, Client!cmpVars
<1>13. ASSUME Client!TimerDisable PROVE Typed'
  <2>1. Later
    BY <1>0, <1>13 DEF Client!TimerDisable
  <2>2. "done" \in Places
    BY DEF Places
  <2>3. call' \in [Client!Contexts -> Calls]
    BY <1>1, <1>2, <1>13, <2>2, Moves, Zenon DEF Client!TimerDisable, Client!Goto
  <2> QED
    BY <1>13, <2>1, <2>3, ClientWidths
       DEF Client!TimerDisable, Later, Typed, Client!ramVars, Client!cmpVars
<1>14. ASSUME Client!LoadFirst PROVE Typed'
  <2>1. Later
    BY <1>0, <1>14 DEF Client!LoadFirst
  <2>2. "load_other" \in Places
    BY DEF Places
  <2>3. call' \in [Client!Contexts -> Calls]
    BY <1>1, <1>2, <1>3, <1>14, <2>2 DEF Client!LoadFirst, Calls
  <2> QED
    BY <1>14, <2>1, <2>3, ClientWidths
       DEF Client!LoadFirst, Later, Typed, Client!hartVars, Client!csrVars, Client!ramVars,
           Client!cmpVars
<1>15. ASSUME Client!LoadOther PROVE Typed'
  <2>1. Later
    BY <1>0, <1>15 DEF Client!LoadOther
  <2>2. "done" \in Places
    BY DEF Places
  <2>3. call' \in [Client!Contexts -> Calls]
    BY <1>1, <1>2, <1>3, <1>15, <2>2 DEF Client!LoadOther, Calls
  <2> QED
    BY <1>15, <2>1, <2>3, ClientWidths
       DEF Client!LoadOther, Later, Typed, Client!hartVars, Client!csrVars, Client!ramVars,
           Client!cmpVars
<1>16. ASSUME Client!Count PROVE Typed'
  <2>1. Later
    BY <1>0, <1>16 DEF Client!Count
  <2>2. "mret" \in Places
    BY DEF Places
  <2>3. Client!Succ(time_elapsed, ClientCountSpan) \in Client!Wide(ClientCountSpan)
    BY Successor, ClientWidths DEF Typed
  <2>4. call' \in [Client!Contexts -> Calls]
    BY <1>1, <1>2, <1>16, <2>2, Moves, Zenon DEF Client!Count, Client!Goto
  <2> QED
    BY <1>16, <2>1, <2>4, <2>3, ClientWidths
       DEF Client!Count, Later, Typed, Client!hartVars, Client!csrVars, Client!cmpVars
<1>17. ASSUME Client!Mret PROVE Typed'
  <2>1. Later
    BY <1>0, <1>17 DEF Client!Mret
  <2>2. "idle" \in Places
    BY DEF Places
  <2>3. call' \in [Client!Contexts -> Calls]
    BY <1>1, <1>2, <1>3, <1>17, <2>2, NewCalls DEF Client!Mret, Calls
  <2> QED
    BY <1>17, <2>1, <2>3, ClientWidths DEF Client!Mret, Later, Typed
<1>18. ASSUME Client!Interrupt PROVE Typed'
  <2>1. "read_high" \in Places
    BY DEF Places
  <2>2. "isr" \in Functions
    BY DEF Functions
  <2>3. Client!Updating("main") \in BOOLEAN
    BY DEF Client!Updating
  <2>4. \A k \in Calls : [k EXCEPT !.torn = k.torn \/ Client!Updating("main")] \in Calls
    BY <2>3 DEF Calls
  <2>5. call' \in [Client!Contexts -> Calls]
    BY <1>1, <1>2, <1>3, <1>18, <2>1, NewCalls, <2>2, <2>3, <2>4, SMTT(20)
       DEF Client!Interrupt, Calls
  <2> QED
    BY <1>18, <2>5, <1>2, <2>3, ClientWidths DEF Client!Interrupt, Typed, Client!Trap, Client!Causes
<1>19. ASSUME Client!Report PROVE Typed'
  <2>1. Later
    BY <1>0, <1>19 DEF Client!Report
  <2>2. "cause" \in Places /\ "tval" \in Places /\ "halt" \in Places
    BY DEF Places
  <2>3. PICK pair \in {<<"epc", "cause">>, <<"cause", "tval">>, <<"tval", "halt">>} :
          Client!Goto("exc", pair[2]) /\ Client!Show(<<trap[pair[1]]>>)
    BY <1>19 DEF Client!Report
  <2>4. pair[2] \in Places
    BY <2>2, <2>3
  <2>5. call' \in [Client!Contexts -> Calls]
    BY <1>1, <1>2, <2>3, <2>4, Moves, Zenon DEF Client!Goto
  <2>6. trap.epc \in Items /\ trap.cause \in Items /\ trap.tval \in Items
    BY DEF Typed, Items, Client!Causes
  <2>7. <<trap[pair[1]]>> \in Seq(Items)
    BY <2>3, <2>6
  <2>8. out' \in Seq(Items)
    BY <2>3, <2>7, ConcatProperties DEF Typed, Client!Show
  <2> QED BY <1>19, <2>1, <2>5, <2>8
             DEF Client!Report, Later, Typed, Client!csrVars, Client!ramVars, Client!cmpVars
<1>20. ASSUME NEW c \in {"main", "exc"}, Client!SimHalt(c) PROVE Typed'
  <2>1. Later
    BY <1>0, <1>20 DEF Client!SimHalt
  <2>2. "idle" \in Places
    BY DEF Places
  <2>3. call' \in [Client!Contexts -> Calls]
    BY <1>1, <1>2, <1>20, <2>2, Moves, Zenon DEF Client!SimHalt, Client!Goto
  <2> QED
    BY <1>20, <2>1, <2>3, ClientWidths
       DEF Client!SimHalt, Later, Typed, Client!csrVars, Client!ramVars, Client!cmpVars
<1>21. ~Client!SleepOn /\ ~Client!WakeUp
  BY DEF Hart, Client!SleepOn, Client!WakeUp
<1> QED
  BY <1>4, <1>5, <1>6, <1>7, <1>8, <1>9, <1>10, <1>11, <1>12, <1>13, <1>14, <1>15, <1>16,
     <1>17, <1>18, <1>19, <1>20, <1>21
     DEF Client!LibraryStep

\* What the numbers that a program may give to the library are.
LEMMA Arguments ==
  ASSUME Client!ClientAssumption, Typed
  PROVE  /\ mtime \in Client!Wide(ClientSpan) /\ time_increment \in Client!Wide(ClientSpan)
            /\ Client!ZeroPair \in Client!Wide(ClientSpan)
         /\ Bases \subseteq Client!Wide(ClientSpan) /\ NewTimes \subseteq Client!Wide(ClientSpan)
<1>1. Client!ZeroPair \in Client!Wide(ClientSpan)
  BY ClientWidths DEF Client!ZeroPair, Client!Pair, Client!Wide
<1>2. Bases \subseteq Client!Wide(ClientSpan) /\ NewTimes \subseteq Client!Wide(ClientSpan)
  BY DEF Client!ClientAssumption
<1> QED BY <1>1, <1>2 DEF Typed

\* No step of the client takes time back.
LEMMA TimeGoesOn ==
  ASSUME Typed, Hart, Client!ClientStep
  PROVE  Later
<1>1. Client!Clock => Later
  BY TimePasses DEF Typed
<1>2. ~Client!SleepOn /\ ~Client!WakeUp
  BY DEF Hart, Client!SleepOn, Client!WakeUp
<1>3. mtime \in Client!Wide(ClientSpan) /\ Client!Leq(mtime, ClientLastTime)
  BY DEF Typed
<1>4. Client!Leq(mtime, mtime)
  BY <1>3 DEF Client!Leq, Client!Wide
<1>5. UNCHANGED mtime => Later
  BY <1>3, <1>4, SMTT(20) DEF Later
<1>6. CASE Client!LibraryStep
  BY <1>1, <1>2, <1>5, <1>6
     DEF Client!LibraryStep, Client!ReadHigh, Client!ReadLow, Client!ReadAgain, Client!MaskCompare,
         Client!WriteHigh, Client!WriteLow,
         Client!EnableVariables, Client!EnableTimerInterrupt, Client!EnableInterrupts,
         Client!TimerDisable, Client!LoadFirst, Client!LoadOther, Client!Count, Client!Mret,
         Client!Interrupt, Client!Report, Client!SimHalt
<1> QED BY <1>1, <1>6
           DEF Client!ClientStep, Client!Invoke, Client!Return, Client!Compute, Client!Fault,
               Client!Clock

\* The second load of get_elapsed_time, for each half that it may take.
LEMMA SecondLoad ==
  ASSUME Typed, Client!LoadOther
  PROVE  /\ Client!Clock /\ running = "main" /\ call["main"].pc = "load_other"
         /\ call'["main"].pc = "done" /\ call'["main"].fn = call["main"].fn
         /\ call'["main"].from = call["main"].from /\ call'["main"].torn = call["main"].torn
         /\ call'["main"].target = call["main"].target
         /\ \A c \in Client!Contexts : c # "main" => call'[c] = call[c]
         /\ call["main"].half = "hi" =>
              call'["main"].time = Client!Pair(call["main"].time.hi, time_elapsed.lo)
         /\ call["main"].half = "lo" =>
              call'["main"].time = Client!Pair(time_elapsed.hi, call["main"].time.lo)
         /\ UNCHANGED <<mie, mstatus, trap, running, asleep, out, halted>>
         /\ UNCHANGED <<time_elapsed, time_increment, mtimecmp, asked, mixed, seen>>
<1>1. call \in [Client!Contexts -> Calls] /\ "main" \in Client!Contexts
        /\ call["main"].half \in {"hi", "lo"}
  BY DEF Typed, Client!Contexts, Calls
<1>2. CASE call["main"].half = "hi"
  <2>1. call' = [call EXCEPT !["main"].time.lo = time_elapsed.lo, !["main"].pc = "done"]
    BY <1>2 DEF Client!LoadOther
  <2> QED BY <1>1, <1>2, <2>1 DEF Client!LoadOther, Calls
<1>3. CASE call["main"].half = "lo"
  <2>1. call' = [call EXCEPT !["main"].time.hi = time_elapsed.hi, !["main"].pc = "done"]
    BY <1>3 DEF Client!LoadOther
  <2> QED BY <1>1, <1>3, <2>1 DEF Client!LoadOther, Calls
<1> QED BY <1>1, <1>2, <1>3

\* A step of the client keeps them too.
LEMMA ClientTyped ==
  ASSUME Client!ClientAssumption, Typed, Hart, Client!ClientStep
  PROVE  Typed'
<1>0. ASSUME Client!Clock PROVE Later
  BY <1>0, TimePasses DEF Typed
<1>1. call \in [Client!Contexts -> Calls] /\ "main" \in Client!Contexts /\ "exc" \in Client!Contexts
  BY DEF Typed, Client!Contexts
<1>2. mtime \in Client!Wide(ClientSpan) /\ {"main", "isr"} \subseteq Client!Contexts
  BY DEF Typed, Client!Contexts
<1>3. ASSUME Client!Invoke PROVE Typed'
  <2>1. Later
    BY <1>0, <1>3 DEF Client!Invoke
  <2>2. /\ {"enable", "cmp_mask", "read_high", "disable", "load"} \subseteq Places
        /\ {"timer_enable", "timecmp_update", "timer_read", "timer_disable", "get_elapsed_time"}
             \subseteq Functions
    BY DEF Places, Functions
  <2>3. Client!ZeroPair \in Client!Wide(ClientSpan) /\ Bases \subseteq Client!Wide(ClientSpan)
          /\ NewTimes \subseteq Client!Wide(ClientSpan)
    BY ClientWidths DEF Client!ZeroPair, Client!Pair, Client!Wide, Client!ClientAssumption
  <2>4. \A k \in Calls, t \in Client!Wide(ClientSpan) : [k EXCEPT !.target = t] \in Calls
    BY DEF Calls
  <2>5. Client!Call("timecmp_update", "cmp_mask", Client!ZeroPair) \in Calls
    BY <1>2, <2>2, <2>3, NewCalls
  <2>6. Client!ClientCalls \subseteq Calls
    BY <1>2, <2>2, <2>3, <2>4, <2>5, NewCalls DEF Client!ClientCalls
  <2>7. call' \in [Client!Contexts -> Calls]
    BY <1>1, <1>3, <2>6 DEF Client!Invoke, Client!Begin
  <2> QED BY <1>3, <2>1, <2>7
             DEF Client!Invoke, Later, Typed, Client!hartVars, Client!csrVars, Client!ramVars,
                 Client!cmpVars
<1>4. ASSUME Client!Return PROVE Typed'
  <2>1. Later
    BY <1>0, <1>4 DEF Client!Return
  <2>2. call' \in [Client!Contexts -> Calls]
    BY <1>1, <1>2, <1>4, NewCalls DEF Client!Return, Client!Begin
  <2> QED BY <1>4, <2>1, <2>2
             DEF Client!Return, Later, Typed, Client!hartVars, Client!csrVars, Client!ramVars,
                 Client!cmpVars
<1>5. ASSUME Client!Compute PROVE Typed'
  <2>1. Later
    BY <1>0, <1>5 DEF Client!Compute, Client!Clock
  <2> QED BY <1>5, <2>1
             DEF Client!Compute, Later, Typed, Client!hartVars, Client!csrVars, Client!ramVars,
                 Client!cmpVars
<1>6. ASSUME NEW c \in {"main", "isr"}, Client!Fault(c) PROVE Typed'
  <2>1. Later
    BY <1>0, <1>6 DEF Client!Fault
  <2>2. "exc" \in Functions /\ "epc" \in Places /\ Client!ZeroPair \in Client!Wide(ClientSpan)
    BY ClientWidths DEF Functions, Places, Client!ZeroPair, Client!Pair, Client!Wide
  <2>3. call' \in [Client!Contexts -> Calls]
    BY <1>1, <1>2, <1>6, <2>2, NewCalls DEF Client!Fault
  <2> QED BY <1>1, <1>6, <2>1, <2>3 DEF Client!Fault, Client!Trap, Client!Causes, Later, Typed
<1> QED BY <1>3, <1>4, <1>5, <1>6, LibraryTyped DEF Client!ClientStep

\* A step of the library keeps the handlers apart from what they interrupt.
LEMMA LibraryHart ==
  ASSUME Typed, Hart, Client!LibraryStep
  PROVE  Hart'
<1>1. call \in [Client!Contexts -> Calls] /\ Client!Contexts = {"main", "isr", "exc"}
        /\ running \in Client!Contexts
  BY DEF Typed, Client!Contexts
<1>2. mtime \in Client!Wide(ClientSpan) /\ time_increment \in Client!Wide(ClientSpan)
        /\ Client!ZeroPair \in Client!Wide(ClientSpan)
  BY ClientWidths DEF Typed, Client!ZeroPair, Client!Pair, Client!Wide
<1>3. {"read_high"} \subseteq Places /\ {"isr", "timer_enable"} \subseteq Functions
  BY Names
<1>4. ASSUME NEW c \in {"main", "isr"}, Client!ReadHigh(c) PROVE Hart'
  BY <1>1, <1>4, SMTT(20)
     DEF Client!ReadHigh, Client!Runs, Calls, Hart, InItsFunction, Client!hartVars, Client!csrVars
<1>5. ASSUME NEW c \in {"main", "isr"}, Client!ReadLow(c) PROVE Hart'
  BY <1>1, <1>5
     DEF Client!ReadLow, Client!Runs, Calls, Hart, InItsFunction, Client!hartVars, Client!csrVars
<1>6. ASSUME NEW c \in {"main", "isr"}, Client!ReadAgain(c) PROVE Hart'
  BY <1>1, <1>6
     DEF Client!ReadAgain, Client!Goto, Calls, Hart, InItsFunction, Client!hartVars, Client!csrVars
<1>7. ASSUME NEW c \in {"main", "isr"}, Client!MaskCompare(c) PROVE Hart'
  BY <1>1, <1>7 DEF Client!MaskCompare, Hart, InItsFunction, Client!hartVars, Client!csrVars
<1>8. ASSUME NEW c \in {"main", "isr"}, Client!WriteHigh(c) PROVE Hart'
  BY <1>1, <1>8
     DEF Client!WriteHigh, Client!Goto, Hart, InItsFunction, Client!hartVars, Client!csrVars
<1>9. ASSUME NEW c \in {"main", "isr"}, Client!WriteLow(c) PROVE Hart'
  BY <1>1, <1>9
     DEF Client!WriteLow, Client!Goto, Client!AfterUpdate, Client!Runs, Calls, Hart, InItsFunction,
         Client!hartVars, Client!csrVars
<1>10. ASSUME Client!EnableVariables PROVE Hart'
  BY <1>1, <1>10, <1>2, <1>3, NewCalls
     DEF Client!EnableVariables, Calls, Hart, InItsFunction, Client!hartVars, Client!csrVars
<1>11. ASSUME Client!EnableTimerInterrupt PROVE Hart'
  BY <1>1, <1>11 DEF Client!EnableTimerInterrupt, Client!Goto, Hart, InItsFunction
<1>12. ASSUME Client!EnableInterrupts PROVE Hart'
  BY <1>1, <1>12 DEF Client!EnableInterrupts, Client!Goto, Client!Runs, Hart, InItsFunction
<1>13. ASSUME Client!TimerDisable PROVE Hart'
  BY <1>1, <1>13, SMTT(20) DEF Client!TimerDisable, Client!Goto, Hart, InItsFunction
<1>14. ASSUME Client!LoadFirst PROVE Hart'
  BY <1>1, <1>14
     DEF Client!LoadFirst, Client!Runs, Calls, Hart, InItsFunction, Client!hartVars, Client!csrVars
<1>15. ASSUME Client!LoadOther PROVE Hart'
  BY <1>1, <1>15, SecondLoad DEF Hart, InItsFunction, Client!Runs
<1>16. ASSUME Client!Count PROVE Hart'
  BY <1>1, <1>16 DEF Client!Count, Client!Goto, Hart, InItsFunction, Client!hartVars, Client!csrVars
<1>17. ASSUME Client!Mret PROVE Hart'
  BY <1>1, <1>17, <1>2, <1>3, NewCalls DEF Client!Mret, Client!Runs, Hart, InItsFunction
<1>18. ASSUME Client!Interrupt PROVE Hart'
  BY <1>1, <1>18, <1>2, <1>3, NewCalls
     DEF Client!Interrupt, Client!Trap, Client!HandleIrq, Hart, InItsFunction
<1>19. ASSUME Client!Report PROVE Hart'
  BY <1>1, <1>19 DEF Client!Report, Client!Goto, Hart, InItsFunction, Client!csrVars
<1>20. ASSUME NEW c \in {"main", "exc"}, Client!SimHalt(c) PROVE Hart'
  BY <1>1, <1>20 DEF Client!SimHalt, Client!Goto, Hart, InItsFunction, Client!csrVars
<1>21. ~Client!SleepOn /\ ~Client!WakeUp
  BY DEF Hart, Client!SleepOn, Client!WakeUp
<1> QED
  BY <1>4, <1>5, <1>6, <1>7, <1>8, <1>9, <1>10, <1>11, <1>12, <1>13, <1>14, <1>15, <1>16, <1>17,
     <1>18, <1>19, <1>20, <1>21
     DEF Client!LibraryStep

\* A step of the client keeps the handlers apart too.
LEMMA ClientHart ==
  ASSUME Client!ClientAssumption, Typed, Hart, Client!ClientStep
  PROVE  Hart'
<1>1. call \in [Client!Contexts -> Calls] /\ Client!Contexts = {"main", "isr", "exc"}
        /\ running \in Client!Contexts
  BY DEF Typed, Client!Contexts
<1>2. /\ mtime \in Client!Wide(ClientSpan) /\ time_increment \in Client!Wide(ClientSpan)
         /\ Client!ZeroPair \in Client!Wide(ClientSpan)
      /\ Bases \subseteq Client!Wide(ClientSpan) /\ NewTimes \subseteq Client!Wide(ClientSpan)
  BY Arguments
<1>3. /\ {"enable", "cmp_mask", "read_high", "disable", "load", "epc"} \subseteq Places
      /\ {"timer_enable", "timecmp_update", "timer_read", "timer_disable", "get_elapsed_time",
          "isr", "exc"} \subseteq Functions
  BY Names
<1>4. ASSUME Client!Invoke PROVE Hart'
  BY <1>1, <1>4, <1>2, <1>3, NewCalls
     DEF Client!Invoke, Client!Begin, Client!ClientCalls, Calls, Hart, InItsFunction,
         Client!hartVars, Client!csrVars
<1>5. ASSUME Client!Return PROVE Hart'
  BY <1>1, <1>5, <1>2, <1>3, NewCalls
     DEF Client!Return, Client!Begin, Hart, InItsFunction, Client!hartVars, Client!csrVars
<1>6. ASSUME Client!Compute PROVE Hart'
  BY <1>1, <1>6 DEF Client!Compute, Hart, Client!hartVars, Client!csrVars
<1>7. ASSUME NEW c \in {"main", "isr"}, Client!Fault(c), call[c].pc \in {"idle", "count"}
      PROVE Hart'
  BY <1>1, <1>7, <1>2, <1>3, NewCalls DEF Client!Fault, Client!Trap, Hart, InItsFunction
<1> QED
  BY <1>4, <1>5, <1>6, <1>7, LibraryHart DEF Client!ClientStep

\* A call whose reading is over, or not begun, has nothing to keep but its start.
LEMMA Resting ==
  ASSUME NEW j \in Calls, NEW k \in Calls, NEW now \in Client!Wide(ClientSpan),
         NEW later \in Client!Wide(ClientSpan),
         Client!Leq(now, later), Client!Leq(j.from, now),
         k.from = j.from \/ k.from = now \/ k.from = Client!ZeroPair,
         k.pc \notin {"read_low", "read_again"}, ~Used(k)
  PROVE  FreshCall(k, later)
BY ClientWidths DEF FreshCall, Client!Leq, Calls, Client!Wide, Client!ZeroPair, Client!Pair

\* What was read stays fresh while time passes.
LEMMA Ageing ==
  ASSUME NEW k \in Calls, NEW now \in Client!Wide(ClientSpan),
         NEW later \in Client!Wide(ClientSpan), Client!Leq(now, later),
         FreshCall(k, now)
  PROVE  FreshCall(k, later)
BY DEF FreshCall, Client!Leq, Calls, Client!Wide

\* A reading stays fresh if each context's call stands, rests or is fresh anew.
LEMMA TimesStayFresh ==
  ASSUME Typed, Typed', Later, Reading,
         \A d \in {"main", "isr"} :
           \/ call'[d] = call[d]
           \/ /\ \/ call'[d].from = call[d].from
                 \/ call'[d].from = mtime
                 \/ call'[d].from = Client!ZeroPair
              /\ call'[d].pc \notin {"read_low", "read_again"} /\ ~Used(call'[d])
           \/ FreshCall(call'[d], mtime')
  PROVE  Reading'
<1> SUFFICES ASSUME NEW d \in {"main", "isr"} PROVE FreshCall(call'[d], mtime')
  BY DEF Reading
<1>1. call[d] \in Calls /\ call'[d] \in Calls /\ mtime \in Client!Wide(ClientSpan)
        /\ mtime' \in Client!Wide(ClientSpan)
  BY DEF Typed, Client!Contexts
<1>2. FreshCall(call[d], mtime) /\ Client!Leq(mtime, mtime')
  BY DEF Reading, Later
<1>3. Client!Leq(call[d].from, mtime)
  BY <1>2 DEF FreshCall
<1> QED BY <1>1, <1>2, <1>3, Resting, Ageing

\* A step of the client keeps the times that are read fresh.
LEMMA StaysFresh ==
  ASSUME Client!ClientAssumption, Typed, Typed', Hart, Reading, Client!ClientStep, Later
  PROVE  Reading'
<1>1. call \in [Client!Contexts -> Calls] /\ Client!Contexts = {"main", "isr", "exc"}
        /\ running \in Client!Contexts
  BY DEF Typed, Client!Contexts
<1>2. /\ mtime \in Client!Wide(ClientSpan) /\ time_increment \in Client!Wide(ClientSpan)
         /\ Client!ZeroPair \in Client!Wide(ClientSpan)
      /\ Bases \subseteq Client!Wide(ClientSpan) /\ NewTimes \subseteq Client!Wide(ClientSpan)
  BY Arguments
<1>3. /\ {"enable", "cmp_mask", "read_high", "disable", "load", "epc"} \subseteq Places
      /\ {"timer_enable", "timecmp_update", "timer_read", "timer_disable", "get_elapsed_time",
          "isr", "exc"} \subseteq Functions
  BY Names
<1>4. ASSUME NEW c \in {"main", "isr"}, Client!ReadHigh(c) PROVE Reading'
  <2>1. call[c] \in Calls /\ mtime \in Client!Wide(ClientSpan)
          /\ mtime' \in Client!Wide(ClientSpan) /\ Client!Leq(mtime, mtime')
    BY <1>1 DEF Typed, Later
  <2>2. FreshCall(call[c], mtime) /\ call[c].pc = "read_high"
    BY <1>4 DEF Reading, Client!ReadHigh
  <2>3. /\ call'[c].from = call[c].from /\ call'[c].time.hi = mtime.hi
        /\ call'[c].pc = "read_low" /\ call'[c].fn = call[c].fn
    BY <1>1, <1>4, <2>1 DEF Client!ReadHigh, Client!Goto, Calls
  <2>4. FreshCall(call'[c], mtime')
    BY <2>1, <2>2, <2>3 DEF FreshCall, Used, Client!Leq, Calls, Client!Wide
  <2>5. \A d \in {"main", "isr"} : d # c => call'[d] = call[d]
    BY <1>1, <1>4 DEF Client!ReadHigh, Client!Goto
  <2> QED BY <2>4, <2>5, TimesStayFresh
<1>5. ASSUME NEW c \in {"main", "isr"}, Client!ReadLow(c) PROVE Reading'
  <2>1. call[c] \in Calls /\ mtime \in Client!Wide(ClientSpan)
          /\ mtime' \in Client!Wide(ClientSpan) /\ Client!Leq(mtime, mtime')
    BY <1>1 DEF Typed, Later
  <2>2. FreshCall(call[c], mtime) /\ call[c].pc = "read_low"
    BY <1>5 DEF Reading, Client!ReadLow
  <2>3. /\ call'[c].from = call[c].from /\ call'[c].time.hi = call[c].time.hi
        /\ call'[c].time.lo = mtime.lo /\ call'[c].pc = "read_again" /\ call'[c].fn = call[c].fn
    BY <1>1, <1>5, <2>1 DEF Client!ReadLow, Client!Goto, Calls
  <2>4. FreshCall(call'[c], mtime')
    BY <2>1, <2>2, <2>3 DEF FreshCall, Used, Client!Leq, Calls, Client!Wide
  <2>5. \A d \in {"main", "isr"} : d # c => call'[d] = call[d]
    BY <1>1, <1>5 DEF Client!ReadLow, Client!Goto
  <2> QED BY <2>4, <2>5, TimesStayFresh
<1>6. ASSUME NEW c \in {"main", "isr"}, Client!ReadAgain(c) PROVE Reading'
  <2>1. call[c] \in Calls /\ mtime \in Client!Wide(ClientSpan)
          /\ mtime' \in Client!Wide(ClientSpan) /\ Client!Leq(mtime, mtime')
    BY <1>1 DEF Typed, Later
  <2>2. FreshCall(call[c], mtime) /\ call[c].pc = "read_again"
    BY <1>6 DEF Reading, Client!ReadAgain
  <2>3. /\ call'[c].from = call[c].from /\ call'[c].time = call[c].time
        /\ call'[c].fn = call[c].fn
        /\ \/ call[c].time.hi # mtime.hi /\ call'[c].pc = "read_high"
           \/ call[c].time.hi = mtime.hi /\ call'[c].pc \in {"done", "cmp_mask"}
    BY <1>1, <1>6, <2>1 DEF Client!ReadAgain, Client!Goto, Calls
  <2>4. FreshCall(call'[c], mtime')
    BY <2>1, <2>2, <2>3 DEF FreshCall, Used, Client!Leq, Calls, Client!Wide
  <2>5. \A d \in {"main", "isr"} : d # c => call'[d] = call[d]
    BY <1>1, <1>6 DEF Client!ReadAgain, Client!Goto
  <2> QED BY <2>4, <2>5, TimesStayFresh
<1>7. ASSUME NEW c \in {"main", "isr"}, Client!MaskCompare(c) PROVE Reading'
  BY <1>1, <1>7, TimesStayFresh DEF Client!MaskCompare, Used
<1>8. ASSUME NEW c \in {"main", "isr"}, Client!WriteHigh(c) PROVE Reading'
  BY <1>1, <1>8, TimesStayFresh DEF Client!WriteHigh, Client!Goto, Used
<1>9. ASSUME NEW c \in {"main", "isr"}, Client!WriteLow(c) PROVE Reading'
  BY <1>1, <1>9, TimesStayFresh
     DEF Client!WriteLow, Client!Goto, Client!AfterUpdate, Hart, InItsFunction, Used
<1>10. ASSUME Client!EnableVariables PROVE Reading'
  BY <1>1, <1>10, <1>2, <1>3, NewCalls, TimesStayFresh DEF Client!EnableVariables, Calls, Used
<1>11. ASSUME Client!EnableTimerInterrupt PROVE Reading'
  BY <1>1, <1>11, TimesStayFresh DEF Client!EnableTimerInterrupt, Client!Goto, Used
<1>12. ASSUME Client!EnableInterrupts PROVE Reading'
  BY <1>1, <1>12, TimesStayFresh DEF Client!EnableInterrupts, Client!Goto, Hart, InItsFunction, Used
<1>13. ASSUME Client!TimerDisable PROVE Reading'
  BY <1>1, <1>13, TimesStayFresh DEF Client!TimerDisable, Client!Goto, Hart, InItsFunction, Used
<1>14. ASSUME Client!LoadFirst PROVE Reading'
  BY <1>1, <1>14, TimesStayFresh DEF Client!LoadFirst, Used
<1>15. ASSUME Client!LoadOther PROVE Reading'
  <2>1. /\ call'["main"].pc = "done" /\ call'["main"].fn = "get_elapsed_time"
        /\ call'["main"].from = call["main"].from /\ call'["isr"] = call["isr"]
    BY <1>1, <1>15, SecondLoad DEF Hart, InItsFunction
  <2> QED BY <2>1, TimesStayFresh DEF Used
<1>16. ASSUME Client!Count PROVE Reading'
  BY <1>1, <1>16, TimesStayFresh DEF Client!Count, Client!Goto, Used
<1>17. ASSUME Client!Mret PROVE Reading'
  BY <1>1, <1>17, <1>2, <1>3, NewCalls, TimesStayFresh DEF Client!Mret, Used
<1>18. ASSUME Client!Interrupt PROVE Reading'
  <2>1. /\ call'["main"].fn = call["main"].fn /\ call'["main"].pc = call["main"].pc
        /\ call'["main"].from = call["main"].from /\ call'["main"].time = call["main"].time
        /\ mtime' = mtime
    BY <1>1, <1>18 DEF Client!Interrupt, Calls
  <2>2. FreshCall(call'["main"], mtime')
    BY <2>1 DEF Reading, FreshCall, Used
  <2>3. call'["isr"].from = mtime /\ call'["isr"].pc = "read_high"
    BY <1>1, <1>2, <1>3, <1>18, NewCalls DEF Client!Interrupt
  <2> QED BY <2>2, <2>3, TimesStayFresh DEF Used
<1>19. ASSUME Client!Report PROVE Reading'
  BY <1>1, <1>19, TimesStayFresh DEF Client!Report, Client!Goto
<1>20. ASSUME NEW c \in {"main", "exc"}, Client!SimHalt(c) PROVE Reading'
  BY <1>1, <1>20, TimesStayFresh DEF Client!SimHalt, Client!Goto, Used
<1>21. ASSUME Client!Invoke PROVE Reading'
  BY <1>1, <1>21, <1>2, <1>3, NewCalls, TimesStayFresh
     DEF Client!Invoke, Client!Begin, Client!ClientCalls, Calls, Used
<1>22. ASSUME Client!Return PROVE Reading'
  BY <1>1, <1>22, <1>2, <1>3, NewCalls, TimesStayFresh DEF Client!Return, Client!Begin, Used
<1>23. ASSUME Client!Compute PROVE Reading'
  BY <1>1, <1>23, TimesStayFresh DEF Client!Compute
<1>24. ASSUME NEW c \in {"main", "isr"}, Client!Fault(c), call[c].pc \in {"idle", "count"}
       PROVE Reading'
  BY <1>1, <1>24, <1>2, <1>3, NewCalls, TimesStayFresh DEF Client!Fault
<1>25. ~Client!SleepOn /\ ~Client!WakeUp
  BY DEF Hart, Client!SleepOn, Client!WakeUp
<1> QED
  BY <1>4, <1>5, <1>6, <1>7, <1>8, <1>9, <1>10, <1>11, <1>12, <1>13, <1>14, <1>15, <1>16, <1>17,
     <1>18, <1>19, <1>20, <1>21, <1>22, <1>23, <1>24, <1>25
     DEF Client!ClientStep, Client!LibraryStep

\* The first of the inductive invariants.
LEMMA TimeInvInductive ==
  ASSUME Client!ClientAssumption
  PROVE  /\ Client!ClientInit => TimeInv
         /\ TimeInv /\ [Client!ClientStep]_(Client!clientVars) => TimeInv'
<1>1. ASSUME Client!ClientInit PROVE TimeInv
  <2>1. Client!ZeroPair \in Client!Wide(ClientSpan)
          /\ Client!ZeroPair \in Client!Wide(ClientCountSpan)
    BY ClientWidths DEF Client!ZeroPair, Client!Pair, Client!Wide
  <2>2. mtime \in Client!Wide(ClientSpan) /\ Client!Leq(mtime, ClientLastTime)
    BY <1>1 DEF Client!ClientInit, Client!ClientAssumption
  <2>3. Client!NoCall \in Calls /\ Client!NoCall.fn = "none" /\ Client!NoCall.pc = "idle"
          /\ Client!NoCall.from = Client!ZeroPair
    BY <2>2, NewCalls
  <2>4. Typed
    BY <1>1, <2>1, <2>2, <2>3, EmptySeq
       DEF Typed, Client!ClientInit, Client!TimerInit, Client!Contexts, Client!Causes
  <2>5. Hart
    BY <1>1, <2>3 DEF Hart, InItsFunction, Client!ClientInit, Client!TimerInit, Client!Contexts
  <2>6. Reading
    BY <1>1, <2>2, <2>3
       DEF Reading, FreshCall, Used, Client!ClientInit, Client!TimerInit, Client!Contexts,
           Client!Leq, Client!ZeroPair, Client!Pair, Client!Wide
  <2> QED BY <2>4, <2>5, <2>6 DEF TimeInv
<1>2. ASSUME TimeInv, Client!ClientStep PROVE TimeInv'
  <2>1. Typed' /\ Hart'
    BY <1>2, ClientTyped, ClientHart DEF TimeInv
  <2>2. Later
    BY <1>2, TimeGoesOn DEF TimeInv
  <2> QED BY <1>2, <2>1, <2>2, StaysFresh DEF TimeInv
<1>3. ASSUME TimeInv, UNCHANGED Client!clientVars PROVE TimeInv'
  BY <1>3 DEF TimeInv, Typed, Hart, Reading, Client!clientVars, Client!timerVars
<1> QED BY <1>1, <1>2, <1>3

\* The behaviours of the program under the image "client" are those of the client.
LEMMA ClientRuns ==
  /\ Client!ClientAssumption
  /\ Init /\ image = "client" => Client!ClientInit
  /\ [Next]_vars /\ image' = "client" =>
       image = "client" /\ [Client!ClientStep]_(Client!clientVars)
<1>1. UNCHANGED <<timerVars, calls>> => UNCHANGED Client!clientVars
  BY Zenon DEF Client!clientVars, Client!timerVars, timerVars
<1>2. Client!ClientAssumption
  BY FirmwareAssumption
<1>3. Init /\ image = "client" => Client!ClientInit
  BY DEF Init
<1>4. ASSUME [Next]_vars, image' = "client"
      PROVE  image = "client" /\ [Client!ClientStep]_(Client!clientVars)
  <2>1. CASE UseTimer
    BY <2>1 DEF UseTimer
  <2>2. CASE UNCHANGED vars
    <3>1. UNCHANGED Client!clientVars /\ image' = image
      BY <1>1, <2>2 DEF vars
    <3> QED BY <1>4, <3>1
  <2>3. CASE Hello \/ UseConsole \/ BlinkLeds
    BY <1>4, <2>3 DEF Hello, UseConsole, BlinkLeds
  <2> QED BY <1>4, <2>1, <2>2, <2>3 DEF Next
<1> QED BY <1>2, <1>3, <1>4

\* A step of the client keeps what the two loads of get_elapsed_time rely on.
LEMMA LoadsStayWhole ==
  ASSUME Client!ClientAssumption, TimeInv, TimeInv', Loading, Client!ElapsedIsWhole,
         Client!ClientStep
  PROVE  Loading' /\ Client!ElapsedIsWhole'
<1> USE DEF TimeInv
<1>1. call \in [Client!Contexts -> Calls] /\ Client!Contexts = {"main", "isr", "exc"}
        /\ running \in Client!Contexts
  BY DEF Typed, Client!Contexts
<1>2. /\ mtime \in Client!Wide(ClientSpan) /\ time_increment \in Client!Wide(ClientSpan)
         /\ Client!ZeroPair \in Client!Wide(ClientSpan)
      /\ Bases \subseteq Client!Wide(ClientSpan) /\ NewTimes \subseteq Client!Wide(ClientSpan)
  BY Arguments
<1>3. /\ {"enable", "cmp_mask", "read_high", "disable", "load", "epc"} \subseteq Places
      /\ {"timer_enable", "timecmp_update", "timer_read", "timer_disable", "get_elapsed_time",
          "isr", "exc"} \subseteq Functions
  BY Names
<1>4. ASSUME NEW c \in {"main", "isr"}, Client!ReadHigh(c) PROVE (Loading /\ Client!ElapsedIsWhole)'
  BY <1>1, <1>4, SMTT(20)
     DEF Client!ReadHigh, Calls, Hart, InItsFunction, Loading, Client!ElapsedIsWhole,
         Client!hartVars, Client!ramVars,
         Client!cmpVars
<1>5. ASSUME NEW c \in {"main", "isr"}, Client!ReadLow(c) PROVE (Loading /\ Client!ElapsedIsWhole)'
  BY <1>1, <1>5
     DEF Client!ReadLow, Calls, Hart, InItsFunction, Loading, Client!ElapsedIsWhole,
         Client!hartVars, Client!ramVars,
         Client!cmpVars
<1>6. ASSUME NEW c \in {"main", "isr"}, Client!ReadAgain(c)
      PROVE (Loading /\ Client!ElapsedIsWhole)'
  BY <1>1, <1>6
     DEF Client!ReadAgain, Client!Goto, Calls, Loading, Client!ElapsedIsWhole, Client!ramVars
<1>7. ASSUME NEW c \in {"main", "isr"}, Client!MaskCompare(c)
      PROVE (Loading /\ Client!ElapsedIsWhole)'
  BY <1>1, <1>7 DEF Client!MaskCompare, Loading, Client!ElapsedIsWhole, Client!ramVars
<1>8. ASSUME NEW c \in {"main", "isr"}, Client!WriteHigh(c)
      PROVE (Loading /\ Client!ElapsedIsWhole)'
  BY <1>1, <1>8 DEF Client!WriteHigh, Client!Goto, Loading, Client!ElapsedIsWhole, Client!ramVars
<1>9. ASSUME NEW c \in {"main", "isr"}, Client!WriteLow(c) PROVE (Loading /\ Client!ElapsedIsWhole)'
  BY <1>1, <1>9
     DEF Client!WriteLow, Client!Goto, Client!AfterUpdate, Calls, Hart, InItsFunction, Loading,
         Client!ElapsedIsWhole,
         Client!hartVars, Client!ramVars, Client!cmpVars
<1>10. ASSUME Client!EnableVariables PROVE (Loading /\ Client!ElapsedIsWhole)'
  BY <1>1, <1>10, <1>2, <1>3, NewCalls
     DEF Client!EnableVariables, Calls, Loading, Client!ElapsedIsWhole
<1>11. ASSUME Client!EnableTimerInterrupt PROVE (Loading /\ Client!ElapsedIsWhole)'
  BY <1>1, <1>11 DEF Client!EnableTimerInterrupt, Client!Goto, Loading, Client!ElapsedIsWhole
<1>12. ASSUME Client!EnableInterrupts PROVE (Loading /\ Client!ElapsedIsWhole)'
  BY <1>1, <1>12
     DEF Client!EnableInterrupts, Client!Goto, Hart, InItsFunction, Loading, Client!ElapsedIsWhole
<1>13. ASSUME Client!TimerDisable PROVE (Loading /\ Client!ElapsedIsWhole)'
  BY <1>1, <1>13, SMTT(20)
     DEF Client!TimerDisable, Client!Goto, Hart, InItsFunction, Loading, Client!ElapsedIsWhole
<1>14. ASSUME Client!LoadFirst PROVE (Loading /\ Client!ElapsedIsWhole)'
  BY <1>1, <1>14
     DEF Client!LoadFirst, Calls, Hart, InItsFunction, Loading, Client!ElapsedIsWhole,
         Client!hartVars, Client!ramVars,
         Client!cmpVars
<1>15. ASSUME Client!LoadOther PROVE (Loading /\ Client!ElapsedIsWhole)'
  <2>1. /\ call'["main"].pc = "done" /\ UNCHANGED seen
        /\ call["main"].half = "hi" =>
             call'["main"].time = Client!Pair(call["main"].time.hi, time_elapsed.lo)
        /\ call["main"].half = "lo" =>
             call'["main"].time = Client!Pair(time_elapsed.hi, call["main"].time.lo)
    BY <1>15, SecondLoad
  <2>2. PICK s \in seen :
          \/ call["main"].half = "hi" /\ call["main"].time.hi = s.hi
          \/ call["main"].half = "lo" /\ call["main"].time.lo = s.lo
    BY <1>15, SecondLoad DEF Loading
  <2>3. time_elapsed \in seen
    BY <1>15, SecondLoad DEF Loading
  <2>4. s = Client!Pair(s.hi, s.lo) /\ time_elapsed = Client!Pair(time_elapsed.hi, time_elapsed.lo)
    BY WideNumbers, ClientWidths DEF Typed
  <2>5. s.hi # time_elapsed.hi \/ call'["main"].time \in seen
    BY <2>1, <2>2, <2>3, <2>4
  <2> QED BY <2>1, <2>2, <2>3, <2>5 DEF Loading, Client!ElapsedIsWhole
<1>16. ASSUME Client!Count PROVE (Loading /\ Client!ElapsedIsWhole)'
  BY <1>1, <1>16 DEF Client!Count, Client!Goto, Loading, Client!ElapsedIsWhole
<1>17. ASSUME Client!Mret PROVE (Loading /\ Client!ElapsedIsWhole)'
  BY <1>1, <1>17, <1>2, <1>3, NewCalls DEF Client!Mret, Loading, Client!ElapsedIsWhole
<1>18. ASSUME Client!Interrupt PROVE (Loading /\ Client!ElapsedIsWhole)'
  BY <1>1, <1>18, <1>2, <1>3, NewCalls DEF Client!Interrupt, Loading, Client!ElapsedIsWhole
<1>19. ASSUME Client!Report PROVE (Loading /\ Client!ElapsedIsWhole)'
  BY <1>1, <1>19 DEF Client!Report, Client!Goto, Loading, Client!ElapsedIsWhole, Client!ramVars
<1>20. ASSUME NEW c \in {"main", "exc"}, Client!SimHalt(c) PROVE (Loading /\ Client!ElapsedIsWhole)'
  BY <1>1, <1>20 DEF Client!SimHalt, Client!Goto, Loading, Client!ElapsedIsWhole, Client!ramVars
<1>21. ASSUME Client!Invoke PROVE (Loading /\ Client!ElapsedIsWhole)'
  BY <1>1, <1>21, <1>2, <1>3, NewCalls
     DEF Client!Invoke, Client!Begin, Client!ClientCalls, Calls, Loading, Client!ElapsedIsWhole
<1>22. ASSUME Client!Return PROVE (Loading /\ Client!ElapsedIsWhole)'
  BY <1>1, <1>22, <1>2, <1>3, NewCalls
     DEF Client!Return, Client!Begin, Loading, Client!ElapsedIsWhole
<1>23. ASSUME Client!Compute PROVE (Loading /\ Client!ElapsedIsWhole)'
  BY <1>1, <1>23 DEF Client!Compute, Loading, Client!ElapsedIsWhole
<1>24. ASSUME NEW c \in {"main", "isr"}, Client!Fault(c), call[c].pc \in {"idle", "count"}
       PROVE  (Loading /\ Client!ElapsedIsWhole)'
  BY <1>1, <1>24, <1>2, <1>3, NewCalls DEF Client!Fault, Loading, Client!ElapsedIsWhole
<1>25. ~Client!SleepOn /\ ~Client!WakeUp
  BY DEF Hart, Client!SleepOn, Client!WakeUp
<1> QED
  BY <1>4, <1>5, <1>6, <1>7, <1>8, <1>9, <1>10, <1>11, <1>12, <1>13, <1>14, <1>15, <1>16, <1>17,
     <1>18, <1>19, <1>20, <1>21, <1>22, <1>23, <1>24, <1>25
     DEF Client!ClientStep, Client!LibraryStep

\* While a context executes, the other one is not in an update, unless it is the
\* main program's and the handler knows.
LEMMA OtherUpdate ==
  ASSUME TimeInv, Setting, NEW c \in {"main", "isr"}, NEW d \in {"main", "isr"}, d # c,
         Client!Runs(c), Client!Updating(d)
  PROVE  d = "main" /\ call[d].torn /\ mixed
BY DEF TimeInv, Hart, Setting, Client!Runs, Client!Updating

\* A step of the client keeps what the updates of the compare value rely on.
LEMMA UpdatesStaySafe ==
  ASSUME Client!ClientAssumption, TimeInv, TimeInv', Setting, Client!ClientStep
  PROVE  Setting'
<1> USE DEF TimeInv
<1>1. call \in [Client!Contexts -> Calls] /\ Client!Contexts = {"main", "isr", "exc"}
        /\ running \in Client!Contexts
  BY DEF Typed, Client!Contexts
<1>2. /\ mtime \in Client!Wide(ClientSpan) /\ time_increment \in Client!Wide(ClientSpan)
         /\ Client!ZeroPair \in Client!Wide(ClientSpan)
      /\ Bases \subseteq Client!Wide(ClientSpan) /\ NewTimes \subseteq Client!Wide(ClientSpan)
  BY Arguments
<1>3. /\ {"enable", "cmp_mask", "read_high", "disable", "load", "epc"} \subseteq Places
      /\ {"timer_enable", "timecmp_update", "timer_read", "timer_disable", "get_elapsed_time",
          "isr", "exc"} \subseteq Functions
  BY Names
<1>4. ASSUME NEW c \in {"main", "isr"}, Client!ReadHigh(c) PROVE Setting'
  BY <1>1, <1>4, SMTT(20)
     DEF Client!ReadHigh, Calls, Hart, InItsFunction, Setting, Client!Updating, Client!Runs,
         Client!hartVars, Client!csrVars,
         Client!ramVars, Client!cmpVars
<1>5. ASSUME NEW c \in {"main", "isr"}, Client!ReadLow(c) PROVE Setting'
  BY <1>1, <1>5
     DEF Client!ReadLow, Calls, Hart, InItsFunction, Setting, Client!Updating, Client!Runs,
         Client!hartVars, Client!csrVars,
         Client!ramVars, Client!cmpVars
<1>6. ASSUME NEW c \in {"main", "isr"}, Client!ReadAgain(c) PROVE Setting'
  BY <1>1, <1>6
     DEF Client!ReadAgain, Client!Goto, Calls, Setting, Client!Updating, Client!hartVars,
         Client!cmpVars
<1>7. ASSUME NEW c \in {"main", "isr"}, Client!MaskCompare(c) PROVE Setting'
  <2>1. /\ call'[c].pc = "cmp_high" /\ call'[c].target = call[c].target /\ call'[c].torn = FALSE
        /\ \A d \in Client!Contexts : d # c => call'[d] = call[d]
        /\ Client!Runs(c) /\ running' = running
    BY <1>1, <1>7 DEF Client!MaskCompare, Client!hartVars
  <2>2. \A d \in {"main", "isr"} : d # c /\ Client!Updating(d) =>
            d = "main" /\ call[d].torn /\ mixed
    BY <1>1, <2>1, OtherUpdate
  <2>3. mtimecmp' = [mtimecmp EXCEPT !.lo = ClientSpan - 1]
    BY <1>7 DEF Client!MaskCompare
  <2>4. ~call["isr"].torn /\ (Client!Updating("main") /\ call["main"].torn => mixed)
    BY DEF Setting
  <2>5. mtimecmp \in Client!Wide(ClientSpan) /\ call[c].target \in Client!Wide(ClientSpan)
    BY <1>1 DEF Typed, Calls
  <2>6. asked' = asked \cup {call[c].target} /\ mixed' = mixed
    BY <1>7 DEF Client!MaskCompare
  <2>7. Client!Leq(mtimecmp, mtimecmp') /\ mtimecmp'.lo = ClientSpan - 1
    BY <2>3, <2>5, ClientWidths DEF Client!Leq, Client!Wide
  <2>8. mixed \/ \E t \in asked : Client!Leq(t, mtimecmp')
    BY <2>3, <2>5, <2>7, ClientWidths DEF Setting, Client!Wide
  <2>9. CASE c = "main"
    BY <1>1, <2>1, <2>2, <2>4, <2>6, <2>7, <2>8, <2>9 DEF Setting, Client!Updating, Client!Runs
  <2>10. CASE c = "isr"
    BY <1>1, <2>1, <2>2, <2>4, <2>6, <2>7, <2>8, <2>10 DEF Setting, Client!Updating, Client!Runs
  <2> QED BY <2>9, <2>10
<1>8. ASSUME NEW c \in {"main", "isr"}, Client!WriteHigh(c) PROVE Setting'
  <2>1. /\ call'[c].pc = "cmp_low" /\ call'[c].target = call[c].target
        /\ call'[c].torn = call[c].torn
        /\ \A d \in Client!Contexts : d # c => call'[d] = call[d]
        /\ Client!Runs(c) /\ running' = running
    BY <1>1, <1>8 DEF Client!WriteHigh, Client!Goto, Client!hartVars
  <2>2. \A d \in {"main", "isr"} : d # c /\ Client!Updating(d) =>
            d = "main" /\ call[d].torn /\ mixed
    BY <1>1, <2>1, OtherUpdate
  <2>3. mtimecmp' = [mtimecmp EXCEPT !.hi = call[c].target.hi]
    BY <1>8 DEF Client!WriteHigh
  <2>4. ~call["isr"].torn /\ (Client!Updating("main") /\ call["main"].torn => mixed)
    BY DEF Setting
  <2>5. mtimecmp \in Client!Wide(ClientSpan) /\ call[c].target \in Client!Wide(ClientSpan)
    BY <1>1 DEF Typed, Calls
  <2>6. asked' = asked /\ mixed' = mixed /\ Client!Updating(c)
    BY <1>8 DEF Client!WriteHigh, Client!Updating
  <2>7. call[c].torn => c = "main" /\ mixed
    BY <2>4, <2>6
  <2>8. ~call[c].torn => call[c].target \in asked /\ mtimecmp.lo = ClientSpan - 1
    BY <2>6 DEF Setting
  <2>9. ~call[c].torn => Client!Leq(call[c].target, mtimecmp') /\ mtimecmp'.lo = ClientSpan - 1
    BY <2>3, <2>5, <2>8, ClientWidths DEF Client!Leq, Client!Wide
  <2>10. mtimecmp'.hi = call[c].target.hi
    BY <2>3, <2>5 DEF Client!Wide
  <2> QED BY <1>1, <2>1, <2>2, <2>4, <2>6, <2>7, <2>8, <2>9, <2>10 DEF Setting, Client!Updating
<1>9. ASSUME NEW c \in {"main", "isr"}, Client!WriteLow(c) PROVE Setting'
  <2>1. /\ call'[c].pc = Client!AfterUpdate[call[c].fn] /\ call'[c].target = call[c].target
        /\ call'[c].torn = call[c].torn
        /\ \A d \in Client!Contexts : d # c => call'[d] = call[d]
        /\ Client!Runs(c) /\ running' = running
    BY <1>1, <1>9 DEF Client!WriteLow, Client!Goto, Client!hartVars
  <2>2. \A d \in {"main", "isr"} : d # c /\ Client!Updating(d) =>
            d = "main" /\ call[d].torn /\ mixed
    BY <1>1, <2>1, OtherUpdate
  <2>3. mtimecmp' = [mtimecmp EXCEPT !.lo = call[c].target.lo]
    BY <1>9 DEF Client!WriteLow
  <2>4. ~call["isr"].torn /\ (Client!Updating("main") /\ call["main"].torn => mixed)
    BY DEF Setting
  <2>5. mtimecmp \in Client!Wide(ClientSpan) /\ call[c].target \in Client!Wide(ClientSpan)
    BY <1>1 DEF Typed, Calls
  <2>6. call'[c].pc \notin {"cmp_high", "cmp_low"}
    BY <1>1, <1>9, <2>1 DEF Client!WriteLow, Client!AfterUpdate, Hart, InItsFunction
  <2>7. /\ call[c].pc = "cmp_low" /\ Client!Updating(c)
        /\ asked' = {call[d].target : d \in {e \in Client!Contexts : e = c \/ Client!Updating(e)}}
        /\ mixed' = IF c = "main" THEN call[c].torn ELSE Client!Updating("main")
    BY <1>9 DEF Client!WriteLow, Client!Updating
  <2>8. ~call[c].torn => mtimecmp.hi = call[c].target.hi
    BY <2>7 DEF Setting
  <2>9. ~call[c].torn => mtimecmp' = call[c].target
    BY <2>3, <2>5, <2>8 DEF Client!Wide
  <2>10. call[c].target \in asked' /\ Client!Leq(call[c].target, call[c].target)
    BY <1>1, <2>5, <2>7 DEF Client!Leq, Client!Wide
  <2>11. CASE c = "main"
    BY <1>1, <2>1, <2>2, <2>4, <2>6, <2>7, <2>9, <2>10, <2>11 DEF Setting, Client!Updating
  <2>12. CASE c = "isr"
    BY <1>1, <2>1, <2>2, <2>4, <2>6, <2>7, <2>9, <2>10, <2>12 DEF Setting, Client!Updating
  <2> QED BY <2>11, <2>12
<1>10. ASSUME Client!EnableVariables PROVE Setting'
  BY <1>1, <1>10, <1>2, <1>3, NewCalls
     DEF Client!EnableVariables, Calls, Setting, Client!Updating, Client!cmpVars
<1>11. ASSUME Client!EnableTimerInterrupt PROVE Setting'
  BY <1>1, <1>11
     DEF Client!EnableTimerInterrupt, Client!Goto, Setting, Client!Updating, Client!cmpVars
<1>12. ASSUME Client!EnableInterrupts PROVE Setting'
  BY <1>1, <1>12 DEF Client!EnableInterrupts, Client!Goto, Setting, Client!Updating, Client!cmpVars
<1>13. ASSUME Client!TimerDisable PROVE Setting'
  BY <1>1, <1>13, SMTT(20)
     DEF Client!TimerDisable, Client!Goto, Setting, Client!Updating, Client!cmpVars
<1>14. ASSUME Client!LoadFirst PROVE Setting'
  BY <1>1, <1>14
     DEF Client!LoadFirst, Calls, Hart, InItsFunction, Setting, Client!Updating, Client!Runs,
         Client!hartVars, Client!csrVars,
         Client!ramVars, Client!cmpVars
<1>15. ASSUME Client!LoadOther PROVE Setting'
  <2>1. /\ call'["main"].pc = "done" /\ call'["main"].torn = call["main"].torn
        /\ call'["isr"] = call["isr"] /\ call["main"].pc = "load_other"
        /\ UNCHANGED <<running, mtimecmp, asked, mixed>>
    BY <1>1, <1>15, SecondLoad
  <2> QED BY <1>1, <2>1 DEF Setting, Client!Updating
<1>16. ASSUME Client!Count PROVE Setting'
  BY <1>1, <1>16
     DEF Client!Count, Client!Goto, Setting, Client!Updating, Client!hartVars, Client!cmpVars
<1>17. ASSUME Client!Mret PROVE Setting'
  BY <1>1, <1>17, <1>2, <1>3, NewCalls DEF Client!Mret, Setting, Client!Updating, Client!Runs
<1>18. ASSUME Client!Interrupt PROVE Setting'
  <2>1. /\ call'["main"].pc = call["main"].pc /\ call'["main"].target = call["main"].target
        /\ call'["main"].torn = (call["main"].torn \/ Client!Updating("main"))
        /\ mixed' = (mixed \/ Client!Updating("main")) /\ UNCHANGED <<mtimecmp, asked>>
    BY <1>1, <1>18 DEF Client!Interrupt, Calls
  <2>2. call'["isr"].pc = "read_high" /\ ~call'["isr"].torn
    BY <1>1, <1>2, <1>3, <1>18, NewCalls DEF Client!Interrupt
  <2>3. running = "main" /\ call["isr"].pc = "idle"
    BY <1>1, <1>18 DEF Client!Interrupt, Client!HandleIrq, Hart
  <2>4. CASE Client!Updating("main")
    BY <2>1, <2>2, <2>3, <2>4 DEF Setting, Client!Updating
  <2>5. CASE ~Client!Updating("main")
    BY <2>1, <2>2, <2>3, <2>5 DEF Setting, Client!Updating
  <2> QED BY <2>4, <2>5
<1>19. ASSUME Client!Report PROVE Setting'
  BY <1>1, <1>19 DEF Client!Report, Client!Goto, Setting, Client!Updating, Client!cmpVars
<1>20. ASSUME NEW c \in {"main", "exc"}, Client!SimHalt(c) PROVE Setting'
  BY <1>1, <1>20 DEF Client!SimHalt, Client!Goto, Setting, Client!Updating, Client!cmpVars
<1>21. ASSUME Client!Invoke PROVE Setting'
  BY <1>1, <1>21, <1>2, <1>3, NewCalls
     DEF Client!Invoke, Client!Begin, Client!ClientCalls, Calls, Setting, Client!Updating,
         Client!cmpVars
<1>22. ASSUME Client!Return PROVE Setting'
  BY <1>1, <1>22, <1>2, <1>3, NewCalls
     DEF Client!Return, Client!Begin, Setting, Client!Updating, Client!cmpVars
<1>23. ASSUME Client!Compute PROVE Setting'
  BY <1>1, <1>23 DEF Client!Compute, Setting, Client!Updating, Client!cmpVars
<1>24. ASSUME NEW c \in {"main", "isr"}, Client!Fault(c), call[c].pc \in {"idle", "count"}
       PROVE Setting'
  BY <1>1, <1>24, <1>2, <1>3, NewCalls DEF Client!Fault, Setting, Client!Updating, Client!Runs
<1>25. ~Client!SleepOn /\ ~Client!WakeUp
  BY DEF Hart, Client!SleepOn, Client!WakeUp
<1> QED
  BY <1>4, <1>5, <1>6, <1>7, <1>8, <1>9, <1>10, <1>11, <1>12, <1>13, <1>14, <1>15, <1>16, <1>17,
     <1>18, <1>19, <1>20, <1>21, <1>22, <1>23, <1>24, <1>25
     DEF Client!ClientStep, Client!LibraryStep

\* A step of the client keeps the report true.
LEMMA ReportsStayTrue ==
  ASSUME Client!ClientAssumption, TimeInv, TimeInv', Reporting, Client!ClientStep
  PROVE  Reporting'
<1> USE DEF TimeInv
<1>0. ASSUME running \in {"main", "isr"}, ~halted, UNCHANGED <<running, halted>>,
             running = "isr" => call'["isr"].pc # "idle"
      PROVE  Reporting'
  BY <1>0 DEF Reporting
<1>1. call \in [Client!Contexts -> Calls] /\ Client!Contexts = {"main", "isr", "exc"}
        /\ running \in Client!Contexts
  BY DEF Typed, Client!Contexts
<1>2. /\ mtime \in Client!Wide(ClientSpan) /\ time_increment \in Client!Wide(ClientSpan)
         /\ Client!ZeroPair \in Client!Wide(ClientSpan)
      /\ Bases \subseteq Client!Wide(ClientSpan) /\ NewTimes \subseteq Client!Wide(ClientSpan)
  BY Arguments
<1>3. /\ {"enable", "cmp_mask", "read_high", "disable", "load", "epc"} \subseteq Places
      /\ {"timer_enable", "timecmp_update", "timer_read", "timer_disable", "get_elapsed_time",
          "isr", "exc"} \subseteq Functions
  BY Names
<1>4. ASSUME NEW c \in {"main", "isr"}, Client!ReadHigh(c) PROVE Reporting'
  BY <1>0, <1>1, <1>4 DEF Client!ReadHigh, Client!Goto, Calls, Client!Runs, Client!hartVars
<1>5. ASSUME NEW c \in {"main", "isr"}, Client!ReadLow(c) PROVE Reporting'
  BY <1>0, <1>1, <1>5 DEF Client!ReadLow, Client!Goto, Calls, Client!Runs, Client!hartVars
<1>6. ASSUME NEW c \in {"main", "isr"}, Client!ReadAgain(c) PROVE Reporting'
  BY <1>0, <1>1, <1>6 DEF Client!ReadAgain, Client!Goto, Calls, Client!Runs, Client!hartVars
<1>7. ASSUME NEW c \in {"main", "isr"}, Client!MaskCompare(c) PROVE Reporting'
  BY <1>0, <1>1, <1>7 DEF Client!MaskCompare, Client!Goto, Calls, Client!Runs, Client!hartVars
<1>8. ASSUME NEW c \in {"main", "isr"}, Client!WriteHigh(c) PROVE Reporting'
  BY <1>0, <1>1, <1>8 DEF Client!WriteHigh, Client!Goto, Calls, Client!Runs, Client!hartVars
<1>9. ASSUME NEW c \in {"main", "isr"}, Client!WriteLow(c) PROVE Reporting'
  <2>1. c = "isr" => call[c].fn = "isr"
    BY <1>9 DEF Client!WriteLow, Hart, InItsFunction, Client!Contexts
  <2>2. c = "isr" => call'["isr"].pc = "count"
    BY <1>1, <1>9, <2>1 DEF Client!WriteLow, Client!Goto, Client!AfterUpdate, Calls
  <2> QED BY <1>0, <1>9, <2>2 DEF Client!WriteLow, Client!Runs, Client!hartVars
<1>10. ASSUME Client!EnableVariables PROVE Reporting'
  BY <1>0, <1>10 DEF Client!EnableVariables, Client!Runs, Client!hartVars
<1>11. ASSUME Client!EnableTimerInterrupt PROVE Reporting'
  BY <1>0, <1>11 DEF Client!EnableTimerInterrupt, Client!Runs, Client!hartVars
<1>12. ASSUME Client!EnableInterrupts PROVE Reporting'
  BY <1>0, <1>12 DEF Client!EnableInterrupts, Client!Runs, Client!hartVars
<1>13. ASSUME Client!TimerDisable PROVE Reporting'
  BY <1>0, <1>13 DEF Client!TimerDisable, Client!Runs, Client!hartVars
<1>14. ASSUME Client!LoadFirst PROVE Reporting'
  BY <1>0, <1>14 DEF Client!LoadFirst, Client!Runs, Client!hartVars
<1>15. ASSUME Client!LoadOther PROVE Reporting'
  BY <1>0, <1>15 DEF Client!LoadOther, Client!Runs, Client!hartVars
<1>16. ASSUME Client!Count PROVE Reporting'
  BY <1>0, <1>1, <1>16 DEF Client!Count, Client!Goto, Calls, Client!Runs, Client!hartVars
<1>17. ASSUME Client!Mret PROVE Reporting'
  BY <1>1, <1>17, <1>2, <1>3, NewCalls DEF Client!Mret, Hart, Reporting, Client!Runs
<1>18. ASSUME Client!Interrupt PROVE Reporting'
  BY <1>1, <1>18, <1>2, <1>3, NewCalls DEF Client!Interrupt, Client!Trap, Reporting
<1>19. ASSUME Client!Report PROVE Reporting'
  <2>1. PICK pair \in {<<"epc", "cause">>, <<"cause", "tval">>, <<"tval", "halt">>} :
          /\ call["exc"].pc = pair[1] /\ call' = [call EXCEPT !["exc"].pc = pair[2]]
          /\ out' = out \o <<trap[pair[1]]>>
    BY <1>19 DEF Client!Report, Client!Goto, Client!Show
  <2>2. /\ running = "exc" /\ ~halted /\ UNCHANGED <<trap, running, halted>>
        /\ trap.epc = Faulty /\ trap.cause = "fault" /\ trap.tval = "address"
    BY <1>19 DEF Client!Report, Client!Runs, Reporting, Client!csrVars
  <2>3. call'["exc"].pc = pair[2]
    BY <1>1, <2>1 DEF Calls
  <2>4. out \in Seq(Items) /\ <<trap[pair[1]]>> \in Seq({trap[pair[1]]})
    BY DEF Typed
  <2>5. /\ Len(out) \in Nat /\ Len(out') = Len(out) + 1 /\ out'[Len(out) + 1] = trap[pair[1]]
        /\ \A i \in 1 .. Len(out) : out'[i] = out[i]
    BY <2>1, <2>4
  <2>6. Faulty' = Faulty
    BY <1>1, <2>1 DEF Faulty, Calls
  <2>7. CASE pair = <<"epc", "cause">>
    BY <2>2, <2>3, <2>5, <2>6, <2>7 DEF Reporting
  <2>8. CASE pair = <<"cause", "tval">>
    <3>1. Len(out) >= 1 /\ out[Len(out)] = Faulty
      BY <2>1, <2>2, <2>8 DEF Reporting
    <3> QED BY <2>2, <2>3, <2>5, <2>6, <2>8, <3>1 DEF Reporting
  <2>9. CASE pair = <<"tval", "halt">>
    <3>1. Len(out) >= 2 /\ out[Len(out) - 1] = Faulty /\ out[Len(out)] = "fault"
      BY <2>1, <2>2, <2>9 DEF Reporting
    <3> QED BY <2>2, <2>3, <2>5, <2>6, <2>9, <3>1 DEF Reporting
  <2> QED BY <2>7, <2>8, <2>9
<1>20. ASSUME NEW c \in {"main", "exc"}, Client!SimHalt(c) PROVE Reporting'
  <2>1. running = "exc" /\ c = "exc" /\ call["exc"].pc = "halt"
        /\ UNCHANGED <<running, trap, out>>
    BY <1>1, <1>20 DEF Client!SimHalt, Hart, Client!Runs, Client!csrVars
  <2>2. call'["exc"].pc = "idle" /\ call'["isr"] = call["isr"]
    BY <1>1, <1>20, <2>1 DEF Client!SimHalt, Client!Goto, Calls
  <2>3. Faulty' = Faulty
    BY <2>2 DEF Faulty
  <2> QED BY <2>1, <2>2, <2>3 DEF Reporting
<1>21. ASSUME Client!Invoke PROVE Reporting'
  BY <1>0, <1>21 DEF Client!Invoke, Client!Runs, Client!hartVars
<1>22. ASSUME Client!Return PROVE Reporting'
  BY <1>0, <1>22 DEF Client!Return, Client!Runs, Client!hartVars
<1>23. ASSUME Client!Compute PROVE Reporting'
  BY <1>0, <1>23 DEF Client!Compute, Client!Runs, Client!hartVars
<1>24. ASSUME NEW c \in {"main", "isr"}, Client!Fault(c), call[c].pc \in {"idle", "count"}
       PROVE Reporting'
  <2>1. /\ running = c /\ ~halted /\ halted' = halted /\ running' = "exc"
        /\ trap' = [epc |-> c, cause |-> "fault", tval |-> "address"]
        /\ call' = [call EXCEPT !["exc"] = Client!Call("exc", "epc", Client!ZeroPair)]
    BY <1>24 DEF Client!Fault, Client!Trap, Client!Runs
  <2>2. call'["exc"].pc = "epc" /\ call'["isr"] = call["isr"]
    BY <1>1, <1>2, <1>3, <2>1, NewCalls
  <2>3. c = "main" <=> call["isr"].pc = "idle"
    BY <1>24, <2>1 DEF Reporting, Hart
  <2>4. trap'.epc = Faulty'
    BY <2>1, <2>2, <2>3 DEF Faulty
  <2> QED BY <2>1, <2>2, <2>4 DEF Reporting
<1>25. ~Client!SleepOn /\ ~Client!WakeUp
  BY DEF Hart, Client!SleepOn, Client!WakeUp
<1> QED
  BY <1>4, <1>5, <1>6, <1>7, <1>8, <1>9, <1>10, <1>11, <1>12, <1>13, <1>14, <1>15, <1>16, <1>17,
     <1>18, <1>19, <1>20, <1>21, <1>22, <1>23, <1>24, <1>25
     DEF Client!ClientStep, Client!LibraryStep

--------------------------------------------------------------------------------
(* The timer library in hello_test. What follows up to the theorems is the *)
(* argument above with the words of its own timer, a core that may sleep,  *)
(* and hello_test's main in place of the client.                           *)

\* The words of hello_test's timer.
LEMMA HelloWidths ==
  /\ Span \in Nat \ {0, 1} /\ CountSpan \in Nat \ {0, 1}
  /\ LastTime \in Wide(Span) /\ TimeBase \in Wide(Span) /\ StartCycles \subseteq Wide(CountSpan)
BY TimerAssumption, HelloAssumption

HelloCalls ==
  [fn : Functions, pc : Places, half : {"hi", "lo"}, base : Wide(Span),
   time : [hi : Nat, lo : Nat], target : Wide(Span), from : Wide(Span), torn : BOOLEAN]

HelloTyped ==
  /\ mtime \in Wide(Span) /\ Leq(mtime, LastTime)
  /\ mtimecmp \in Wide(Span) /\ time_increment \in Wide(Span) /\ asked \subseteq Wide(Span)
  /\ time_elapsed \in Wide(CountSpan) /\ seen \subseteq Wide(CountSpan)
  /\ mstatus \in [mie : BOOLEAN, mpie : BOOLEAN] /\ mie \in BOOLEAN /\ mixed \in BOOLEAN
  /\ trap \in [epc : Contexts, cause : Causes, tval : {"none", "address"}]
  /\ running \in Contexts /\ call \in [Contexts -> HelloCalls] /\ halted \in BOOLEAN

\* The variables of main, and the counter.
MainTyped == HelloTypeOK /\ mcountinhibit \in BOOLEAN

\* The handler of interrupts runs with them disabled, and the main program waits.
\* Nothing faults.
HelloHart ==
  /\ \A c \in Contexts : InItsFunction(call[c])
  /\ call["main"].fn \notin {"isr", "exc"}
  /\ call["isr"].fn \in {"none", "isr"} /\ call["exc"].pc = "idle"
  /\ running # "exc" /\ (running # "main" => ~mstatus.mie)
  /\ running = "isr" => trap.epc = "main"
  /\ running = "main" => call["isr"].pc = "idle"
  /\ \A c \in Contexts : call[c].pc \in {"idle", "halt"} /\ c # "exc" => call[c].fn = "none"

\* What get_elapsed_time has loaded of its result are words of the counter.
Elapsed ==
  /\ call["main"].pc = "load_other" => call["main"].time[call["main"].half] \in 0 .. CountSpan - 1
  /\ call["main"].fn = "get_elapsed_time" /\ call["main"].pc = "done" =>
       call["main"].time \in Wide(CountSpan)

\* The high word that was read first is not above mtime's; while they are equal,
\* the low word belongs to it.
HelloFreshCall(k, now) ==
  /\ Leq(k.from, now)
  /\ k.pc \in {"read_low", "read_again"} => k.from.hi <= k.time.hi /\ k.time.hi <= now.hi
  /\ k.pc = "read_again" /\ k.time.hi = now.hi => Leq(k.from, k.time) /\ Leq(k.time, now)
  /\ Used(k) => Leq(k.from, k.time) /\ Leq(k.time, now)

HelloReading == \A c \in {"main", "isr"} : HelloFreshCall(call[c], mtime)

\* An update that nothing has interrupted has the compare value in its hands;
\* otherwise the update is known to be mixed.
HelloSetting ==
  /\ \A c \in {"main", "isr"} : Updating(c) /\ ~call[c].torn =>
       /\ call[c].target \in asked /\ mtimecmp.lo = Span - 1
       /\ call[c].pc = "cmp_low" => mtimecmp.hi = call[c].target.hi
  /\ ~call["isr"].torn
  /\ Updating("main") /\ running # "main" => call["main"].torn
  /\ Updating("main") /\ call["main"].torn => mixed
  /\ mixed \/ \E t \in asked : Leq(t, mtimecmp)
  /\ mixed \/ Updating("main") \/ Updating("isr") \/ mtimecmp \in asked

HelloInv == HelloTyped /\ HelloHart /\ Elapsed /\ HelloReading

HelloLater == mtime' \in Wide(Span) /\ Leq(mtime', LastTime) /\ Leq(mtime, mtime')

\* A step of main's own.
MainStep ==
  \/ PcountEnable("pcount_enable(0)", "reset_low", 0)
  \/ PcountReset("reset_low", "reset_high", "lo")
  \/ PcountReset("reset_high", "pcount_enable(1)", "hi")
  \/ PcountEnable("pcount_enable(1)", "greet", 1)
  \/ Greet
  \/ PcountEnable("pcount_enable(0) again", "timer_enable", 0)
  \/ EnableTimer \/ FirstElapsed \/ KeepFirst
  \/ While \/ Announce \/ Wfi

\* The call that a step of main's own leaves is begun, over, or the program's end.
MainCall(k) ==
  /\ k.from \in {mtime, ZeroPair, call["main"].from}
  /\ \/ k.fn = "none" /\ k.pc \in {"idle", "halt"}
     \/ k.fn = "timer_enable" /\ k.pc = "enable"
     \/ k.fn = "get_elapsed_time" /\ k.pc = "load"

\* The facts about numbers of two words.
LEMMA HelloWideNumbers ==
  ASSUME NEW n \in Nat \ {0}, NEW t \in Wide(n)
  PROVE  t.hi \in 0 .. n - 1 /\ t.lo \in 0 .. n - 1 /\ t = Pair(t.hi, t.lo)
BY DEF Wide, Pair

\* The next number has as many words, also behind the last one.
LEMMA HelloSuccessor ==
  ASSUME NEW n \in Nat \ {0}, NEW t \in Wide(n)
  PROVE  Succ(t, n) \in Wide(n)
<1>1. (t.hi + 1) % n \in 0 .. n - 1 /\ 0 \in 0 .. n - 1
  BY Remainder, t.hi + 1 \in Nat DEF Wide
<1>2. t.lo # n - 1 => t.hi \in 0 .. n - 1 /\ t.lo + 1 \in 0 .. n - 1
  BY DEF Wide
<1> QED BY <1>1, <1>2 DEF Wide, Succ, Pair

\* So has the sum that a compare value is computed by, its carry dropped.
LEMMA HelloSumIsWide ==
  ASSUME NEW s \in [hi : Nat, lo : Nat], NEW t \in Wide(Span)
  PROVE  Plus(s, t) \in Wide(Span)
<1> DEFINE carry == IF s.lo + t.lo >= Span THEN 1 ELSE 0
<1>1. s.hi + t.hi + carry \in Nat /\ s.lo + t.lo \in Nat /\ Span \in Nat \ {0}
  BY HelloWidths DEF Wide
<1>2. (s.hi + t.hi + carry) % Span \in 0 .. Span - 1
        /\ (s.lo + t.lo) % Span \in 0 .. Span - 1
  BY <1>1, Remainder
<1> QED BY <1>2 DEF Wide, Plus, Pair

\* A tick takes mtime forward while it is below its bound.
LEMMA HelloTimePasses ==
  ASSUME mtime \in Wide(Span), Leq(mtime, LastTime), Clock
  PROVE  HelloLater
<1>1. CASE mtime' = mtime
  BY <1>1, HelloWidths DEF HelloLater, Wide, Leq
<1>2. CASE mtime # LastTime /\ mtime' = Succ(mtime, Span)
  <2>1. mtime' \in Wide(Span)
    BY <1>2, HelloSuccessor, HelloWidths
  <2>2. \/ mtime.hi < LastTime.hi
        \/ mtime.hi = LastTime.hi /\ mtime.lo < LastTime.lo
    BY <1>2, HelloWidths DEF Wide, Leq
  <2>3. mtime.lo = Span - 1 =>
            mtime.hi + 1 <= LastTime.hi /\ (mtime.hi + 1) % Span = mtime.hi + 1
    <3> SUFFICES ASSUME mtime.lo = Span - 1
                 PROVE  /\ mtime.hi + 1 <= LastTime.hi
                        /\ (mtime.hi + 1) % Span = mtime.hi + 1
      OBVIOUS
    <3>1. mtime.hi + 1 <= LastTime.hi /\ mtime.hi + 1 \in Nat /\ mtime.hi + 1 < Span
      BY <2>2, HelloWidths DEF Wide
    <3> QED BY <3>1, Remainder, HelloWidths
  <2> QED BY <1>2, <2>1, <2>2, <2>3, HelloWidths
             DEF HelloLater, Wide, Leq, Succ, Pair
<1> QED BY <1>1, <1>2 DEF Clock

\* The calls that are begun, with what they start from.
LEMMA HelloNewCalls ==
  ASSUME mtime \in Wide(Span)
  PROVE  /\ NoCall \in HelloCalls /\ NoCall.fn = "none" /\ NoCall.pc = "idle"
         /\ NoCall.from = ZeroPair /\ ~NoCall.torn
         /\ \A f \in Functions, p \in Places, b \in Wide(Span) :
              /\ Call(f, p, b) \in HelloCalls
              /\ Call(f, p, b).fn = f /\ Call(f, p, b).pc = p
                 /\ Call(f, p, b).from = mtime
              /\ ~Call(f, p, b).torn
<1>1. ZeroPair \in Wide(Span) /\ ZeroPair \in [hi : Nat, lo : Nat]
  BY HelloWidths DEF ZeroPair, Pair, Wide
<1>2. "none" \in Functions /\ "idle" \in Places
  BY DEF Functions, Places
<1>3. /\ NoCall \in HelloCalls /\ NoCall.fn = "none" /\ NoCall.pc = "idle"
      /\ NoCall.from = ZeroPair /\ ~NoCall.torn
  BY <1>1, <1>2 DEF NoCall, HelloCalls
<1>4. ASSUME NEW f \in Functions, NEW p \in Places, NEW b \in Wide(Span)
      PROVE  /\ Call(f, p, b) \in HelloCalls
             /\ Call(f, p, b).fn = f /\ Call(f, p, b).pc = p
                /\ Call(f, p, b).from = mtime
             /\ ~Call(f, p, b).torn
  <2>1. PICK j : j = [NoCall EXCEPT !.fn = f, !.pc = p, !.base = b, !.from = mtime]
    OBVIOUS
  <2>2. Call(f, p, b) = j
    BY <2>1 DEF Call
  <2>3. j \in HelloCalls /\ j.fn = f /\ j.pc = p /\ j.from = mtime /\ ~j.torn
    BY <1>3, <2>1 DEF HelloCalls
  <2> QED BY <2>2, <2>3
<1> QED BY <1>3, <1>4

\* A call in progress goes on to another step, or ends its update.
LEMMA HelloMoves ==
  ASSUME call \in [Contexts -> HelloCalls], NEW c \in Contexts, NEW p \in Places
  PROVE  /\ [call EXCEPT ![c].pc = p] \in [Contexts -> HelloCalls]
         /\ [call EXCEPT ![c].pc = p, ![c].torn = FALSE] \in [Contexts -> HelloCalls]
<1>1. ASSUME NEW k \in HelloCalls PROVE [k EXCEPT !.pc = p] \in HelloCalls
  BY DEF HelloCalls
<1>2. ASSUME NEW k \in HelloCalls PROVE [k EXCEPT !.torn = FALSE] \in HelloCalls
  BY DEF HelloCalls
<1> QED BY <1>1, <1>2

\* A step of the library keeps the types.
LEMMA HelloLibraryTyped ==
  ASSUME HelloTyped, HelloHart, LibraryStep
  PROVE  HelloTyped'
<1>0. ASSUME Clock PROVE HelloLater
  BY <1>0, HelloTimePasses DEF HelloTyped
<1>1. call \in [Contexts -> HelloCalls]
  BY DEF HelloTyped
<1>2. /\ {"main", "isr"} \subseteq Contexts /\ {"main", "exc"} \subseteq Contexts
      /\ "main" \in Contexts /\ "isr" \in Contexts /\ "exc" \in Contexts
  BY DEF Contexts
<1>3. /\ mtime.hi \in Nat /\ mtime.lo \in Nat
      /\ mtime \in Wide(Span) /\ time_increment \in Wide(Span)
  BY DEF HelloTyped, Wide
<1>4. ASSUME NEW c \in {"main", "isr"}, ReadHigh(c) PROVE HelloTyped'
  <2>1. HelloLater
    BY <1>0, <1>4 DEF ReadHigh
  <2>2. "read_low" \in Places
    BY DEF Places
  <2>3. call' \in [Contexts -> HelloCalls]
    BY <1>1, <1>2, <1>3, <1>4, <2>2 DEF ReadHigh, HelloCalls
  <2> QED
    BY <1>4, <2>1, <2>3, HelloWidths
       DEF ReadHigh, HelloLater, HelloTyped, hartVars, csrVars, ramVars,
           cmpVars
<1>5. ASSUME NEW c \in {"main", "isr"}, ReadLow(c) PROVE HelloTyped'
  <2>1. HelloLater
    BY <1>0, <1>5 DEF ReadLow
  <2>2. "read_again" \in Places
    BY DEF Places
  <2>3. call' \in [Contexts -> HelloCalls]
    BY <1>1, <1>2, <1>3, <1>5, <2>2 DEF ReadLow, HelloCalls
  <2> QED
    BY <1>5, <2>1, <2>3, HelloWidths
       DEF ReadLow, HelloLater, HelloTyped, hartVars, csrVars, ramVars,
           cmpVars
<1>6. ASSUME NEW c \in {"main", "isr"}, ReadAgain(c) PROVE HelloTyped'
  <2>1. HelloLater
    BY <1>0, <1>6 DEF ReadAgain
  <2>2. "read_high" \in Places /\ "done" \in Places /\ "cmp_mask" \in Places
    BY DEF Places
  <2>3. call' \in [Contexts -> HelloCalls]
    <3>1. Plus(call[c].time, call[c].base) \in Wide(Span)
      BY <1>1, <1>2, HelloSumIsWide DEF HelloCalls
    <3>2. CASE Goto(c, "read_high")
      BY <1>1, <1>2, <2>2, <3>2, HelloMoves, Zenon DEF Goto
    <3>3. CASE ~Goto(c, "read_high")
      BY <1>1, <1>2, <1>6, <2>2, <3>1, <3>3 DEF ReadAgain, HelloCalls
    <3> QED BY <3>2, <3>3
  <2> QED
    BY <1>6, <2>1, <2>3, HelloWidths
       DEF ReadAgain, HelloLater, HelloTyped, hartVars, csrVars, ramVars,
           cmpVars
<1>7. ASSUME NEW c \in {"main", "isr"}, MaskCompare(c) PROVE HelloTyped'
  <2>1. HelloLater
    BY <1>0, <1>7 DEF MaskCompare
  <2>2. "cmp_high" \in Places
    BY DEF Places
  <2>3. call' \in [Contexts -> HelloCalls]
    BY <1>1, <1>2, <1>7, <2>2, HelloMoves, Zenon DEF MaskCompare
  <2>4. mtimecmp \in Wide(Span) /\ asked \subseteq Wide(Span)
          /\ Span - 1 \in 0 .. Span - 1
    BY HelloWidths DEF HelloTyped
  <2>5. \A d \in Contexts : call[d].target \in Wide(Span)
          /\ call[d].torn \in BOOLEAN
    BY <1>1 DEF HelloCalls
  <2>6. mtimecmp' \in Wide(Span)
    BY <1>2, <1>7, <2>4, <2>5 DEF MaskCompare, Wide
  <2>7. asked' \subseteq Wide(Span)
    BY <1>2, <1>7, <2>4, <2>5 DEF MaskCompare
  <2>8. Updating("main") \in BOOLEAN /\ call["main"].torn \in BOOLEAN
    BY <1>2, <2>5 DEF Updating
  <2>9. mixed' \in BOOLEAN
    BY <1>7, <2>8 DEF MaskCompare, HelloTyped
  <2> QED
    BY <1>7, <2>1, <2>3, <2>6, <2>7, <2>9
       DEF MaskCompare, HelloLater, HelloTyped, hartVars, csrVars, ramVars
<1>8. ASSUME NEW c \in {"main", "isr"}, WriteHigh(c) PROVE HelloTyped'
  <2>1. HelloLater
    BY <1>0, <1>8 DEF WriteHigh
  <2>2. "cmp_low" \in Places
    BY DEF Places
  <2>3. call' \in [Contexts -> HelloCalls]
    BY <1>1, <1>2, <1>8, <2>2, HelloMoves, Zenon DEF WriteHigh, Goto
  <2>4. mtimecmp \in Wide(Span) /\ asked \subseteq Wide(Span)
          /\ Span - 1 \in 0 .. Span - 1
    BY HelloWidths DEF HelloTyped
  <2>5. \A d \in Contexts : call[d].target \in Wide(Span)
          /\ call[d].torn \in BOOLEAN
    BY <1>1 DEF HelloCalls
  <2>6. mtimecmp' \in Wide(Span)
    BY <1>2, <1>8, <2>4, <2>5 DEF WriteHigh, Wide
  <2>7. asked' \subseteq Wide(Span)
    BY <1>2, <1>8, <2>4, <2>5 DEF WriteHigh
  <2>8. Updating("main") \in BOOLEAN /\ call["main"].torn \in BOOLEAN
    BY <1>2, <2>5 DEF Updating
  <2>9. mixed' \in BOOLEAN
    BY <1>8, <2>8 DEF WriteHigh, HelloTyped
  <2> QED
    BY <1>8, <2>1, <2>3, <2>6, <2>7, <2>9
       DEF WriteHigh, HelloLater, HelloTyped, hartVars, csrVars, ramVars
<1>9. ASSUME NEW c \in {"main", "isr"}, WriteLow(c) PROVE HelloTyped'
  <2>1. HelloLater
    BY <1>0, <1>9 DEF WriteLow
  <2>2. "count" \in Places /\ "set_mie" \in Places /\ "done" \in Places
    BY DEF Places
  <2>3. call[c].fn \in {"isr", "timer_enable", "timecmp_update"}
    BY <1>2, <1>9 DEF WriteLow, HelloHart, InItsFunction
  <2>4. AfterUpdate[call[c].fn] \in Places
    BY <2>2, <2>3 DEF AfterUpdate
  <2>5. call' \in [Contexts -> HelloCalls]
    BY <1>1, <1>2, <1>9, <2>4, HelloMoves, Zenon DEF WriteLow, Goto
  <2>6. mtimecmp \in Wide(Span) /\ asked \subseteq Wide(Span)
          /\ Span - 1 \in 0 .. Span - 1
    BY HelloWidths DEF HelloTyped
  <2>7. \A d \in Contexts : call[d].target \in Wide(Span)
          /\ call[d].torn \in BOOLEAN
    BY <1>1 DEF HelloCalls
  <2>8. mtimecmp' \in Wide(Span)
    BY <1>2, <1>9, <2>6, <2>7 DEF WriteLow, Wide
  <2>9. asked' \subseteq Wide(Span)
    BY <1>2, <1>9, <2>6, <2>7 DEF WriteLow
  <2>10. Updating("main") \in BOOLEAN /\ call["main"].torn \in BOOLEAN
    BY <1>2, <2>7 DEF Updating
  <2>11. mixed' \in BOOLEAN
    BY <1>9, <2>10 DEF WriteLow, HelloTyped
  <2> QED
    BY <1>9, <2>1, <2>5, <2>8, <2>9, <2>11
       DEF WriteLow, HelloLater, HelloTyped, hartVars, csrVars, ramVars
<1>10. ASSUME EnableVariables PROVE HelloTyped'
  <2>1. HelloLater
    BY <1>0, <1>10 DEF EnableVariables
  <2>2. "read_high" \in Places
    BY DEF Places
  <2>3. "timer_enable" \in Functions
    BY DEF Functions
  <2>4. call["main"].base \in Wide(Span)
    BY <1>1, <1>2 DEF HelloCalls
  <2>5. ZeroPair \in Wide(CountSpan)
    BY HelloWidths DEF ZeroPair, Pair, Wide
  <2>6. call' \in [Contexts -> HelloCalls]
    BY <1>1, <1>2, <1>3, <1>10, <2>2, <2>3, <2>4, HelloNewCalls DEF EnableVariables, HelloCalls
  <2> QED
    BY <1>10, <2>1, <2>6, <2>4, <2>5, HelloWidths
       DEF EnableVariables, HelloLater, HelloTyped, hartVars, csrVars, cmpVars
<1>11. ASSUME EnableTimerInterrupt PROVE HelloTyped'
  <2>1. HelloLater
    BY <1>0, <1>11 DEF EnableTimerInterrupt
  <2>2. "set_mstatus" \in Places
    BY DEF Places
  <2>3. call' \in [Contexts -> HelloCalls]
    BY <1>1, <1>2, <1>11, <2>2, HelloMoves, Zenon DEF EnableTimerInterrupt, Goto
  <2> QED
    BY <1>11, <2>1, <2>3, HelloWidths
       DEF EnableTimerInterrupt, HelloLater, HelloTyped, ramVars, cmpVars
<1>12. ASSUME EnableInterrupts PROVE HelloTyped'
  <2>1. HelloLater
    BY <1>0, <1>12 DEF EnableInterrupts
  <2>2. "done" \in Places
    BY DEF Places
  <2>3. call' \in [Contexts -> HelloCalls]
    BY <1>1, <1>2, <1>12, <2>2, HelloMoves, Zenon DEF EnableInterrupts, Goto
  <2> QED
    BY <1>12, <2>1, <2>3, HelloWidths
       DEF EnableInterrupts, HelloLater, HelloTyped, ramVars, cmpVars
<1>13. ASSUME TimerDisable PROVE HelloTyped'
  <2>1. HelloLater
    BY <1>0, <1>13 DEF TimerDisable
  <2>2. "done" \in Places
    BY DEF Places
  <2>3. call' \in [Contexts -> HelloCalls]
    BY <1>1, <1>2, <1>13, <2>2, HelloMoves, Zenon DEF TimerDisable, Goto
  <2> QED
    BY <1>13, <2>1, <2>3, HelloWidths
       DEF TimerDisable, HelloLater, HelloTyped, ramVars, cmpVars
<1>14. ASSUME LoadFirst PROVE HelloTyped'
  <2>1. HelloLater
    BY <1>0, <1>14 DEF LoadFirst
  <2>2. "load_other" \in Places
    BY DEF Places
  <2>3. call' \in [Contexts -> HelloCalls]
    BY <1>1, <1>2, <1>3, <1>14, <2>2 DEF LoadFirst, HelloCalls
  <2> QED
    BY <1>14, <2>1, <2>3, HelloWidths
       DEF LoadFirst, HelloLater, HelloTyped, hartVars, csrVars, ramVars,
           cmpVars
<1>15. ASSUME LoadOther PROVE HelloTyped'
  <2>1. HelloLater
    BY <1>0, <1>15 DEF LoadOther
  <2>2. "done" \in Places
    BY DEF Places
  <2>3. call' \in [Contexts -> HelloCalls]
    BY <1>1, <1>2, <1>3, <1>15, <2>2 DEF LoadOther, HelloCalls
  <2> QED
    BY <1>15, <2>1, <2>3, HelloWidths
       DEF LoadOther, HelloLater, HelloTyped, hartVars, csrVars, ramVars,
           cmpVars
<1>16. ASSUME Count PROVE HelloTyped'
  <2>1. HelloLater
    BY <1>0, <1>16 DEF Count
  <2>2. "mret" \in Places
    BY DEF Places
  <2>3. Succ(time_elapsed, CountSpan) \in Wide(CountSpan)
    BY HelloSuccessor, HelloWidths DEF HelloTyped
  <2>4. call' \in [Contexts -> HelloCalls]
    BY <1>1, <1>2, <1>16, <2>2, HelloMoves, Zenon DEF Count, Goto
  <2> QED
    BY <1>16, <2>1, <2>4, <2>3, HelloWidths
       DEF Count, HelloLater, HelloTyped, hartVars, csrVars, cmpVars
<1>17. ASSUME Mret PROVE HelloTyped'
  <2>1. HelloLater
    BY <1>0, <1>17 DEF Mret
  <2>2. "idle" \in Places
    BY DEF Places
  <2>3. call' \in [Contexts -> HelloCalls]
    BY <1>1, <1>2, <1>3, <1>17, <2>2, HelloNewCalls DEF Mret, HelloCalls
  <2> QED
    BY <1>17, <2>1, <2>3, HelloWidths DEF Mret, HelloLater, HelloTyped
<1>18. ASSUME Interrupt PROVE HelloTyped'
  <2>1. "read_high" \in Places
    BY DEF Places
  <2>2. "isr" \in Functions
    BY DEF Functions
  <2>3. Updating("main") \in BOOLEAN
    BY DEF Updating
  <2>4. \A k \in HelloCalls : [k EXCEPT !.torn = k.torn \/ Updating("main")] \in HelloCalls
    BY <2>3 DEF HelloCalls
  <2>5. call' \in [Contexts -> HelloCalls]
    BY <1>1, <1>2, <1>3, <1>18, <2>1, HelloNewCalls, <2>2, <2>3, <2>4, SMTT(20)
       DEF Interrupt, HelloCalls
  <2> QED
    BY <1>18, <2>5, <1>2, <2>3, HelloWidths DEF Interrupt, HelloTyped, Trap, Causes
<1>19. ~Report
  BY DEF HelloInv, HelloHart, Report, Runs
<1>20. ASSUME NEW c \in {"main", "exc"}, SimHalt(c) PROVE HelloTyped'
  <2>1. HelloLater
    BY <1>0, <1>20 DEF SimHalt
  <2>2. "idle" \in Places
    BY DEF Places
  <2>3. call' \in [Contexts -> HelloCalls]
    BY <1>1, <1>2, <1>20, <2>2, HelloMoves, Zenon DEF SimHalt, Goto
  <2> QED
    BY <1>20, <2>1, <2>3, HelloWidths
       DEF SimHalt, HelloLater, HelloTyped, csrVars, ramVars, cmpVars
<1>21. ASSUME SleepOn PROVE HelloTyped'
  <2>1. HelloLater
    BY <1>0, <1>21 DEF SleepOn, Clock
  <2> QED BY <1>1, <1>21, <2>1 DEF SleepOn, HelloLater, HelloTyped, ramVars, csrVars, cmpVars
<1>22. ASSUME WakeUp PROVE HelloTyped'
  BY <1>1, <1>22 DEF WakeUp, HelloTyped, ramVars, csrVars, cmpVars
<1> QED
  BY <1>4, <1>5, <1>6, <1>7, <1>8, <1>9, <1>10, <1>11, <1>12, <1>13, <1>14, <1>15, <1>16, <1>17,
     <1>18, <1>19, <1>20, <1>21, <1>22
     DEF LibraryStep

\* The second load of get_elapsed_time, for each half that it may take.
LEMMA HelloSecondLoad ==
  ASSUME HelloTyped, LoadOther
  PROVE  /\ Clock /\ running = "main" /\ call["main"].pc = "load_other"
         /\ call'["main"].pc = "done" /\ call'["main"].fn = call["main"].fn
         /\ call'["main"].from = call["main"].from /\ call'["main"].torn = call["main"].torn
         /\ call'["main"].target = call["main"].target
         /\ \A c \in Contexts : c # "main" => call'[c] = call[c]
         /\ call["main"].half = "hi" =>
              call'["main"].time = Pair(call["main"].time.hi, time_elapsed.lo)
         /\ call["main"].half = "lo" =>
              call'["main"].time = Pair(time_elapsed.hi, call["main"].time.lo)
         /\ UNCHANGED <<mie, mstatus, trap, running, asleep, out, halted>>
         /\ UNCHANGED <<time_elapsed, time_increment, mtimecmp, asked, mixed, seen>>
<1>1. call \in [Contexts -> HelloCalls] /\ "main" \in Contexts
        /\ call["main"].half \in {"hi", "lo"}
  BY DEF HelloTyped, Contexts, HelloCalls
<1>2. CASE call["main"].half = "hi"
  <2>1. call' = [call EXCEPT !["main"].time.lo = time_elapsed.lo, !["main"].pc = "done"]
    BY <1>2 DEF LoadOther
  <2> QED BY <1>1, <1>2, <2>1 DEF LoadOther, HelloCalls
<1>3. CASE call["main"].half = "lo"
  <2>1. call' = [call EXCEPT !["main"].time.hi = time_elapsed.hi, !["main"].pc = "done"]
    BY <1>3 DEF LoadOther
  <2> QED BY <1>1, <1>3, <2>1 DEF LoadOther, HelloCalls
<1> QED BY <1>1, <1>2, <1>3

\* A step of the library keeps the handlers apart from what they interrupt.
LEMMA HelloLibraryHart ==
  ASSUME HelloTyped, HelloHart, LibraryStep
  PROVE  HelloHart'
<1>1. call \in [Contexts -> HelloCalls] /\ Contexts = {"main", "isr", "exc"}
        /\ running \in Contexts
  BY DEF HelloTyped, Contexts
<1>2. mtime \in Wide(Span) /\ time_increment \in Wide(Span)
        /\ ZeroPair \in Wide(Span)
  BY HelloWidths DEF HelloTyped, ZeroPair, Pair, Wide
<1>3. {"read_high"} \subseteq Places /\ {"isr", "timer_enable"} \subseteq Functions
  BY Names
<1>4. ASSUME NEW c \in {"main", "isr"}, ReadHigh(c) PROVE HelloHart'
  BY <1>1, <1>4, SMTT(20)
     DEF ReadHigh, Runs, HelloCalls, HelloHart, InItsFunction, hartVars, csrVars
<1>5. ASSUME NEW c \in {"main", "isr"}, ReadLow(c) PROVE HelloHart'
  BY <1>1, <1>5
     DEF ReadLow, Runs, HelloCalls, HelloHart, InItsFunction, hartVars, csrVars
<1>6. ASSUME NEW c \in {"main", "isr"}, ReadAgain(c) PROVE HelloHart'
  BY <1>1, <1>6
     DEF ReadAgain, Goto, HelloCalls, HelloHart, InItsFunction, hartVars, csrVars
<1>7. ASSUME NEW c \in {"main", "isr"}, MaskCompare(c) PROVE HelloHart'
  BY <1>1, <1>7 DEF MaskCompare, HelloHart, InItsFunction, hartVars, csrVars
<1>8. ASSUME NEW c \in {"main", "isr"}, WriteHigh(c) PROVE HelloHart'
  BY <1>1, <1>8
     DEF WriteHigh, Goto, HelloHart, InItsFunction, hartVars, csrVars
<1>9. ASSUME NEW c \in {"main", "isr"}, WriteLow(c) PROVE HelloHart'
  BY <1>1, <1>9
     DEF WriteLow, Goto, AfterUpdate, Runs, HelloCalls, HelloHart, InItsFunction,
         hartVars, csrVars
<1>10. ASSUME EnableVariables PROVE HelloHart'
  BY <1>1, <1>10, <1>2, <1>3, HelloNewCalls
     DEF EnableVariables, HelloCalls, HelloHart, InItsFunction, hartVars, csrVars
<1>11. ASSUME EnableTimerInterrupt PROVE HelloHart'
  BY <1>1, <1>11 DEF EnableTimerInterrupt, Goto, HelloHart, InItsFunction
<1>12. ASSUME EnableInterrupts PROVE HelloHart'
  BY <1>1, <1>12 DEF EnableInterrupts, Goto, Runs, HelloHart, InItsFunction
<1>13. ASSUME TimerDisable PROVE HelloHart'
  BY <1>1, <1>13, SMTT(20) DEF TimerDisable, Goto, HelloHart, InItsFunction
<1>14. ASSUME LoadFirst PROVE HelloHart'
  BY <1>1, <1>14
     DEF LoadFirst, Runs, HelloCalls, HelloHart, InItsFunction, hartVars, csrVars
<1>15. ASSUME LoadOther PROVE HelloHart'
  BY <1>1, <1>15, HelloSecondLoad DEF HelloHart, InItsFunction, Runs
<1>16. ASSUME Count PROVE HelloHart'
  BY <1>1, <1>16 DEF Count, Goto, HelloHart, InItsFunction, hartVars, csrVars
<1>17. ASSUME Mret PROVE HelloHart'
  BY <1>1, <1>17, <1>2, <1>3, HelloNewCalls DEF Mret, Runs, HelloHart, InItsFunction
<1>18. ASSUME Interrupt PROVE HelloHart'
  BY <1>1, <1>18, <1>2, <1>3, HelloNewCalls
     DEF Interrupt, Trap, HandleIrq, HelloHart, InItsFunction
<1>19. ~Report
  BY DEF HelloInv, HelloHart, Report, Runs
<1>20. ASSUME NEW c \in {"main", "exc"}, SimHalt(c) PROVE HelloHart'
  BY <1>1, <1>20 DEF SimHalt, Goto, HelloHart, InItsFunction, csrVars
<1>21. ASSUME SleepOn PROVE HelloHart'
  BY <1>1, <1>21 DEF SleepOn, HelloHart, csrVars
<1>22. ASSUME WakeUp PROVE HelloHart'
  BY <1>1, <1>22 DEF WakeUp, HelloHart, csrVars
<1> QED
  BY <1>4, <1>5, <1>6, <1>7, <1>8, <1>9, <1>10, <1>11, <1>12, <1>13, <1>14, <1>15, <1>16, <1>17,
     <1>18, <1>19, <1>20, <1>21, <1>22
     DEF LibraryStep

\* A step of main's own leaves the timer, the handler and its variables alone.
LEMMA MainMoves ==
  ASSUME HelloTyped, HelloHart, MainStep
  PROVE  /\ Clock /\ Runs("main") /\ call["main"].pc \in {"idle", "done"}
         /\ call' \in [Contexts -> HelloCalls]
         /\ call'["isr"] = call["isr"] /\ call'["exc"] = call["exc"]
         /\ call' = call \/ MainCall(call'["main"])
         /\ UNCHANGED <<mtimecmp, mie, mstatus, trap, running, halted>>
         /\ UNCHANGED <<time_elapsed, time_increment, asked, mixed, seen>>
<1> DEFINE Kept == /\ UNCHANGED <<mtimecmp, mie, mstatus, trap, running, halted>>
                   /\ UNCHANGED <<time_elapsed, time_increment, asked, mixed, seen>>
           Moved == /\ call' \in [Contexts -> HelloCalls]
                    /\ call'["isr"] = call["isr"] /\ call'["exc"] = call["exc"]
                    /\ call' = call \/ MainCall(call'["main"])
<1>1. call \in [Contexts -> HelloCalls] /\ Contexts = {"main", "isr", "exc"}
  BY DEF HelloTyped, Contexts
<1>2. mtime \in Wide(Span) /\ TimeBase \in Wide(Span) /\ ZeroPair \in Wide(Span)
  BY HelloWidths DEF HelloTyped, ZeroPair, Pair, Wide
<1>3. {"enable", "load", "halt"} \subseteq Places
        /\ {"timer_enable", "get_elapsed_time"} \subseteq Functions
  BY DEF Places, Functions
<1>4. ASSUME call' = call PROVE Moved
  BY <1>1, <1>4
<1>5. ASSUME Begin("timer_enable", "enable", TimeBase) PROVE Moved
  BY <1>1, <1>2, <1>3, <1>5, HelloNewCalls DEF Begin, MainCall
<1>6. ASSUME Begin("get_elapsed_time", "load", ZeroPair) PROVE Moved
  BY <1>1, <1>2, <1>3, <1>6, HelloNewCalls DEF Begin, MainCall
<1>7. ASSUME Finish PROVE Moved
  BY <1>1, <1>2, <1>7, HelloNewCalls DEF Finish, MainCall
<1>8. ASSUME call' = [call EXCEPT !["main"].pc = "halt"], call["main"].pc = "idle" PROVE Moved
  <2>1. call["main"] \in HelloCalls /\ call["main"].fn = "none"
    BY <1>1, <1>8 DEF HelloHart
  <2>2. call' \in [Contexts -> HelloCalls]
    BY <1>1, <1>3, <1>8, HelloMoves, Zenon
  <2>3. call'["main"].pc = "halt" /\ call'["main"].fn = "none"
          /\ call'["main"].from = call["main"].from
    BY <1>1, <1>8, <2>1 DEF HelloCalls
  <2> QED BY <1>1, <1>8, <2>2, <2>3 DEF MainCall
<1> HIDE DEF Moved
<1>9. Clock /\ Runs("main") /\ call["main"].pc \in {"idle", "done"} /\ Kept
  BY DEF MainStep, PcountEnable, PcountReset, Greet, EnableTimer, FirstElapsed, KeepFirst, While,
         Announce, Wfi, Step, Returned, Quiet, csrVars, ramVars, cmpVars
<1>10. Moved
  <2>1. \/ call' = call \/ Begin("timer_enable", "enable", TimeBase) \/ Finish
        \/ Begin("get_elapsed_time", "load", ZeroPair)
        \/ call' = [call EXCEPT !["main"].pc = "halt"] /\ call["main"].pc = "idle"
    <3>1. ASSUME While
          PROVE  \/ Begin("get_elapsed_time", "load", ZeroPair)
                 \/ call' = [call EXCEPT !["main"].pc = "halt"] /\ call["main"].pc = "idle"
      BY <3>1, Zenon DEF While, Step
    <3>2. ASSUME FirstElapsed PROVE Begin("get_elapsed_time", "load", ZeroPair)
      BY <3>2 DEF FirstElapsed
    <3>3. ASSUME EnableTimer PROVE Begin("timer_enable", "enable", TimeBase)
      BY <3>3 DEF EnableTimer
    <3>4. ASSUME KeepFirst \/ Announce PROVE Finish
      BY <3>4 DEF KeepFirst, Announce
    <3>5. ASSUME \/ PcountEnable("pcount_enable(0)", "reset_low", 0)
                 \/ PcountReset("reset_low", "reset_high", "lo")
                 \/ PcountReset("reset_high", "pcount_enable(1)", "hi")
                 \/ PcountEnable("pcount_enable(1)", "greet", 1) \/ Greet
                 \/ PcountEnable("pcount_enable(0) again", "timer_enable", 0) \/ Wfi
          PROVE  call' = call
      BY <3>5 DEF PcountEnable, PcountReset, Greet, Wfi
    <3> QED BY <3>1, <3>2, <3>3, <3>4, <3>5, Zenon DEF MainStep
  <2> QED BY <2>1, <1>4, <1>5, <1>6, <1>7, <1>8
<1> QED BY <1>9, <1>10 DEF Moved

\* No step of hello_test takes time back.
LEMMA HelloTimeGoesOn ==
  ASSUME HelloTyped, HelloHart, HelloStep
  PROVE  HelloLater
<1>1. ASSUME Clock PROVE HelloLater
  BY <1>1, HelloTimePasses DEF HelloTyped
<1>2. mtime \in Wide(Span) /\ Leq(mtime, LastTime)
  BY DEF HelloTyped
<1>3. Leq(mtime, mtime)
  BY <1>2 DEF Leq, Wide
<1>4. ASSUME UNCHANGED mtime PROVE HelloLater
  BY <1>2, <1>3, <1>4 DEF HelloLater
<1>5. CASE LibraryStep
  <2>1. Clock \/ UNCHANGED mtime
    BY <1>5 DEF LibraryStep, ReadHigh, ReadLow, ReadAgain, MaskCompare, WriteHigh, WriteLow,
                EnableVariables, EnableTimerInterrupt, EnableInterrupts, TimerDisable, LoadFirst,
                LoadOther, Count, Mret, Interrupt, Report, SimHalt, SleepOn, WakeUp, Clock
  <2> QED BY <2>1, <1>1, <1>4
<1>6. CASE MainStep
  BY <1>1, <1>6, MainMoves
<1> QED BY <1>5, <1>6 DEF HelloStep, MainStep

\* A step of hello_test keeps the types.
LEMMA HelloTypedKept ==
  ASSUME HelloTyped, HelloHart, HelloStep
  PROVE  HelloTyped'
<1>1. CASE LibraryStep
  BY <1>1, HelloLibraryTyped
<1>2. CASE MainStep
  BY <1>2, MainMoves, HelloTimeGoesOn DEF HelloTyped, HelloLater
<1> QED BY <1>1, <1>2 DEF HelloStep, MainStep

\* It keeps the handler apart from what it interrupts.
LEMMA HelloHartKept ==
  ASSUME HelloTyped, HelloHart, HelloStep
  PROVE  HelloHart'
<1>1. CASE LibraryStep
  BY <1>1, HelloLibraryHart
<1>2. CASE MainStep
  <2>1. Contexts = {"main", "isr", "exc"}
    BY DEF Contexts
  <2> QED BY <1>2, <2>1, MainMoves DEF HelloHart, InItsFunction, MainCall
<1> QED BY <1>1, <1>2 DEF HelloStep, MainStep

\* A step that has nothing to do with the two loads leaves their result alone.
LEMMA ElapsedStands ==
  ASSUME Elapsed,
         \/ call'["main"].pc \notin {"load_other", "done"}
         \/ call'["main"].pc = "done" /\ call'["main"].fn # "get_elapsed_time"
         \/ /\ call'["main"].pc = call["main"].pc /\ call'["main"].fn = call["main"].fn
            /\ call'["main"].time = call["main"].time /\ call'["main"].half = call["main"].half
  PROVE  Elapsed'
BY DEF Elapsed

\* It loads words of the counter.
LEMMA ElapsedKept ==
  ASSUME HelloTyped, HelloHart, Elapsed, HelloStep
  PROVE  Elapsed'
<1>1. call \in [Contexts -> HelloCalls] /\ Contexts = {"main", "isr", "exc"}
        /\ running \in Contexts
  BY DEF HelloTyped, Contexts
<1>2. mtime \in Wide(Span) /\ time_increment \in Wide(Span) /\ ZeroPair \in Wide(Span)
        /\ time_elapsed.hi \in 0 .. CountSpan - 1 /\ time_elapsed.lo \in 0 .. CountSpan - 1
  BY HelloWidths DEF HelloTyped, ZeroPair, Pair, Wide
<1>3. {"read_high"} \subseteq Places /\ {"isr", "timer_enable"} \subseteq Functions
  BY Names
<1>4. ASSUME NEW c \in {"main", "isr"}, ReadHigh(c) PROVE Elapsed'
  BY <1>1, <1>2, <1>4, ElapsedStands, SMTT(20) DEF ReadHigh, HelloCalls
<1>5. ASSUME NEW c \in {"main", "isr"}, ReadLow(c) PROVE Elapsed'
  BY <1>1, <1>2, <1>5, ElapsedStands, SMTT(20) DEF ReadLow, HelloCalls
<1>6. ASSUME NEW c \in {"main", "isr"}, ReadAgain(c) PROVE Elapsed'
  <2>1. call[c].fn \in {"isr", "timer_enable", "timer_read"} /\ c \in Contexts
    BY <1>1, <1>6 DEF ReadAgain, HelloHart, InItsFunction
  <2>2. call'[c].pc \in {"read_high", "done", "cmp_mask"} /\ call'[c].fn = call[c].fn
          /\ \A e \in Contexts : e # c => call'[e] = call[e]
    BY <1>1, <1>6, <2>1 DEF ReadAgain, Goto, HelloCalls
  <2> QED BY <1>1, <2>1, <2>2, ElapsedStands
<1>7. ASSUME NEW c \in {"main", "isr"}, MaskCompare(c) PROVE Elapsed'
  BY <1>1, <1>7, ElapsedStands DEF MaskCompare
<1>8. ASSUME NEW c \in {"main", "isr"}, WriteHigh(c) PROVE Elapsed'
  BY <1>1, <1>8, ElapsedStands DEF WriteHigh, Goto
<1>9. ASSUME NEW c \in {"main", "isr"}, WriteLow(c) PROVE Elapsed'
  <2>1. call[c].fn \in {"isr", "timer_enable", "timecmp_update"} /\ c \in Contexts
    BY <1>1, <1>9 DEF WriteLow, HelloHart, InItsFunction
  <2>2. call'[c].pc \in {"count", "set_mie", "done"} /\ call'[c].fn = call[c].fn
          /\ \A e \in Contexts : e # c => call'[e] = call[e]
    BY <1>1, <1>9, <2>1 DEF WriteLow, Goto, AfterUpdate, HelloCalls
  <2> QED BY <1>1, <2>1, <2>2, ElapsedStands
<1>10. ASSUME EnableVariables PROVE Elapsed'
  <2>1. call'["main"].pc = "read_high"
    BY <1>1, <1>2, <1>3, <1>10, HelloNewCalls DEF EnableVariables, HelloCalls
  <2> QED BY <2>1, ElapsedStands
<1>11. ASSUME EnableTimerInterrupt PROVE Elapsed'
  BY <1>1, <1>11, ElapsedStands DEF EnableTimerInterrupt, Goto
<1>12. ASSUME EnableInterrupts PROVE Elapsed'
  BY <1>1, <1>12, ElapsedStands DEF EnableInterrupts, Goto, HelloHart, InItsFunction
<1>13. ASSUME TimerDisable PROVE Elapsed'
  BY <1>1, <1>13, ElapsedStands DEF TimerDisable, Goto, HelloHart, InItsFunction
<1>14. ASSUME LoadFirst PROVE Elapsed'
  <2>1. PICK h \in {"hi", "lo"} :
          call' = [call EXCEPT !["main"].time[h] = time_elapsed[h],
                               !["main"].half = h, !["main"].pc = "load_other"]
    BY <1>14 DEF LoadFirst
  <2>2. call'["main"].pc = "load_other" /\ call'["main"].half = h
          /\ call'["main"].time[h] = time_elapsed[h]
    BY <1>1, <2>1 DEF HelloCalls
  <2>3. time_elapsed[h] \in 0 .. CountSpan - 1
    BY <1>2
  <2> QED BY <2>2, <2>3 DEF Elapsed
<1>15. ASSUME LoadOther PROVE Elapsed'
  <2>1. /\ call'["main"].pc = "done"
        /\ call["main"].half = "hi" =>
             call'["main"].time = Pair(call["main"].time.hi, time_elapsed.lo)
        /\ call["main"].half = "lo" =>
             call'["main"].time = Pair(time_elapsed.hi, call["main"].time.lo)
    BY <1>15, HelloSecondLoad
  <2>2. call["main"].time[call["main"].half] \in 0 .. CountSpan - 1
          /\ call["main"].half \in {"hi", "lo"}
    BY <1>1, <1>15 DEF LoadOther, Elapsed, HelloCalls
  <2>3. call'["main"].time \in Wide(CountSpan)
    BY <1>2, <2>1, <2>2 DEF Pair, Wide
  <2> QED BY <2>1, <2>3 DEF Elapsed
<1>16. ASSUME Count PROVE Elapsed'
  BY <1>1, <1>16, ElapsedStands DEF Count, Goto
<1>17. ASSUME Mret PROVE Elapsed'
  BY <1>1, <1>17, ElapsedStands DEF Mret
<1>18. ASSUME Interrupt PROVE Elapsed'
  <2>1. /\ call'["main"].pc = call["main"].pc /\ call'["main"].fn = call["main"].fn
        /\ call'["main"].time = call["main"].time /\ call'["main"].half = call["main"].half
    BY <1>1, <1>18 DEF Interrupt, HelloCalls
  <2> QED BY <2>1, ElapsedStands
<1>19. ~Report
  BY DEF HelloHart, Report, Runs
<1>20. ASSUME NEW c \in {"main", "exc"}, SimHalt(c) PROVE Elapsed'
  BY <1>1, <1>20, ElapsedStands DEF SimHalt, Goto
<1>21. ASSUME SleepOn \/ WakeUp PROVE Elapsed'
  BY <1>1, <1>21, ElapsedStands DEF SleepOn, WakeUp
<1>22. ASSUME MainStep PROVE Elapsed'
  BY <1>22, MainMoves, ElapsedStands DEF MainCall
<1> QED
  BY <1>4, <1>5, <1>6, <1>7, <1>8, <1>9, <1>10, <1>11, <1>12, <1>13, <1>14, <1>15, <1>16, <1>17,
     <1>18, <1>19, <1>20, <1>21, <1>22
     DEF HelloStep, MainStep, LibraryStep

\* It keeps the types of main's variables and of the counter.
LEMMA MainTypedKept ==
  ASSUME HelloTyped, HelloHart, Elapsed, MainTyped, HelloStep
  PROVE  MainTyped'
<1>1. last_elapsed_time \in Wide(CountSpan) /\ mcycle \in Wide(CountSpan)
        /\ mcountinhibit \in BOOLEAN
  BY DEF MainTyped, HelloTypeOK
<1>2. Succ(mcycle, CountSpan) \in Wide(CountSpan)
  BY <1>1, HelloSuccessor, HelloWidths
<1>3. ASSUME Counting PROVE mcycle' \in Wide(CountSpan)
  BY <1>1, <1>2, <1>3 DEF Counting
<1>4. ASSUME NEW p, NEW q, NEW e, PcountEnable(p, q, e) PROVE MainTyped'
  BY <1>1, <1>3, <1>4 DEF PcountEnable, MainTyped, HelloTypeOK
<1>5. ASSUME NEW p, NEW q, NEW h \in {"hi", "lo"}, PcountReset(p, q, h) PROVE MainTyped'
  <2>1. mcycle' \in Wide(CountSpan)
    BY <1>1, <1>5, HelloWidths DEF PcountReset, Wide
  <2> QED BY <1>1, <1>5, <2>1 DEF PcountReset, MainTyped, HelloTypeOK
<1>6. ASSUME Greet \/ EnableTimer \/ FirstElapsed PROVE MainTyped'
  BY <1>1, <1>3, <1>6 DEF Greet, EnableTimer, FirstElapsed, MainTyped, HelloTypeOK
<1>7. ASSUME KeepFirst \/ Announce PROVE MainTyped'
  <2>1. call["main"].time \in Wide(CountSpan) /\ last_elapsed_time' = call["main"].time
          /\ Counting /\ UNCHANGED mcountinhibit
    BY <1>7, Zenon DEF KeepFirst, Announce, Returned, Elapsed
  <2> QED BY <1>1, <1>3, <2>1 DEF MainTyped, HelloTypeOK
<1>8. ASSUME While \/ Wfi PROVE MainTyped'
  BY <1>1, <1>3, <1>8 DEF While, Wfi, MainTyped, HelloTypeOK
<1>9. ASSUME LibraryStep, Counting, UNCHANGED <<mainVars, mcountinhibit>> PROVE MainTyped'
  BY <1>1, <1>3, <1>9 DEF mainVars, MainTyped, HelloTypeOK
<1> QED BY <1>4, <1>5, <1>6, <1>7, <1>8, <1>9 DEF HelloStep

\* A call whose reading is over, or not begun, has nothing to keep but its start.
LEMMA HelloResting ==
  ASSUME NEW j \in HelloCalls, NEW k \in HelloCalls, NEW now \in Wide(Span),
         NEW later \in Wide(Span),
         Leq(now, later), Leq(j.from, now),
         k.from = j.from \/ k.from = now \/ k.from = ZeroPair,
         k.pc \notin {"read_low", "read_again"}, ~Used(k)
  PROVE  HelloFreshCall(k, later)
BY HelloWidths DEF HelloFreshCall, Leq, HelloCalls, Wide, ZeroPair, Pair

\* What was read stays fresh while time passes.
LEMMA HelloAgeing ==
  ASSUME NEW k \in HelloCalls, NEW now \in Wide(Span),
         NEW later \in Wide(Span), Leq(now, later),
         HelloFreshCall(k, now)
  PROVE  HelloFreshCall(k, later)
BY DEF HelloFreshCall, Leq, HelloCalls, Wide

\* A reading stays fresh if each context's call stands, rests or is fresh anew.
LEMMA HelloTimesStayFresh ==
  ASSUME HelloTyped, HelloTyped', HelloLater, HelloReading,
         \A d \in {"main", "isr"} :
           \/ call'[d] = call[d]
           \/ /\ \/ call'[d].from = call[d].from
                 \/ call'[d].from = mtime
                 \/ call'[d].from = ZeroPair
              /\ call'[d].pc \notin {"read_low", "read_again"} /\ ~Used(call'[d])
           \/ HelloFreshCall(call'[d], mtime')
  PROVE  HelloReading'
<1> SUFFICES ASSUME NEW d \in {"main", "isr"} PROVE HelloFreshCall(call'[d], mtime')
  BY DEF HelloReading
<1>1. call[d] \in HelloCalls /\ call'[d] \in HelloCalls /\ mtime \in Wide(Span)
        /\ mtime' \in Wide(Span)
  BY DEF HelloTyped, Contexts
<1>2. HelloFreshCall(call[d], mtime) /\ Leq(mtime, mtime')
  BY DEF HelloReading, HelloLater
<1>3. Leq(call[d].from, mtime)
  BY <1>2 DEF HelloFreshCall
<1> QED BY <1>1, <1>2, <1>3, HelloResting, HelloAgeing

\* A step of hello_test keeps the times that are read fresh.
LEMMA HelloStaysFresh ==
  ASSUME HelloTyped, HelloTyped', HelloHart, HelloReading, HelloStep, HelloLater
  PROVE  HelloReading'
<1>1. call \in [Contexts -> HelloCalls] /\ Contexts = {"main", "isr", "exc"}
        /\ running \in Contexts
  BY DEF HelloTyped, Contexts
<1>2. /\ mtime \in Wide(Span) /\ time_increment \in Wide(Span)
      /\ ZeroPair \in Wide(Span)
  BY HelloWidths DEF HelloInv, HelloTyped, ZeroPair, Pair, Wide
<1>3. /\ {"enable", "cmp_mask", "read_high", "disable", "load", "epc"} \subseteq Places
      /\ {"timer_enable", "timecmp_update", "timer_read", "timer_disable", "get_elapsed_time",
          "isr", "exc"} \subseteq Functions
  BY Names
<1>4. ASSUME NEW c \in {"main", "isr"}, ReadHigh(c) PROVE HelloReading'
  <2>1. call[c] \in HelloCalls /\ mtime \in Wide(Span)
          /\ mtime' \in Wide(Span) /\ Leq(mtime, mtime')
    BY <1>1 DEF HelloTyped, HelloLater
  <2>2. HelloFreshCall(call[c], mtime) /\ call[c].pc = "read_high"
    BY <1>4 DEF HelloReading, ReadHigh
  <2>3. /\ call'[c].from = call[c].from /\ call'[c].time.hi = mtime.hi
        /\ call'[c].pc = "read_low" /\ call'[c].fn = call[c].fn
    BY <1>1, <1>4, <2>1 DEF ReadHigh, Goto, HelloCalls
  <2>4. HelloFreshCall(call'[c], mtime')
    BY <2>1, <2>2, <2>3 DEF HelloFreshCall, Used, Leq, HelloCalls, Wide
  <2>5. \A d \in {"main", "isr"} : d # c => call'[d] = call[d]
    BY <1>1, <1>4 DEF ReadHigh, Goto
  <2> QED BY <2>4, <2>5, HelloTimesStayFresh
<1>5. ASSUME NEW c \in {"main", "isr"}, ReadLow(c) PROVE HelloReading'
  <2>1. call[c] \in HelloCalls /\ mtime \in Wide(Span)
          /\ mtime' \in Wide(Span) /\ Leq(mtime, mtime')
    BY <1>1 DEF HelloTyped, HelloLater
  <2>2. HelloFreshCall(call[c], mtime) /\ call[c].pc = "read_low"
    BY <1>5 DEF HelloReading, ReadLow
  <2>3. /\ call'[c].from = call[c].from /\ call'[c].time.hi = call[c].time.hi
        /\ call'[c].time.lo = mtime.lo /\ call'[c].pc = "read_again" /\ call'[c].fn = call[c].fn
    BY <1>1, <1>5, <2>1 DEF ReadLow, Goto, HelloCalls
  <2>4. HelloFreshCall(call'[c], mtime')
    BY <2>1, <2>2, <2>3 DEF HelloFreshCall, Used, Leq, HelloCalls, Wide
  <2>5. \A d \in {"main", "isr"} : d # c => call'[d] = call[d]
    BY <1>1, <1>5 DEF ReadLow, Goto
  <2> QED BY <2>4, <2>5, HelloTimesStayFresh
<1>6. ASSUME NEW c \in {"main", "isr"}, ReadAgain(c) PROVE HelloReading'
  <2>1. call[c] \in HelloCalls /\ mtime \in Wide(Span)
          /\ mtime' \in Wide(Span) /\ Leq(mtime, mtime')
    BY <1>1 DEF HelloTyped, HelloLater
  <2>2. HelloFreshCall(call[c], mtime) /\ call[c].pc = "read_again"
    BY <1>6 DEF HelloReading, ReadAgain
  <2>3. /\ call'[c].from = call[c].from /\ call'[c].time = call[c].time
        /\ call'[c].fn = call[c].fn
        /\ \/ call[c].time.hi # mtime.hi /\ call'[c].pc = "read_high"
           \/ call[c].time.hi = mtime.hi /\ call'[c].pc \in {"done", "cmp_mask"}
    BY <1>1, <1>6, <2>1 DEF ReadAgain, Goto, HelloCalls
  <2>4. HelloFreshCall(call'[c], mtime')
    BY <2>1, <2>2, <2>3 DEF HelloFreshCall, Used, Leq, HelloCalls, Wide
  <2>5. \A d \in {"main", "isr"} : d # c => call'[d] = call[d]
    BY <1>1, <1>6 DEF ReadAgain, Goto
  <2> QED BY <2>4, <2>5, HelloTimesStayFresh
<1>7. ASSUME NEW c \in {"main", "isr"}, MaskCompare(c) PROVE HelloReading'
  BY <1>1, <1>7, HelloTimesStayFresh DEF MaskCompare, Used
<1>8. ASSUME NEW c \in {"main", "isr"}, WriteHigh(c) PROVE HelloReading'
  BY <1>1, <1>8, HelloTimesStayFresh DEF WriteHigh, Goto, Used
<1>9. ASSUME NEW c \in {"main", "isr"}, WriteLow(c) PROVE HelloReading'
  BY <1>1, <1>9, HelloTimesStayFresh
     DEF WriteLow, Goto, AfterUpdate, HelloHart, InItsFunction, Used
<1>10. ASSUME EnableVariables PROVE HelloReading'
  BY <1>1, <1>10, <1>2, <1>3, HelloNewCalls, HelloTimesStayFresh
     DEF EnableVariables, HelloCalls, Used
<1>11. ASSUME EnableTimerInterrupt PROVE HelloReading'
  BY <1>1, <1>11, HelloTimesStayFresh DEF EnableTimerInterrupt, Goto, Used
<1>12. ASSUME EnableInterrupts PROVE HelloReading'
  BY <1>1, <1>12, HelloTimesStayFresh DEF EnableInterrupts, Goto, HelloHart, InItsFunction, Used
<1>13. ASSUME TimerDisable PROVE HelloReading'
  BY <1>1, <1>13, HelloTimesStayFresh DEF TimerDisable, Goto, HelloHart, InItsFunction, Used
<1>14. ASSUME LoadFirst PROVE HelloReading'
  BY <1>1, <1>14, HelloTimesStayFresh DEF LoadFirst, Used
<1>15. ASSUME LoadOther PROVE HelloReading'
  <2>1. /\ call'["main"].pc = "done" /\ call'["main"].fn = "get_elapsed_time"
        /\ call'["main"].from = call["main"].from /\ call'["isr"] = call["isr"]
    BY <1>1, <1>15, HelloSecondLoad DEF HelloHart, InItsFunction
  <2> QED BY <2>1, HelloTimesStayFresh DEF Used
<1>16. ASSUME Count PROVE HelloReading'
  BY <1>1, <1>16, HelloTimesStayFresh DEF Count, Goto, Used
<1>17. ASSUME Mret PROVE HelloReading'
  BY <1>1, <1>17, <1>2, <1>3, HelloNewCalls, HelloTimesStayFresh DEF Mret, Used
<1>18. ASSUME Interrupt PROVE HelloReading'
  <2>1. /\ call'["main"].fn = call["main"].fn /\ call'["main"].pc = call["main"].pc
        /\ call'["main"].from = call["main"].from /\ call'["main"].time = call["main"].time
        /\ mtime' = mtime
    BY <1>1, <1>18 DEF Interrupt, HelloCalls
  <2>2. HelloFreshCall(call'["main"], mtime')
    BY <2>1 DEF HelloReading, HelloFreshCall, Used
  <2>3. call'["isr"].from = mtime /\ call'["isr"].pc = "read_high"
    BY <1>1, <1>2, <1>3, <1>18, HelloNewCalls DEF Interrupt
  <2> QED BY <2>2, <2>3, HelloTimesStayFresh DEF Used
<1>19. ~Report
  BY DEF HelloInv, HelloHart, Report, Runs
<1>20. ASSUME NEW c \in {"main", "exc"}, SimHalt(c) PROVE HelloReading'
  BY <1>1, <1>20, HelloTimesStayFresh DEF SimHalt, Goto, Used
<1>21. ASSUME SleepOn PROVE HelloReading'
  BY <1>21, HelloTimesStayFresh DEF SleepOn
<1>22. ASSUME WakeUp PROVE HelloReading'
  BY <1>1, <1>22 DEF WakeUp, HelloReading, HelloFreshCall, Used
<1>23. ASSUME MainStep PROVE HelloReading'
  BY <1>23, MainMoves, HelloTimesStayFresh DEF MainCall, Used
<1> QED
  BY <1>4, <1>5, <1>6, <1>7, <1>8, <1>9, <1>10, <1>11, <1>12, <1>13, <1>14, <1>15, <1>16, <1>17,
     <1>18, <1>19, <1>20, <1>21, <1>22, <1>23
     DEF HelloStep, MainStep, LibraryStep

\* A step of hello_test keeps what the two loads of get_elapsed_time rely on.
LEMMA HelloLoadsStayWhole ==
  ASSUME HelloInv, HelloInv', Loading, ElapsedIsWhole,
         HelloStep
  PROVE  Loading' /\ ElapsedIsWhole'
<1> USE DEF HelloInv
<1>1. call \in [Contexts -> HelloCalls] /\ Contexts = {"main", "isr", "exc"}
        /\ running \in Contexts
  BY DEF HelloTyped, Contexts
<1>2. /\ mtime \in Wide(Span) /\ time_increment \in Wide(Span)
      /\ ZeroPair \in Wide(Span)
  BY HelloWidths DEF HelloInv, HelloTyped, ZeroPair, Pair, Wide
<1>3. /\ {"enable", "cmp_mask", "read_high", "disable", "load", "epc"} \subseteq Places
      /\ {"timer_enable", "timecmp_update", "timer_read", "timer_disable", "get_elapsed_time",
          "isr", "exc"} \subseteq Functions
  BY Names
<1>4. ASSUME NEW c \in {"main", "isr"}, ReadHigh(c) PROVE (Loading /\ ElapsedIsWhole)'
  BY <1>1, <1>4, SMTT(20)
     DEF ReadHigh, HelloCalls, HelloHart, InItsFunction, Loading, ElapsedIsWhole,
         hartVars, ramVars,
         cmpVars
<1>5. ASSUME NEW c \in {"main", "isr"}, ReadLow(c) PROVE (Loading /\ ElapsedIsWhole)'
  BY <1>1, <1>5
     DEF ReadLow, HelloCalls, HelloHart, InItsFunction, Loading, ElapsedIsWhole,
         hartVars, ramVars,
         cmpVars
<1>6. ASSUME NEW c \in {"main", "isr"}, ReadAgain(c)
      PROVE (Loading /\ ElapsedIsWhole)'
  BY <1>1, <1>6
     DEF ReadAgain, Goto, HelloCalls, Loading, ElapsedIsWhole, ramVars
<1>7. ASSUME NEW c \in {"main", "isr"}, MaskCompare(c)
      PROVE (Loading /\ ElapsedIsWhole)'
  BY <1>1, <1>7 DEF MaskCompare, Loading, ElapsedIsWhole, ramVars
<1>8. ASSUME NEW c \in {"main", "isr"}, WriteHigh(c)
      PROVE (Loading /\ ElapsedIsWhole)'
  BY <1>1, <1>8 DEF WriteHigh, Goto, Loading, ElapsedIsWhole, ramVars
<1>9. ASSUME NEW c \in {"main", "isr"}, WriteLow(c) PROVE (Loading /\ ElapsedIsWhole)'
  BY <1>1, <1>9
     DEF WriteLow, Goto, AfterUpdate, HelloCalls, HelloHart, InItsFunction, Loading,
         ElapsedIsWhole,
         hartVars, ramVars, cmpVars
<1>10. ASSUME EnableVariables PROVE (Loading /\ ElapsedIsWhole)'
  BY <1>1, <1>10, <1>2, <1>3, HelloNewCalls
     DEF EnableVariables, HelloCalls, Loading, ElapsedIsWhole
<1>11. ASSUME EnableTimerInterrupt PROVE (Loading /\ ElapsedIsWhole)'
  BY <1>1, <1>11 DEF EnableTimerInterrupt, Goto, Loading, ElapsedIsWhole
<1>12. ASSUME EnableInterrupts PROVE (Loading /\ ElapsedIsWhole)'
  BY <1>1, <1>12
     DEF EnableInterrupts, Goto, HelloHart, InItsFunction, Loading, ElapsedIsWhole
<1>13. ASSUME TimerDisable PROVE (Loading /\ ElapsedIsWhole)'
  BY <1>1, <1>13, SMTT(20)
     DEF TimerDisable, Goto, HelloHart, InItsFunction, Loading, ElapsedIsWhole
<1>14. ASSUME LoadFirst PROVE (Loading /\ ElapsedIsWhole)'
  BY <1>1, <1>14
     DEF LoadFirst, HelloCalls, HelloHart, InItsFunction, Loading, ElapsedIsWhole,
         hartVars, ramVars,
         cmpVars
<1>15. ASSUME LoadOther PROVE (Loading /\ ElapsedIsWhole)'
  <2>1. /\ call'["main"].pc = "done" /\ UNCHANGED seen
        /\ call["main"].half = "hi" =>
             call'["main"].time = Pair(call["main"].time.hi, time_elapsed.lo)
        /\ call["main"].half = "lo" =>
             call'["main"].time = Pair(time_elapsed.hi, call["main"].time.lo)
    BY <1>15, HelloSecondLoad
  <2>2. PICK s \in seen :
          \/ call["main"].half = "hi" /\ call["main"].time.hi = s.hi
          \/ call["main"].half = "lo" /\ call["main"].time.lo = s.lo
    BY <1>15, HelloSecondLoad DEF Loading
  <2>3. time_elapsed \in seen
    BY <1>15, HelloSecondLoad DEF Loading
  <2>4. s = Pair(s.hi, s.lo) /\ time_elapsed = Pair(time_elapsed.hi, time_elapsed.lo)
    BY HelloWideNumbers, HelloWidths DEF HelloTyped
  <2>5. s.hi # time_elapsed.hi \/ call'["main"].time \in seen
    BY <2>1, <2>2, <2>3, <2>4
  <2> QED BY <2>1, <2>2, <2>3, <2>5 DEF Loading, ElapsedIsWhole
<1>16. ASSUME Count PROVE (Loading /\ ElapsedIsWhole)'
  BY <1>1, <1>16 DEF Count, Goto, Loading, ElapsedIsWhole
<1>17. ASSUME Mret PROVE (Loading /\ ElapsedIsWhole)'
  BY <1>1, <1>17, <1>2, <1>3, HelloNewCalls DEF Mret, Loading, ElapsedIsWhole
<1>18. ASSUME Interrupt PROVE (Loading /\ ElapsedIsWhole)'
  BY <1>1, <1>18, <1>2, <1>3, HelloNewCalls DEF Interrupt, Loading, ElapsedIsWhole
<1>19. ~Report
  BY DEF HelloInv, HelloHart, Report, Runs
<1>20. ASSUME NEW c \in {"main", "exc"}, SimHalt(c) PROVE (Loading /\ ElapsedIsWhole)'
  BY <1>1, <1>20 DEF SimHalt, Goto, Loading, ElapsedIsWhole, ramVars
<1>21. ASSUME SleepOn PROVE (Loading /\ ElapsedIsWhole)'
  BY <1>1, <1>21 DEF SleepOn, Loading, ElapsedIsWhole, ramVars
<1>22. ASSUME WakeUp PROVE (Loading /\ ElapsedIsWhole)'
  BY <1>1, <1>22 DEF WakeUp, Loading, ElapsedIsWhole, ramVars
<1>23. ASSUME MainStep PROVE (Loading /\ ElapsedIsWhole)'
  BY <1>1, <1>2, <1>23, MainMoves DEF Loading, ElapsedIsWhole, MainCall
<1> QED
  BY <1>4, <1>5, <1>6, <1>7, <1>8, <1>9, <1>10, <1>11, <1>12, <1>13, <1>14, <1>15, <1>16, <1>17,
     <1>18, <1>19, <1>20, <1>21, <1>22, <1>23
     DEF HelloStep, MainStep, LibraryStep

\* While a context executes, the other one is not in an update, unless it is the
\* main program's and the handler knows.
LEMMA HelloOtherUpdate ==
  ASSUME HelloInv, HelloSetting, NEW c \in {"main", "isr"}, NEW d \in {"main", "isr"}, d # c,
         Runs(c), Updating(d)
  PROVE  d = "main" /\ call[d].torn /\ mixed
BY DEF HelloInv, HelloHart, HelloSetting, Runs, Updating

\* A step of hello_test keeps what the updates of the compare value rely on.
LEMMA HelloUpdatesStaySafe ==
  ASSUME HelloInv, HelloInv', HelloSetting, HelloStep
  PROVE  HelloSetting'
<1> USE DEF HelloInv
<1>1. call \in [Contexts -> HelloCalls] /\ Contexts = {"main", "isr", "exc"}
        /\ running \in Contexts
  BY DEF HelloTyped, Contexts
<1>2. /\ mtime \in Wide(Span) /\ time_increment \in Wide(Span)
      /\ ZeroPair \in Wide(Span)
  BY HelloWidths DEF HelloInv, HelloTyped, ZeroPair, Pair, Wide
<1>3. /\ {"enable", "cmp_mask", "read_high", "disable", "load", "epc"} \subseteq Places
      /\ {"timer_enable", "timecmp_update", "timer_read", "timer_disable", "get_elapsed_time",
          "isr", "exc"} \subseteq Functions
  BY Names
<1>4. ASSUME NEW c \in {"main", "isr"}, ReadHigh(c) PROVE HelloSetting'
  BY <1>1, <1>4, SMTT(20)
     DEF ReadHigh, HelloCalls, HelloHart, InItsFunction, HelloSetting, Updating, Runs,
         hartVars, csrVars,
         ramVars, cmpVars
<1>5. ASSUME NEW c \in {"main", "isr"}, ReadLow(c) PROVE HelloSetting'
  BY <1>1, <1>5
     DEF ReadLow, HelloCalls, HelloHart, InItsFunction, HelloSetting, Updating, Runs,
         hartVars, csrVars,
         ramVars, cmpVars
<1>6. ASSUME NEW c \in {"main", "isr"}, ReadAgain(c) PROVE HelloSetting'
  BY <1>1, <1>6
     DEF ReadAgain, Goto, HelloCalls, HelloSetting, Updating, hartVars,
         cmpVars
<1>7. ASSUME NEW c \in {"main", "isr"}, MaskCompare(c) PROVE HelloSetting'
  <2>1. /\ call'[c].pc = "cmp_high" /\ call'[c].target = call[c].target /\ call'[c].torn = FALSE
        /\ \A d \in Contexts : d # c => call'[d] = call[d]
        /\ Runs(c) /\ running' = running
    BY <1>1, <1>7 DEF MaskCompare, hartVars
  <2>2. \A d \in {"main", "isr"} : d # c /\ Updating(d) =>
            d = "main" /\ call[d].torn /\ mixed
    BY <1>1, <2>1, HelloOtherUpdate
  <2>3. mtimecmp' = [mtimecmp EXCEPT !.lo = Span - 1]
    BY <1>7 DEF MaskCompare
  <2>4. ~call["isr"].torn /\ (Updating("main") /\ call["main"].torn => mixed)
    BY DEF HelloSetting
  <2>5. mtimecmp \in Wide(Span) /\ call[c].target \in Wide(Span)
    BY <1>1 DEF HelloTyped, HelloCalls
  <2>6. asked' = asked \cup {call[c].target} /\ mixed' = mixed
    BY <1>7 DEF MaskCompare
  <2>7. Leq(mtimecmp, mtimecmp') /\ mtimecmp'.lo = Span - 1
    BY <2>3, <2>5, HelloWidths DEF Leq, Wide
  <2>8. mixed \/ \E t \in asked : Leq(t, mtimecmp')
    BY <2>3, <2>5, <2>7, HelloWidths DEF HelloSetting, Wide
  <2>9. CASE c = "main"
    BY <1>1, <2>1, <2>2, <2>4, <2>6, <2>7, <2>8, <2>9 DEF HelloSetting, Updating, Runs
  <2>10. CASE c = "isr"
    BY <1>1, <2>1, <2>2, <2>4, <2>6, <2>7, <2>8, <2>10 DEF HelloSetting, Updating, Runs
  <2> QED BY <2>9, <2>10
<1>8. ASSUME NEW c \in {"main", "isr"}, WriteHigh(c) PROVE HelloSetting'
  <2>1. /\ call'[c].pc = "cmp_low" /\ call'[c].target = call[c].target
        /\ call'[c].torn = call[c].torn
        /\ \A d \in Contexts : d # c => call'[d] = call[d]
        /\ Runs(c) /\ running' = running
    BY <1>1, <1>8 DEF WriteHigh, Goto, hartVars
  <2>2. \A d \in {"main", "isr"} : d # c /\ Updating(d) =>
            d = "main" /\ call[d].torn /\ mixed
    BY <1>1, <2>1, HelloOtherUpdate
  <2>3. mtimecmp' = [mtimecmp EXCEPT !.hi = call[c].target.hi]
    BY <1>8 DEF WriteHigh
  <2>4. ~call["isr"].torn /\ (Updating("main") /\ call["main"].torn => mixed)
    BY DEF HelloSetting
  <2>5. mtimecmp \in Wide(Span) /\ call[c].target \in Wide(Span)
    BY <1>1 DEF HelloTyped, HelloCalls
  <2>6. asked' = asked /\ mixed' = mixed /\ Updating(c)
    BY <1>8 DEF WriteHigh, Updating
  <2>7. call[c].torn => c = "main" /\ mixed
    BY <2>4, <2>6
  <2>8. ~call[c].torn => call[c].target \in asked /\ mtimecmp.lo = Span - 1
    BY <2>6 DEF HelloSetting
  <2>9. ~call[c].torn => Leq(call[c].target, mtimecmp') /\ mtimecmp'.lo = Span - 1
    BY <2>3, <2>5, <2>8, HelloWidths DEF Leq, Wide
  <2>10. mtimecmp'.hi = call[c].target.hi
    BY <2>3, <2>5 DEF Wide
  <2> QED BY <1>1, <2>1, <2>2, <2>4, <2>6, <2>7, <2>8, <2>9, <2>10 DEF HelloSetting, Updating
<1>9. ASSUME NEW c \in {"main", "isr"}, WriteLow(c) PROVE HelloSetting'
  <2>1. /\ call'[c].pc = AfterUpdate[call[c].fn] /\ call'[c].target = call[c].target
        /\ call'[c].torn = call[c].torn
        /\ \A d \in Contexts : d # c => call'[d] = call[d]
        /\ Runs(c) /\ running' = running
    BY <1>1, <1>9 DEF WriteLow, Goto, hartVars
  <2>2. \A d \in {"main", "isr"} : d # c /\ Updating(d) =>
            d = "main" /\ call[d].torn /\ mixed
    BY <1>1, <2>1, HelloOtherUpdate
  <2>3. mtimecmp' = [mtimecmp EXCEPT !.lo = call[c].target.lo]
    BY <1>9 DEF WriteLow
  <2>4. ~call["isr"].torn /\ (Updating("main") /\ call["main"].torn => mixed)
    BY DEF HelloSetting
  <2>5. mtimecmp \in Wide(Span) /\ call[c].target \in Wide(Span)
    BY <1>1 DEF HelloTyped, HelloCalls
  <2>6. call'[c].pc \notin {"cmp_high", "cmp_low"}
    BY <1>1, <1>9, <2>1 DEF WriteLow, AfterUpdate, HelloHart, InItsFunction
  <2>7. /\ call[c].pc = "cmp_low" /\ Updating(c)
        /\ asked' = {call[d].target : d \in {e \in Contexts : e = c \/ Updating(e)}}
        /\ mixed' = IF c = "main" THEN call[c].torn ELSE Updating("main")
    BY <1>9 DEF WriteLow, Updating
  <2>8. ~call[c].torn => mtimecmp.hi = call[c].target.hi
    BY <2>7 DEF HelloSetting
  <2>9. ~call[c].torn => mtimecmp' = call[c].target
    BY <2>3, <2>5, <2>8 DEF Wide
  <2>10. call[c].target \in asked' /\ Leq(call[c].target, call[c].target)
    BY <1>1, <2>5, <2>7 DEF Leq, Wide
  <2>11. CASE c = "main"
    BY <1>1, <2>1, <2>2, <2>4, <2>6, <2>7, <2>9, <2>10, <2>11 DEF HelloSetting, Updating
  <2>12. CASE c = "isr"
    BY <1>1, <2>1, <2>2, <2>4, <2>6, <2>7, <2>9, <2>10, <2>12 DEF HelloSetting, Updating
  <2> QED BY <2>11, <2>12
<1>10. ASSUME EnableVariables PROVE HelloSetting'
  BY <1>1, <1>10, <1>2, <1>3, HelloNewCalls
     DEF EnableVariables, HelloCalls, HelloSetting, Updating, cmpVars
<1>11. ASSUME EnableTimerInterrupt PROVE HelloSetting'
  BY <1>1, <1>11
     DEF EnableTimerInterrupt, Goto, HelloSetting, Updating, cmpVars
<1>12. ASSUME EnableInterrupts PROVE HelloSetting'
  BY <1>1, <1>12 DEF EnableInterrupts, Goto, HelloSetting, Updating, cmpVars
<1>13. ASSUME TimerDisable PROVE HelloSetting'
  BY <1>1, <1>13, SMTT(20)
     DEF TimerDisable, Goto, HelloSetting, Updating, cmpVars
<1>14. ASSUME LoadFirst PROVE HelloSetting'
  BY <1>1, <1>14
     DEF LoadFirst, HelloCalls, HelloHart, InItsFunction, HelloSetting, Updating, Runs,
         hartVars, csrVars,
         ramVars, cmpVars
<1>15. ASSUME LoadOther PROVE HelloSetting'
  <2>1. /\ call'["main"].pc = "done" /\ call'["main"].torn = call["main"].torn
        /\ call'["isr"] = call["isr"] /\ call["main"].pc = "load_other"
        /\ UNCHANGED <<running, mtimecmp, asked, mixed>>
    BY <1>1, <1>15, HelloSecondLoad
  <2> QED BY <1>1, <2>1 DEF HelloSetting, Updating
<1>16. ASSUME Count PROVE HelloSetting'
  BY <1>1, <1>16
     DEF Count, Goto, HelloSetting, Updating, hartVars, cmpVars
<1>17. ASSUME Mret PROVE HelloSetting'
  BY <1>1, <1>17, <1>2, <1>3, HelloNewCalls DEF Mret, HelloSetting, Updating, Runs
<1>18. ASSUME Interrupt PROVE HelloSetting'
  <2>1. /\ call'["main"].pc = call["main"].pc /\ call'["main"].target = call["main"].target
        /\ call'["main"].torn = (call["main"].torn \/ Updating("main"))
        /\ mixed' = (mixed \/ Updating("main")) /\ UNCHANGED <<mtimecmp, asked>>
    BY <1>1, <1>18 DEF Interrupt, HelloCalls
  <2>2. call'["isr"].pc = "read_high" /\ ~call'["isr"].torn
    BY <1>1, <1>2, <1>3, <1>18, HelloNewCalls DEF Interrupt
  <2>3. running = "main" /\ call["isr"].pc = "idle"
    BY <1>1, <1>18 DEF Interrupt, HandleIrq, HelloHart
  <2>4. CASE Updating("main")
    BY <2>1, <2>2, <2>3, <2>4 DEF HelloSetting, Updating
  <2>5. CASE ~Updating("main")
    BY <2>1, <2>2, <2>3, <2>5 DEF HelloSetting, Updating
  <2> QED BY <2>4, <2>5
<1>19. ~Report
  BY DEF HelloInv, HelloHart, Report, Runs
<1>20. ASSUME NEW c \in {"main", "exc"}, SimHalt(c) PROVE HelloSetting'
  BY <1>1, <1>20 DEF SimHalt, Goto, HelloSetting, Updating, cmpVars
<1>21. ASSUME SleepOn PROVE HelloSetting'
  BY <1>1, <1>21 DEF SleepOn, HelloSetting, Updating, cmpVars
<1>22. ASSUME WakeUp PROVE HelloSetting'
  BY <1>1, <1>22 DEF WakeUp, HelloSetting, Updating, cmpVars
<1>23. ASSUME MainStep PROVE HelloSetting'
  BY <1>1, <1>2, <1>23, MainMoves DEF HelloSetting, Updating, MainCall
<1> QED
  BY <1>4, <1>5, <1>6, <1>7, <1>8, <1>9, <1>10, <1>11, <1>12, <1>13, <1>14, <1>15, <1>16, <1>17,
     <1>18, <1>19, <1>20, <1>21, <1>22, <1>23
     DEF HelloStep, MainStep, LibraryStep

--------------------------------------------------------------------------------
(* No wakeup is lost in hello_test.                                        *)

\* At least k ticks are left before the timer asks for an interrupt.
Left(k) == Ticks(mtime) + k <= Ticks(mtimecmp)

\* Where main may be interrupted.
InLoop == {"first", "while", "look", "wfi", "return"}

\* How the place in main, its call, the handler and the enables go together. main
\* is interrupted at one place only: behind the wfi that it slept in.
Place ==
  /\ call["main"].fn \in {"none", "timer_enable", "get_elapsed_time"}
  /\ (at = "enabling") <=> (call["main"].fn = "timer_enable")
  /\ (at \in {"first", "look"}) <=> (call["main"].fn = "get_elapsed_time")
  /\ at \in {"first", "look"} => call["main"].pc \in {"load", "load_other", "done"}
  /\ call["main"].fn = "none" => call["main"].pc \in {"idle", "halt"}
  /\ call["main"].pc = "halt" => at = "return"
  /\ asleep => at = "while" /\ running = "main"
  /\ running = "isr" => at = "while" /\ mstatus.mpie /\ call["isr"].fn = "isr"
  /\ mie <=> at \in InLoop \/ (at = "enabling" /\ call["main"].pc \in {"set_mstatus", "done"})
  /\ running = "main" =>
       (mstatus.mie <=> at \in InLoop \/ (at = "enabling" /\ call["main"].pc = "done"))

\* The time base is that of the program.
Interval ==
  /\ mie \/ (at = "enabling" /\ call["main"].pc # "enable") => time_increment = TimeBase
  /\ at = "enabling" => call["main"].base = TimeBase
  /\ running = "isr" => call["isr"].base = TimeBase

\* What main knows of the count.
Told ==
  /\ at = "look" /\ call["main"].pc = "load_other" =>
       /\ call["main"].half \in {"hi", "lo"}
       /\ call["main"].time[call["main"].half] = time_elapsed[call["main"].half]
  /\ at = "look" /\ call["main"].pc = "done" => call["main"].time = time_elapsed
  /\ at = "wfi" \/ asleep => last_elapsed_time = time_elapsed

\* An update of the compare value, so many steps after the time was read.
Due(c) ==
  /\ call[c].pc = "read_again" /\ call[c].time.hi = mtime.hi => mtime.lo <= call[c].time.lo + 1
  /\ call[c].pc = "cmp_mask" => Ticks(mtime) + Ticks(TimeBase) <= Ticks(call[c].target) + 2
  /\ call[c].pc = "cmp_high" => Ticks(mtime) + Ticks(TimeBase) <= Ticks(call[c].target) + 3
  /\ call[c].pc = "cmp_low" =>
       /\ Ticks(mtime) + Ticks(TimeBase) <= Ticks(call[c].target) + 4
         /\ mtimecmp.hi = call[c].target.hi
  /\ call[c].pc \in {"count", "set_mie"} => Left(Ticks(TimeBase) - 5)
  /\ call[c].pc \in {"mret", "set_mstatus"} => Left(Ticks(TimeBase) - 6)

\* What is left of the interval on the way to main's wfi.
OnTheWay ==
  /\ at = "enabling" /\ call["main"].pc = "done" => Left(9)
  /\ at = "first" /\ call["main"].pc = "load" => Left(8)
  /\ at = "first" /\ call["main"].pc = "load_other" => Left(7)
  /\ at = "first" /\ call["main"].pc = "done" => Left(6)
  /\ at = "while" /\ running = "main" => asleep \/ Pending \/ Left(5)
  /\ at = "look" /\ call["main"].pc = "load" => Left(4)
  /\ at = "look" /\ call["main"].pc = "load_other" => Left(3)
  /\ at = "look" /\ call["main"].pc = "done" => Left(2)
  /\ at = "wfi" => Left(1)
  /\ at = "return" => Left(1) \/ halted

WakeInv ==
  Place /\ Interval /\ Told /\ Due("main") /\ Due("isr") /\ OnTheWay

\* A number of ticks is a number.
LEMMA TicksAreNat ==
  ASSUME NEW t \in [hi : Nat, lo : Nat]
  PROVE  Ticks(t) \in Nat
<1>1. t.hi * Span \in Nat
  BY HelloWidths
<1> QED BY <1>1 DEF Ticks

\* The order of two numbers of two words.
LEMMA TicksOrder ==
  ASSUME NEW s \in Wide(Span), NEW t \in Wide(Span)
  PROVE  Leq(s, t) <=> Ticks(s) <= Ticks(t)
<1>1. /\ s.hi \in Nat /\ s.lo \in 0 .. Span - 1 /\ t.hi \in Nat /\ t.lo \in 0 .. Span - 1
      /\ Span \in Nat
  BY HelloWidths DEF Wide
<1>2. ASSUME NEW i \in Nat, NEW j \in Nat, i < j PROVE i * Span + Span <= j * Span
  <2>1. PICK e \in Nat : j = i + 1 + e
    <3>1. j - i - 1 \in Nat /\ j = i + 1 + (j - i - 1)
      BY <1>2
    <3> QED BY <3>1
  <2>2. j * Span = i * Span + Span + e * Span /\ e * Span \in Nat
    BY <1>1, <2>1
  <2>3. i * Span \in Nat
    BY <1>1
  <2> QED BY <1>1, <2>2, <2>3
<1>3. s.hi * Span \in Nat /\ t.hi * Span \in Nat
  BY <1>1
<1>4. CASE s.hi < t.hi
  <2>1. s.hi * Span + Span <= t.hi * Span
    BY <1>1, <1>2, <1>4
  <2> QED BY <1>1, <1>3, <1>4, <2>1 DEF Leq, Ticks
<1>5. CASE t.hi < s.hi
  <2>1. t.hi * Span + Span <= s.hi * Span
    BY <1>1, <1>2, <1>5
  <2> QED BY <1>1, <1>3, <1>5, <2>1 DEF Leq, Ticks
<1>6. CASE s.hi = t.hi
  BY <1>1, <1>3, <1>6 DEF Leq, Ticks
<1> QED BY <1>1, <1>4, <1>5, <1>6

\* The timer counts by one.
LEMMA OneTick ==
  ASSUME HelloTyped, Clock
  PROVE  /\ Ticks(mtime) <= Ticks(mtime') /\ Ticks(mtime') <= Ticks(mtime) + 1
         /\ mtime'.hi = mtime.hi => mtime'.lo <= mtime.lo + 1
<1>1. mtime \in Wide(Span) /\ mtime' \in Wide(Span) /\ mtime \in [hi : Nat, lo : Nat]
  BY HelloTimePasses, HelloWidths DEF HelloTyped, HelloLater, Wide
<1>2. mtime.hi \in Nat /\ mtime.lo \in Nat /\ mtime.hi * Span \in Nat /\ Span \in Nat
  BY <1>1, HelloWidths DEF Wide
<1>3. CASE mtime' = mtime
  BY <1>2, <1>3 DEF Ticks
<1>4. CASE mtime # LastTime /\ mtime' = Succ(mtime, Span)
  <2>1. CASE mtime.lo # Span - 1
    <3>1. mtime'.hi = mtime.hi /\ mtime'.lo = mtime.lo + 1
      BY <1>4, <2>1 DEF Succ, Pair
    <3> QED BY <1>2, <3>1 DEF Ticks
  <2>2. CASE mtime.lo = Span - 1
    <3>1. mtime.hi < LastTime.hi
      BY <1>1, <1>4, <2>2, HelloWidths DEF HelloTyped, Leq, Wide
    <3>2. mtime.hi + 1 \in Nat /\ mtime.hi + 1 < Span
      BY <1>2, <3>1, HelloWidths DEF Wide
    <3>3. mtime'.hi = mtime.hi + 1 /\ mtime'.lo = 0
      BY <1>4, <2>2, <3>2, Remainder, HelloWidths DEF Succ, Pair
    <3>4. (mtime.hi + 1) * Span = mtime.hi * Span + Span
      BY <1>2
    <3>5. Ticks(mtime') = Ticks(mtime) + 1
      BY <1>2, <2>2, <3>3, <3>4 DEF Ticks
    <3> QED BY <1>2, <3>3, <3>5, TicksAreNat, <1>1
  <2> QED BY <2>1, <2>2
<1> QED BY <1>3, <1>4 DEF Clock

\* The sum of two times is the number of both, if it has no more than two words.
LEMMA TicksOfSum ==
  ASSUME NEW s \in Wide(Span), NEW t \in Wide(Span), Ticks(s) + Ticks(t) < Span * Span
  PROVE  Ticks(Plus(s, t)) = Ticks(s) + Ticks(t)
<1> DEFINE low == s.lo + t.lo
           high == s.hi + t.hi
<1>1. /\ s.hi \in Nat /\ t.hi \in Nat /\ s.lo \in 0 .. Span - 1 /\ t.lo \in 0 .. Span - 1
      /\ Span \in Nat \ {0} /\ low \in Nat /\ high \in Nat
  BY HelloWidths DEF Wide
<1>2. Ticks(s) + Ticks(t) = high * Span + low /\ high * Span \in Nat
  BY <1>1 DEF Ticks
<1>3. ASSUME NEW i \in Nat, NEW r \in 0 .. Span - 1, i * Span + r < Span * Span PROVE i < Span
  <2> SUFFICES ASSUME i >= Span PROVE FALSE
    BY <1>1, <1>3
  <2>1. PICK e \in Nat : i = Span + e
    <3>1. i - Span \in Nat /\ i = Span + (i - Span)
      BY <1>1
    <3> QED BY <3>1
  <2>2. i * Span = Span * Span + e * Span /\ e * Span \in Nat /\ Span * Span \in Nat
    BY <1>1, <2>1
  <2> QED BY <1>1, <1>3, <2>2
<1>4. CASE low < Span
  <2>1. high < Span
    <3>1. low \in 0 .. Span - 1 /\ high * Span + low < Span * Span
      BY <1>1, <1>2, <1>4
    <3> HIDE DEF low, high
    <3> QED BY <1>1, <1>3, <3>1
  <2>2. Plus(s, t) = Pair(high % Span, low % Span)
    BY <1>1, <1>4 DEF Plus
  <2>3. high % Span = high /\ low % Span = low
    BY <1>1, <1>4, <2>1, Remainder
  <2> QED BY <1>2, <2>2, <2>3 DEF Ticks, Pair
<1>5. CASE low >= Span
  <2> DEFINE rest == low - Span
             more == high + 1
  <2>1. rest \in 0 .. Span - 1 /\ more \in Nat /\ low = rest + Span
    BY <1>1, <1>5
  <2>2. high * Span + low = more * Span + rest
    BY <1>1, <2>1
  <2>3. more < Span
    <3>1. more * Span + rest < Span * Span
      BY <1>2, <2>2
    <3> HIDE DEF rest, more
    <3> QED BY <1>3, <2>1, <3>1
  <2>4. low % Span = rest
    <3>1. ASSUME NEW i \in Nat, NEW r \in 0 .. Span - 1, i = r + Span PROVE i % Span = r
      BY <1>1, <3>1
    <3> HIDE DEF low, rest
    <3> QED BY <1>1, <2>1, <3>1
  <2>5. more % Span = more
    BY <1>1, <2>1, <2>3, Remainder
  <2>6. Plus(s, t) = Pair(more % Span, low % Span)
    BY <1>1, <1>5 DEF Plus
  <2> QED BY <1>2, <2>2, <2>4, <2>5, <2>6 DEF Ticks, Pair
<1> QED BY <1>1, <1>4, <1>5

\* The times are numbers, and their order decides about the interrupt.
LEMMA TimesAreNumbers ==
  ASSUME HelloTyped, LongInterval
  PROVE  /\ Ticks(mtime) \in Nat /\ Ticks(mtimecmp) \in Nat
         /\ Ticks(TimeBase) \in Nat /\ Ticks(TimeBase) >= 16
         /\ Pending <=> Ticks(mtimecmp) <= Ticks(mtime)
<1>1. /\ mtime \in Wide(Span) /\ mtimecmp \in Wide(Span) /\ TimeBase \in Wide(Span)
      /\ \A t \in Wide(Span) : t \in [hi : Nat, lo : Nat]
  BY HelloWidths DEF HelloTyped, Wide
<1> QED BY <1>1, TicksAreNat, TicksOrder DEF Pending, LongInterval

\* They are so after a step.
LEMMA TimesAfter ==
  ASSUME HelloTyped'
  PROVE  Ticks(mtime') \in Nat /\ Ticks(mtimecmp') \in Nat
<1>1. mtime' \in [hi : Nat, lo : Nat] /\ mtimecmp' \in [hi : Nat, lo : Nat]
  BY HelloWidths DEF HelloTyped, Wide
<1> QED BY <1>1, TicksAreNat

\* What is left after a step is one tick less.
LEMMA LeftLess ==
  ASSUME HelloTyped, HelloTyped', LongInterval, Clock, UNCHANGED mtimecmp,
         NEW k \in Int, NEW j \in Int, j < k, Left(k)
  PROVE  Left(j)'
BY OneTick, TimesAreNumbers, TimesAfter DEF Left

\* The steps that read the time and write the compare value.
UpdateStep(c) ==
  ReadHigh(c) \/ ReadLow(c) \/ ReadAgain(c) \/ MaskCompare(c) \/ WriteHigh(c) \/ WriteLow(c)

\* Such a step leaves all else as it was.
LEMMA UpdateFrame ==
  ASSUME HelloInv, WakeInv, NEW c \in {"main", "isr"}, UpdateStep(c)
  PROVE  /\ Runs(c) /\ Clock /\ c \in Contexts
         /\ UNCHANGED <<mie, mstatus, running, asleep, halted, time_elapsed, time_increment>>
         /\ \A e \in Contexts : e # c => call'[e] = call[e]
         /\ call'[c].fn = call[c].fn /\ call'[c].base = call[c].base
         /\ call[c].fn = IF c = "main" THEN "timer_enable" ELSE "isr"
         /\ call[c].pc \in {"read_high", "read_low", "read_again", "cmp_mask", "cmp_high",
                            "cmp_low"}
         /\ call'[c].pc \in {"read_high", "read_low", "read_again", "cmp_mask", "cmp_high",
                             "cmp_low", IF c = "main" THEN "set_mie" ELSE "count"}
<1>1. call \in [Contexts -> HelloCalls] /\ Contexts = {"main", "isr", "exc"}
        /\ running \in Contexts
  BY DEF HelloInv, HelloTyped, Contexts
<1>2. mtime.hi \in Nat /\ mtime.lo \in Nat /\ call[c] \in HelloCalls
  BY <1>1 DEF HelloInv, HelloTyped, Wide
<1>3. /\ Runs(c) /\ Clock
      /\ UNCHANGED <<mie, mstatus, running, asleep, halted, time_elapsed, time_increment>>
      /\ call[c].pc \in {"read_high", "read_low", "read_again", "cmp_mask", "cmp_high",
                         "cmp_low"}
  BY DEF UpdateStep, ReadHigh, ReadLow, ReadAgain, MaskCompare, WriteHigh, WriteLow, hartVars,
         csrVars, ramVars
<1>4. call[c].fn = IF c = "main" THEN "timer_enable" ELSE "isr"
  <2>1. InItsFunction(call[c]) /\ call["isr"].fn \in {"none", "isr"}
          /\ call["main"].fn \in {"none", "timer_enable", "get_elapsed_time"}
    BY <1>1 DEF HelloInv, HelloHart, WakeInv, Place
  <2> QED BY <1>3, <2>1 DEF InItsFunction
<1>5. ASSUME ReadHigh(c) \/ ReadLow(c)
      PROVE  /\ \A e \in Contexts : e # c => call'[e] = call[e]
             /\ call'[c].fn = call[c].fn /\ call'[c].base = call[c].base
             /\ call'[c].pc \in {"read_low", "read_again"}
  BY <1>1, <1>2, <1>5 DEF ReadHigh, ReadLow, HelloCalls
<1>6. ASSUME ReadAgain(c)
      PROVE  /\ \A e \in Contexts : e # c => call'[e] = call[e]
             /\ call'[c].fn = call[c].fn /\ call'[c].base = call[c].base
             /\ call'[c].pc \in {"read_high", "cmp_mask"}
  BY <1>1, <1>2, <1>4, <1>6 DEF ReadAgain, Goto, HelloCalls
<1>7. ASSUME MaskCompare(c) \/ WriteHigh(c)
      PROVE  /\ \A e \in Contexts : e # c => call'[e] = call[e]
             /\ call'[c].fn = call[c].fn /\ call'[c].base = call[c].base
             /\ call'[c].pc \in {"cmp_high", "cmp_low"}
  BY <1>1, <1>2, <1>7 DEF MaskCompare, WriteHigh, Goto, HelloCalls
<1>8. ASSUME WriteLow(c)
      PROVE  /\ \A e \in Contexts : e # c => call'[e] = call[e]
             /\ call'[c].fn = call[c].fn /\ call'[c].base = call[c].base
             /\ call'[c].pc = IF c = "main" THEN "set_mie" ELSE "count"
  BY <1>1, <1>2, <1>4, <1>8 DEF WriteLow, Goto, AfterUpdate, HelloCalls
<1> QED BY <1>1, <1>3, <1>4, <1>5, <1>6, <1>7, <1>8 DEF UpdateStep

\* After each step of it, an update is due one tick less.
LEMMA UpdateIsDue ==
  ASSUME HelloInv, HelloInv', WakeInv, LongInterval, NEW c \in {"main", "isr"}, UpdateStep(c)
  PROVE  Due(c)'
<1>1. call \in [Contexts -> HelloCalls] /\ c \in Contexts /\ call[c] \in HelloCalls
  BY DEF HelloInv, HelloTyped, Contexts
<1>2. /\ mtime \in Wide(Span) /\ mtime.hi \in Nat /\ mtime.lo \in Nat /\ mtime'.hi \in Nat
         /\ mtime'.lo \in Nat
      /\ call[c].time.hi \in Nat /\ call[c].time.lo \in Nat /\ call[c].target \in Wide(Span)
      /\ mtimecmp \in Wide(Span)
  BY <1>1 DEF HelloInv, HelloTyped, Wide, HelloCalls
<1>3. /\ Ticks(mtime) <= Ticks(mtime') /\ Ticks(mtime') <= Ticks(mtime) + 1
      /\ mtime'.hi = mtime.hi => mtime'.lo <= mtime.lo + 1
      /\ mtime.hi <= mtime'.hi
  <2>1. Clock
    BY UpdateFrame
  <2>2. mtime.hi <= mtime'.hi
    BY <1>2, <2>1, HelloTimePasses DEF HelloInv, HelloTyped, HelloLater, Leq
  <2> QED BY <2>1, <2>2, OneTick DEF HelloInv
<1>4. /\ Ticks(mtime) \in Nat /\ Ticks(mtime') \in Nat /\ Ticks(mtimecmp') \in Nat
      /\ Ticks(TimeBase) \in Nat /\ Ticks(call[c].target) \in Nat
  <2>1. call[c].target \in [hi : Nat, lo : Nat]
    BY <1>2, HelloWidths DEF Wide
  <2> QED BY <2>1, TimesAreNumbers, TimesAfter, TicksAreNat DEF HelloInv
<1>5. Due(c)
  BY DEF WakeInv
<1>6. HelloFreshCall(call[c], mtime)
  BY DEF HelloInv, HelloReading
<1>7. CASE ReadHigh(c)
  <2>1. call'[c].pc = "read_low"
    BY <1>1, <1>2, <1>7 DEF ReadHigh, HelloCalls
  <2> QED BY <2>1 DEF Due
<1>8. CASE ReadLow(c)
  <2>1. /\ call'[c].pc = "read_again" /\ call'[c].time.lo = mtime.lo
        /\ call'[c].time.hi = call[c].time.hi
    BY <1>1, <1>2, <1>8 DEF ReadLow, HelloCalls
  <2>2. call[c].time.hi <= mtime.hi
    BY <1>6, <1>8 DEF ReadLow, HelloFreshCall
  <2>3. mtime'.hi = call[c].time.hi => mtime'.lo <= mtime.lo + 1
    BY <1>2, <1>3, <2>2
  <2> QED BY <2>1, <2>3 DEF Due
<1>9. CASE ReadAgain(c)
  <2>1. CASE call[c].time.hi # mtime.hi
    <3>1. call'[c].pc = "read_high"
      BY <1>1, <1>9, <2>1 DEF ReadAgain, Goto, HelloCalls
    <3> QED BY <3>1 DEF Due
  <2>2. CASE call[c].time.hi = mtime.hi
    <3>1. call[c].fn # "timer_read" /\ call[c].base = TimeBase
      BY <1>9, UpdateFrame DEF WakeInv, Place, Interval, Runs
    <3>2. call'[c].pc = "cmp_mask" /\ call'[c].target = Plus(call[c].time, TimeBase)
      BY <1>1, <1>9, <2>2, <3>1 DEF ReadAgain, HelloCalls
    <3>3. mtime.lo <= call[c].time.lo + 1 /\ call[c].time.lo <= mtime.lo
      BY <1>2, <1>5, <1>6, <1>9, <2>2 DEF Due, HelloFreshCall, Leq, ReadAgain
    <3>4. call[c].time \in Wide(Span)
      BY <1>1, <1>2, <2>2, <3>3, HelloWidths DEF HelloCalls, Wide
    <3>5. Ticks(mtime) <= Ticks(call[c].time) + 1 /\ Ticks(call[c].time) <= Ticks(mtime)
          /\ Ticks(call[c].time) \in Nat
      <4>1. mtime.hi * Span \in Nat
        BY <1>2, HelloWidths
      <4> QED BY <1>2, <2>2, <3>3, <4>1 DEF Ticks
    <3>6. Ticks(mtime) <= Ticks(LastTime) /\ Ticks(LastTime) \in Nat /\ Span * Span \in Nat
      <4>1. LastTime \in Wide(Span) /\ LastTime \in [hi : Nat, lo : Nat]
        BY HelloWidths DEF Wide
      <4> QED BY <1>2, <4>1, TicksOrder, TicksAreNat, HelloWidths DEF HelloInv, HelloTyped
    <3>7. Ticks(call[c].time) + Ticks(TimeBase) < Span * Span
      BY <1>4, <3>5, <3>6 DEF LongInterval
    <3>8. Ticks(Plus(call[c].time, TimeBase)) = Ticks(call[c].time) + Ticks(TimeBase)
      BY <3>4, <3>7, TicksOfSum, HelloWidths
    <3>9. Ticks(mtime') + Ticks(TimeBase) <= Ticks(call'[c].target) + 2
      BY <1>3, <1>4, <3>2, <3>5, <3>8
    <3> QED BY <3>2, <3>9 DEF Due
  <2> QED BY <2>1, <2>2
<1>10. CASE MaskCompare(c)
  <2>1. call'[c].pc = "cmp_high" /\ call'[c].target = call[c].target
    BY <1>1, <1>10 DEF MaskCompare, HelloCalls
  <2>2. Ticks(mtime) + Ticks(TimeBase) <= Ticks(call[c].target) + 2
    BY <1>5, <1>10 DEF Due, MaskCompare
  <2>3. Ticks(mtime') + Ticks(TimeBase) <= Ticks(call'[c].target) + 3
    BY <1>3, <1>4, <2>1, <2>2
  <2> QED BY <2>1, <2>3 DEF Due
<1>11. CASE WriteHigh(c)
  <2>1. call'[c].pc = "cmp_low" /\ call'[c].target = call[c].target
    BY <1>1, <1>11 DEF WriteHigh, Goto, HelloCalls
  <2>2. Ticks(mtime) + Ticks(TimeBase) <= Ticks(call[c].target) + 3
    BY <1>5, <1>11 DEF Due, WriteHigh
  <2>3. Ticks(mtime') + Ticks(TimeBase) <= Ticks(call'[c].target) + 4
    BY <1>3, <1>4, <2>1, <2>2
  <2>4. mtimecmp'.hi = call'[c].target.hi
    BY <1>2, <1>11, <2>1 DEF WriteHigh, Wide
  <2>5. call'[c].pc \notin {"read_again", "cmp_mask", "cmp_high", "count", "set_mie", "mret",
                           "set_mstatus"}
    BY <2>1
  <2> QED BY <2>3, <2>4, <2>5 DEF Due
<1>12. CASE WriteLow(c)
  <2>1. call'[c].pc \in {"set_mie", "count"}
    <3>1. call[c].fn = IF c = "main" THEN "timer_enable" ELSE "isr"
      BY UpdateFrame
    <3> QED BY <1>1, <1>12, <3>1 DEF WriteLow, Goto, AfterUpdate, HelloCalls
  <2>2. /\ Ticks(mtime) + Ticks(TimeBase) <= Ticks(call[c].target) + 4
        /\ mtimecmp.hi = call[c].target.hi
    BY <1>5, <1>12 DEF Due, WriteLow
  <2>3. mtimecmp' = call[c].target
    BY <1>2, <1>12, <2>2 DEF WriteLow, Wide
  <2>4. Left(Ticks(TimeBase) - 5)'
    <3>1. Ticks(mtime') + (Ticks(TimeBase) - 5) <= Ticks(mtimecmp')
      BY <1>3, <1>4, <2>2, <2>3
    <3> QED BY <3>1 DEF Left
  <2> QED BY <2>1, <2>4 DEF Due
<1> QED BY <1>7, <1>8, <1>9, <1>10, <1>11, <1>12 DEF UpdateStep

\* An update in progress keeps what the wakeups rest on.
LEMMA UpdateWakes ==
  ASSUME HelloInv, HelloInv', WakeInv, LongInterval, NEW c \in {"main", "isr"}, UpdateStep(c),
         UNCHANGED mainVars
  PROVE  WakeInv'
<1>1. Contexts = {"main", "isr", "exc"}
  BY DEF Contexts
<1>2. Due(c)'
  BY UpdateIsDue
<1>3. at' = at /\ last_elapsed_time' = last_elapsed_time
  BY DEF mainVars
<1>4. CASE c = "main"
  <2>1. /\ running = "main" /\ at = "enabling" /\ ~asleep /\ call'["isr"] = call["isr"]
        /\ call["isr"].pc = "idle" /\ call'["main"].fn = "timer_enable"
        /\ call'["main"].base = call["main"].base
        /\ call["main"].pc \notin {"set_mstatus", "done"}
        /\ call'["main"].pc \notin {"load", "load_other", "done", "halt", "set_mstatus", "idle",
                                    "enable"}
        /\ UNCHANGED <<mie, mstatus, running, asleep, halted, time_elapsed, time_increment>>
    BY <1>1, <1>4, UpdateFrame DEF HelloInv, HelloHart, WakeInv, Place, Runs
  <2>2. Place'
    BY <1>3, <2>1 DEF WakeInv, Place, InLoop
  <2>3. Interval' /\ Told'
    <3>1. call["main"].pc # "enable"
      BY <1>4, UpdateFrame
    <3> QED BY <1>3, <2>1, <3>1 DEF WakeInv, Interval, Told
  <2>4. Due("isr")' /\ OnTheWay'
    BY <1>3, <2>1 DEF Due, OnTheWay
  <2> QED BY <1>2, <1>4, <2>2, <2>3, <2>4 DEF WakeInv
<1>5. CASE c = "isr"
  <2>1. /\ running = "isr" /\ at = "while" /\ ~asleep /\ call'["main"] = call["main"]
        /\ call["main"].pc \in {"idle", "halt"} /\ call'["isr"].fn = "isr"
        /\ call'["isr"].base = call["isr"].base
        /\ UNCHANGED <<mie, mstatus, running, asleep, halted, time_elapsed, time_increment>>
    BY <1>1, <1>5, UpdateFrame DEF HelloInv, WakeInv, Place, Runs
  <2>2. Place' /\ Interval' /\ Told'
    BY <1>3, <2>1 DEF WakeInv, Place, Interval, Told
  <2>3. Due("main")' /\ OnTheWay'
    BY <1>3, <2>1 DEF Due, OnTheWay
  <2> QED BY <1>2, <1>5, <2>2, <2>3 DEF WakeInv
<1> QED BY <1>4, <1>5

\* A step of main's own keeps what the wakeups rest on: it takes a tick of those
\* that are left.
LEMMA MainWakes ==
  ASSUME HelloInv, HelloInv', WakeInv, LongInterval, MainStep
  PROVE  WakeInv'
<1>1. /\ call \in [Contexts -> HelloCalls] /\ Contexts = {"main", "isr", "exc"}
      /\ TimeBase \in Wide(Span) /\ ZeroPair \in Wide(Span) /\ mtime \in Wide(Span)
      /\ {"timer_enable", "get_elapsed_time"} \subseteq Functions
      /\ {"enable", "load"} \subseteq Places
  BY HelloWidths DEF HelloInv, HelloTyped, Contexts, ZeroPair, Pair, Wide, Functions, Places
<1>2. /\ Clock /\ running = "main" /\ ~HandleIrq /\ ~asleep /\ ~halted
      /\ call["main"].pc \in {"idle", "done"} /\ call'["isr"] = call["isr"]
      /\ call' = call \/ MainCall(call'["main"])
      /\ UNCHANGED <<mtimecmp, mie, mstatus, running, halted, time_elapsed, time_increment>>
  BY MainMoves DEF HelloInv, Runs
<1>3. call["isr"].pc = "idle" /\ Due("isr")'
  BY <1>2 DEF HelloInv, HelloHart, Due
<1>4. Due("main")'
  BY <1>2 DEF MainCall, Due
<1>5. ASSUME NEW k \in Int, NEW j \in Int, j < k, Left(k) PROVE Left(j)'
  BY <1>2, <1>5, LeftLess DEF HelloInv
<1>6. ASSUME at \notin InLoop \cup {"enabling"}, at' \notin InLoop \cup {"enabling"},
             call' = call, asleep' = asleep
      PROVE  WakeInv'
  <2>1. Place'
    BY <1>2, <1>6 DEF WakeInv, Place, InLoop
  <2>2. Interval' /\ Told' /\ OnTheWay'
    BY <1>2, <1>6, <2>1 DEF WakeInv, Place, Interval, Told, OnTheWay, InLoop
  <2> QED BY <1>3, <1>4, <2>1, <2>2 DEF WakeInv
<1>7. CASE \/ PcountEnable("pcount_enable(0)", "reset_low", 0)
           \/ PcountReset("reset_low", "reset_high", "lo")
           \/ PcountReset("reset_high", "pcount_enable(1)", "hi")
           \/ PcountEnable("pcount_enable(1)", "greet", 1)
           \/ Greet
           \/ PcountEnable("pcount_enable(0) again", "timer_enable", 0)
  BY <1>6, <1>7 DEF PcountEnable, PcountReset, Greet, Step, Quiet, InLoop
<1>8. CASE EnableTimer
  <2>1. /\ at = "timer_enable" /\ at' = "enabling" /\ call["main"].pc = "idle"
        /\ asleep' = asleep /\ Begin("timer_enable", "enable", TimeBase)
    BY <1>8 DEF EnableTimer, Step, Quiet
  <2>2. /\ call'["main"].fn = "timer_enable" /\ call'["main"].pc = "enable"
        /\ call'["main"].base = TimeBase
    BY <1>1, <2>1 DEF Begin, Call, NoCall
  <2>3. Place'
    BY <1>2, <2>1, <2>2 DEF WakeInv, Place, InLoop
  <2>4. Interval' /\ Told' /\ OnTheWay'
    BY <1>2, <2>1, <2>2 DEF WakeInv, Place, Interval, Told, OnTheWay, InLoop
  <2> QED BY <1>3, <1>4, <2>3, <2>4 DEF WakeInv
<1>9. CASE FirstElapsed
  <2>1. /\ at = "enabling" /\ at' = "first" /\ call["main"].pc = "done"
        /\ asleep' = asleep /\ Begin("get_elapsed_time", "load", ZeroPair)
    BY <1>9 DEF FirstElapsed, Returned, Quiet
  <2>2. call'["main"].fn = "get_elapsed_time" /\ call'["main"].pc = "load"
    BY <1>1, <2>1 DEF Begin, Call, NoCall
  <2>3. Left(8)'
    BY <1>5, <2>1 DEF WakeInv, OnTheWay
  <2>4. Place'
    BY <1>2, <2>1, <2>2 DEF WakeInv, Place, InLoop
  <2>5. Interval' /\ Told' /\ OnTheWay'
    BY <1>2, <2>1, <2>2, <2>3 DEF WakeInv, Place, Interval, Told, OnTheWay, InLoop
  <2> QED BY <1>3, <1>4, <2>4, <2>5 DEF WakeInv
<1>10. CASE KeepFirst
  <2>1. /\ at = "first" /\ at' = "while" /\ call["main"].pc = "done"
        /\ asleep' = asleep /\ Finish
    BY <1>10 DEF KeepFirst, Returned, Quiet
  <2>2. call'["main"].fn = "none" /\ call'["main"].pc = "idle"
    BY <1>1, <2>1 DEF Finish, NoCall
  <2>3. Left(5)'
    BY <1>5, <2>1 DEF WakeInv, OnTheWay
  <2>4. Place'
    BY <1>2, <2>1, <2>2 DEF WakeInv, Place, InLoop
  <2>5. Interval' /\ Told' /\ OnTheWay'
    BY <1>2, <2>1, <2>2, <2>3 DEF WakeInv, Place, Interval, Told, OnTheWay, InLoop
  <2> QED BY <1>3, <1>4, <2>4, <2>5 DEF WakeInv
<1>11. CASE While
  <2>1. /\ at = "while" /\ at' \in {"look", "return"} /\ call["main"].pc = "idle"
        /\ asleep' = asleep
        /\ at' = "look" => Begin("get_elapsed_time", "load", ZeroPair)
        /\ at' = "return" => call' = [call EXCEPT !["main"].pc = "halt"]
    <3>1. /\ at = "while" /\ call["main"].pc = "idle"
          /\ at' = IF Leq(last_elapsed_time, Pair(0, 4)) THEN "look" ELSE "return"
      BY <1>11, Zenon DEF While, Step
    <3>2. /\ at' = "look" => Begin("get_elapsed_time", "load", ZeroPair)
          /\ at' # "look" => call' = [call EXCEPT !["main"].pc = "halt"]
      BY <1>11, Zenon DEF While
    <3>3. asleep' = asleep
      BY <1>11, Zenon DEF While, Quiet
    <3>4. at' \in {"look", "return"} /\ (at' = "return" => at' # "look")
      BY <3>1, Zenon
    <3> QED BY <3>1, <3>2, <3>3, <3>4, Zenon
  <2>2. call["main"].fn = "none"
    BY <1>1, <2>1 DEF WakeInv, Place, HelloInv, HelloHart
  <2>3. at' = "look" => call'["main"].fn = "get_elapsed_time" /\ call'["main"].pc = "load"
    <3> SUFFICES ASSUME at' = "look"
                 PROVE  call'["main"].fn = "get_elapsed_time" /\ call'["main"].pc = "load"
      OBVIOUS
    <3>1. Begin("get_elapsed_time", "load", ZeroPair)
      BY <2>1, Zenon
    <3> QED BY <1>1, <3>1 DEF Begin, Call, NoCall
  <2>4. at' = "return" => call'["main"].fn = "none" /\ call'["main"].pc = "halt"
    BY <1>1, <2>1, <2>2 DEF HelloCalls
  <2>5. Left(4)' /\ Left(1)'
    <3>1. mie /\ mstatus.mie
      BY <1>2, <2>1 DEF WakeInv, Place, InLoop
    <3>2. Left(5)
      BY <1>2, <2>1, <3>1 DEF WakeInv, OnTheWay, HandleIrq, Requested
    <3> QED BY <1>5, <3>2
  <2>6. Place'
    BY <1>2, <2>1, <2>3, <2>4 DEF WakeInv, Place, InLoop
  <2>7. Interval' /\ Told' /\ OnTheWay'
    BY <1>2, <2>1, <2>3, <2>4, <2>5 DEF WakeInv, Place, Interval, Told, OnTheWay, InLoop
  <2> QED BY <1>3, <1>4, <2>6, <2>7 DEF WakeInv
<1>12. CASE Announce
  <2>1. /\ at = "look" /\ at' = "wfi" /\ call["main"].pc = "done"
        /\ asleep' = asleep /\ Finish /\ last_elapsed_time' = call["main"].time
    BY <1>12 DEF Announce, Returned, Quiet
  <2>2. call'["main"].fn = "none" /\ call'["main"].pc = "idle"
    BY <1>1, <2>1 DEF Finish, NoCall
  <2>3. Left(1)'
    BY <1>5, <2>1 DEF WakeInv, OnTheWay
  <2>4. Place'
    BY <1>2, <2>1, <2>2 DEF WakeInv, Place, InLoop
  <2>5. Interval' /\ Told' /\ OnTheWay'
    BY <1>2, <2>1, <2>2, <2>3 DEF WakeInv, Place, Interval, Told, OnTheWay, InLoop
  <2> QED BY <1>3, <1>4, <2>4, <2>5 DEF WakeInv
<1>13. CASE Wfi
  <2>1. /\ at = "wfi" /\ at' = "while" /\ call["main"].pc = "idle" /\ call' = call /\ asleep'
        /\ last_elapsed_time' = last_elapsed_time
    BY <1>13 DEF Wfi, Step
  <2>2. Place'
    BY <1>2, <2>1 DEF WakeInv, Place, InLoop
  <2>3. Interval' /\ Told' /\ OnTheWay'
    BY <1>2, <2>1 DEF WakeInv, Place, Interval, Told, OnTheWay, InLoop
  <2> QED BY <1>3, <1>4, <2>2, <2>3 DEF WakeInv
<1> QED BY <1>7, <1>8, <1>9, <1>10, <1>11, <1>12, <1>13 DEF MainStep

\* No interrupt comes but to main at its loop's condition, behind its wfi.
LEMMA InterruptedThere ==
  ASSUME HelloInv, WakeInv, LongInterval, HandleIrq, ~halted
  PROVE  at = "while" /\ running = "main"
<1>1. mie /\ mstatus.mie /\ Pending
  BY DEF HandleIrq, Requested
<1>2. running = "main"
  BY <1>1 DEF HelloInv, HelloHart
<1>3. at \in InLoop \/ (at = "enabling" /\ call["main"].pc = "done")
  BY <1>1, <1>2 DEF WakeInv, Place
<1>4. ASSUME NEW k \in Nat \ {0} PROVE ~Left(k)
  BY <1>1, TimesAreNumbers DEF HelloInv, Left
<1> QED BY <1>2, <1>3, <1>4 DEF WakeInv, Place, OnTheWay, InLoop

\* A step of the library in main, after the update of timer_enable or of
\* get_elapsed_time.
LEMMA MainCallWakes ==
  ASSUME HelloInv, HelloInv', WakeInv, LongInterval, UNCHANGED mainVars,
         \/ EnableVariables \/ EnableTimerInterrupt \/ EnableInterrupts \/ LoadFirst \/ LoadOther
         \/ TimerDisable \/ SimHalt("main")
  PROVE  WakeInv'
<1>1. /\ call \in [Contexts -> HelloCalls] /\ Contexts = {"main", "isr", "exc"}
      /\ mtime \in Wide(Span) /\ call["main"].base \in Wide(Span)
  BY DEF HelloInv, HelloTyped, Contexts, HelloCalls
<1>2. /\ Clock /\ running = "main" /\ ~HandleIrq /\ ~asleep /\ ~halted
      /\ UNCHANGED <<mtimecmp, running, asleep>> /\ call'["isr"] = call["isr"]
      /\ UNCHANGED <<at, last_elapsed_time>>
  BY <1>1 DEF EnableVariables, EnableTimerInterrupt, EnableInterrupts, LoadFirst, LoadOther,
         TimerDisable, SimHalt, Goto, Runs, hartVars, csrVars, cmpVars, mainVars
<1>3. call["isr"].pc = "idle" /\ Due("isr")'
  BY <1>2 DEF HelloInv, HelloHart, Due
<1>4. ASSUME NEW k \in Int, NEW j \in Int, j < k, Left(k) PROVE Left(j)'
  BY <1>2, <1>4, LeftLess DEF HelloInv
<1>5. InItsFunction(call["main"]) /\ Ticks(TimeBase) \in Nat /\ Ticks(TimeBase) >= 16
  BY <1>1, TimesAreNumbers DEF HelloInv, HelloHart
<1>6. CASE EnableVariables
  <2>1. /\ call["main"].pc = "enable" /\ time_increment' = call["main"].base
        /\ call'["main"] = Call("timer_enable", "read_high", call["main"].base)
        /\ UNCHANGED <<mie, mstatus, halted>>
    BY <1>1, <1>6 DEF EnableVariables, hartVars, csrVars
  <2>2. /\ call'["main"].fn = "timer_enable" /\ call'["main"].pc = "read_high"
        /\ call'["main"].base = call["main"].base
    BY <2>1 DEF Call, NoCall
  <2>3. call["main"].fn = "timer_enable" /\ at = "enabling"
    BY <1>5, <2>1 DEF InItsFunction, WakeInv, Place
  <2>4. Place' /\ Due("main")'
    BY <1>2, <2>1, <2>2, <2>3 DEF WakeInv, Place, InLoop, Due
  <2>5. Interval' /\ Told' /\ OnTheWay'
    BY <1>2, <2>1, <2>2, <2>3 DEF WakeInv, Place, Interval, Told, OnTheWay, InLoop
  <2> QED BY <1>3, <2>4, <2>5 DEF WakeInv
<1>7. CASE EnableTimerInterrupt
  <2>1. /\ call["main"].pc = "set_mie" /\ call'["main"].pc = "set_mstatus" /\ mie'
        /\ call'["main"].fn = call["main"].fn /\ call'["main"].base = call["main"].base
        /\ UNCHANGED <<mstatus, halted, time_increment>>
    BY <1>1, <1>7 DEF EnableTimerInterrupt, Goto, ramVars, HelloCalls
  <2>2. call["main"].fn = "timer_enable" /\ at = "enabling"
    BY <1>5, <2>1 DEF InItsFunction, WakeInv, Place
  <2>3. Left(Ticks(TimeBase) - 6)'
    BY <1>4, <1>5, <2>1 DEF WakeInv, Due
  <2>4. Place' /\ Due("main")'
    BY <1>2, <2>1, <2>2, <2>3 DEF WakeInv, Place, InLoop, Due
  <2>5. Interval' /\ Told' /\ OnTheWay'
    BY <1>2, <2>1, <2>2 DEF WakeInv, Place, Interval, Told, OnTheWay, InLoop
  <2> QED BY <1>3, <2>4, <2>5 DEF WakeInv
<1>8. CASE EnableInterrupts
  <2>1. /\ call["main"].pc = "set_mstatus" /\ call'["main"].pc = "done" /\ mstatus'.mie
        /\ call'["main"].fn = call["main"].fn /\ call'["main"].base = call["main"].base
        /\ UNCHANGED <<mie, halted, time_increment>>
    BY <1>1, <1>8 DEF EnableInterrupts, Goto, ramVars, HelloCalls, HelloInv, HelloTyped
  <2>2. call["main"].fn = "timer_enable" /\ at = "enabling"
    BY <1>5, <2>1 DEF InItsFunction, WakeInv, Place
  <2>3. Left(9)'
    BY <1>4, <1>5, <2>1 DEF WakeInv, Due
  <2>4. Place' /\ Due("main")'
    BY <1>2, <2>1, <2>2 DEF WakeInv, Place, InLoop, Due
  <2>5. Interval' /\ Told' /\ OnTheWay'
    BY <1>2, <2>1, <2>2, <2>3 DEF WakeInv, Place, Interval, Told, OnTheWay, InLoop
  <2> QED BY <1>3, <2>4, <2>5 DEF WakeInv
<1>9. CASE LoadFirst
  <2>1. PICK h \in {"hi", "lo"} :
          call' = [call EXCEPT !["main"].time[h] = time_elapsed[h],
                               !["main"].half = h, !["main"].pc = "load_other"]
    BY <1>9 DEF LoadFirst
  <2>2. /\ call["main"].pc = "load" /\ call'["main"].pc = "load_other"
        /\ call'["main"].fn = call["main"].fn /\ call'["main"].half = h
        /\ call'["main"].time[h] = time_elapsed[h]
        /\ UNCHANGED <<mie, mstatus, halted, time_increment, time_elapsed>>
    BY <1>1, <1>9, <2>1 DEF LoadFirst, HelloCalls, hartVars, csrVars, ramVars
  <2>3. call["main"].fn = "get_elapsed_time" /\ at \in {"first", "look"}
    BY <1>5, <2>2 DEF InItsFunction, WakeInv, Place
  <2>4. (at = "first" => Left(7)') /\ (at = "look" => Left(3)')
    BY <1>4, <2>2 DEF WakeInv, OnTheWay
  <2>5. Place' /\ Due("main")'
    BY <1>2, <2>2, <2>3 DEF WakeInv, Place, InLoop, Due
  <2>6. Interval' /\ Told' /\ OnTheWay'
    BY <1>2, <2>2, <2>3, <2>4 DEF WakeInv, Place, Interval, Told, OnTheWay, InLoop
  <2> QED BY <1>3, <2>5, <2>6 DEF WakeInv
<1>10. CASE LoadOther
  <2>1. /\ call["main"].pc = "load_other" /\ call'["main"].pc = "done"
        /\ call'["main"].fn = call["main"].fn
        /\ UNCHANGED <<mie, mstatus, halted, time_increment, time_elapsed>>
    <3>1. call'["main"].fn = call["main"].fn
      BY <1>1, <1>10 DEF LoadOther, HelloCalls
    <3> QED BY <1>10, <3>1, HelloSecondLoad DEF LoadOther, hartVars, csrVars, ramVars, HelloInv
  <2>2. call["main"].fn = "get_elapsed_time" /\ at \in {"first", "look"}
    BY <1>5, <2>1 DEF InItsFunction, WakeInv, Place
  <2>3. (at = "first" => Left(6)') /\ (at = "look" => Left(2)')
    BY <1>4, <2>1 DEF WakeInv, OnTheWay
  <2>4. Place' /\ Due("main")'
    BY <1>2, <2>1, <2>2 DEF WakeInv, Place, InLoop, Due
  <2>5. at = "look" => call'["main"].time = time_elapsed
    <3>1. /\ call["main"].half = "hi" =>
               call'["main"].time = Pair(call["main"].time.hi, time_elapsed.lo)
          /\ call["main"].half = "lo" =>
               call'["main"].time = Pair(time_elapsed.hi, call["main"].time.lo)
      BY <1>10, HelloSecondLoad DEF HelloInv
    <3>2. time_elapsed = Pair(time_elapsed.hi, time_elapsed.lo)
      BY HelloWidths DEF HelloInv, HelloTyped, Wide, Pair
    <3> QED BY <2>1, <3>1, <3>2 DEF WakeInv, Told
  <2>6. Interval' /\ Told' /\ OnTheWay'
    BY <1>2, <2>1, <2>2, <2>3, <2>5 DEF WakeInv, Place, Interval, Told, OnTheWay, InLoop
  <2> QED BY <1>3, <2>4, <2>6 DEF WakeInv
<1>11. CASE SimHalt("main")
  <2>1. /\ call["main"].pc = "halt" /\ call'["main"].pc = "idle" /\ halted'
        /\ call'["main"].fn = call["main"].fn /\ call["main"].fn = "none"
        /\ UNCHANGED <<mie, mstatus, time_increment, time_elapsed>>
    BY <1>1, <1>11 DEF SimHalt, Goto, csrVars, ramVars, HelloCalls, HelloInv, HelloHart
  <2>2. at = "return"
    BY <2>1 DEF WakeInv, Place
  <2>3. Place' /\ Due("main")'
    BY <1>2, <2>1, <2>2 DEF WakeInv, Place, InLoop, Due
  <2>4. Interval' /\ Told' /\ OnTheWay'
    BY <1>2, <2>1, <2>2 DEF WakeInv, Place, Interval, Told, OnTheWay, InLoop
  <2> QED BY <1>3, <2>3, <2>4 DEF WakeInv
<1>12. ~TimerDisable
  BY <1>5 DEF TimerDisable, InItsFunction, WakeInv, Place
<1> QED BY <1>6, <1>7, <1>8, <1>9, <1>10, <1>11, <1>12

\* The handler's other steps, and the core's: it is interrupted, returns, sleeps
\* on and wakes up.
LEMMA HandlerWakes ==
  ASSUME HelloInv, HelloInv', WakeInv, LongInterval, UNCHANGED mainVars,
         Count \/ Mret \/ Interrupt \/ SleepOn \/ WakeUp
  PROVE  WakeInv'
<1>1. /\ call \in [Contexts -> HelloCalls] /\ Contexts = {"main", "isr", "exc"}
      /\ Ticks(TimeBase) \in Nat /\ Ticks(TimeBase) >= 16
  BY TimesAreNumbers DEF HelloInv, HelloTyped, Contexts
<1>2. UNCHANGED <<at, last_elapsed_time>>
  BY DEF mainVars
<1>3. ASSUME Clock, UNCHANGED mtimecmp, NEW k \in Int, NEW j \in Int, j < k, Left(k)
      PROVE  Left(j)'
  BY <1>3, LeftLess DEF HelloInv
<1>4. at = "while" => call["main"].pc = "idle" /\ call["main"].fn = "none"
  BY DEF WakeInv, Place
<1>5. CASE Count
  <2>1. /\ Clock /\ running = "isr" /\ at = "while" /\ ~asleep
        /\ call["isr"].pc = "count" /\ call'["isr"].pc = "mret"
        /\ call'["isr"].fn = call["isr"].fn /\ call'["isr"].base = call["isr"].base
        /\ call'["main"] = call["main"]
        /\ UNCHANGED <<mtimecmp, mie, mstatus, running, asleep, halted, time_increment>>
    BY <1>1, <1>5 DEF Count, Runs, Goto, hartVars, csrVars, cmpVars, HelloCalls, WakeInv, Place
  <2>2. Left(Ticks(TimeBase) - 6)'
    BY <1>1, <1>3, <2>1 DEF WakeInv, Due
  <2>3. Place' /\ Interval' /\ Told' /\ Due("main")' /\ OnTheWay'
    BY <1>2, <1>4, <2>1 DEF WakeInv, Place, Interval, Told, Due, OnTheWay
  <2> QED BY <2>1, <2>2, <2>3 DEF WakeInv, Due
<1>6. CASE Mret
  <2>1. /\ Clock /\ running = "isr" /\ at = "while" /\ ~asleep /\ mstatus.mpie
        /\ trap.epc = "main" /\ call["isr"].pc = "mret"
    BY <1>6 DEF Mret, Runs, WakeInv, Place, HelloInv, HelloHart
  <2>2. /\ running' = "main" /\ mstatus'.mie /\ call'["isr"].pc = "idle"
        /\ call'["main"] = call["main"]
        /\ UNCHANGED <<mtimecmp, mie, asleep, halted, time_increment, time_elapsed>>
    BY <1>1, <1>6, <2>1 DEF Mret, NoCall
  <2>3. Left(5)'
    BY <1>1, <1>3, <2>1, <2>2 DEF WakeInv, Due
  <2>4. mie
    BY <2>1 DEF WakeInv, Place, InLoop
  <2>5. Place' /\ Due("main")' /\ Due("isr")'
    BY <1>2, <1>4, <2>1, <2>2, <2>4 DEF WakeInv, Place, InLoop, Due
  <2>6. Interval' /\ Told' /\ OnTheWay'
    BY <1>2, <1>4, <2>1, <2>2, <2>3 DEF WakeInv, Interval, Told, OnTheWay
  <2> QED BY <2>5, <2>6 DEF WakeInv
<1>7. CASE Interrupt
  <2>1. at = "while" /\ running = "main" /\ ~asleep /\ mie /\ mstatus.mie
    BY <1>7, InterruptedThere DEF Interrupt, HandleIrq, Requested
  <2>2. /\ running' = "isr" /\ mstatus'.mpie
        /\ call'["main"].fn = call["main"].fn /\ call'["main"].pc = call["main"].pc
        /\ call'["isr"] = Call("isr", "read_high", time_increment)
        /\ UNCHANGED <<mtimecmp, mie, asleep, halted, time_increment, time_elapsed>>
    BY <1>1, <1>7, <2>1 DEF Interrupt, Trap, HelloCalls
  <2>3. /\ call'["isr"].fn = "isr" /\ call'["isr"].pc = "read_high"
        /\ call'["isr"].base = time_increment
    BY <2>2 DEF Call, NoCall
  <2>4. Place' /\ Due("main")' /\ Due("isr")'
    BY <1>2, <1>4, <2>1, <2>2, <2>3 DEF WakeInv, Place, InLoop, Due
  <2>5. Interval' /\ Told' /\ OnTheWay'
    BY <1>2, <1>4, <2>1, <2>2, <2>3 DEF WakeInv, Interval, Told, OnTheWay
  <2> QED BY <2>4, <2>5 DEF WakeInv
<1>8. CASE SleepOn
  <2>1. /\ at = "while" /\ running = "main" /\ asleep /\ call["isr"].pc = "idle"
    BY <1>8 DEF SleepOn, WakeInv, Place, HelloInv, HelloHart
  <2>2. UNCHANGED <<mie, mstatus, running, asleep, call, halted, time_increment, time_elapsed>>
    BY <1>8 DEF SleepOn, csrVars, ramVars
  <2>3. Place' /\ Due("main")' /\ Due("isr")'
    BY <1>2, <1>4, <2>1, <2>2 DEF WakeInv, Place, InLoop, Due
  <2>4. Interval' /\ Told' /\ OnTheWay'
    BY <1>2, <1>4, <2>1, <2>2 DEF WakeInv, Interval, Told, OnTheWay
  <2> QED BY <2>3, <2>4 DEF WakeInv
<1>9. CASE WakeUp
  <2>1. /\ at = "while" /\ running = "main" /\ call["isr"].pc = "idle" /\ Pending
    BY <1>9 DEF WakeUp, Requested, WakeInv, Place, HelloInv, HelloHart
  <2>2. /\ UNCHANGED <<mie, mstatus, running, call, halted, time_increment, time_elapsed>>
        /\ UNCHANGED <<mtime, mtimecmp>> /\ ~asleep'
    BY <1>9 DEF WakeUp, csrVars, ramVars, cmpVars
  <2>3. Place' /\ Due("main")' /\ Due("isr")'
    BY <1>2, <1>4, <2>1, <2>2 DEF WakeInv, Place, InLoop, Due
  <2>4. Pending'
    BY <2>1, <2>2 DEF Pending
  <2>5. Interval' /\ Told' /\ OnTheWay'
    BY <1>2, <1>4, <2>1, <2>2, <2>4 DEF WakeInv, Interval, Told, OnTheWay
  <2> QED BY <2>3, <2>5 DEF WakeInv
<1> QED BY <1>5, <1>6, <1>7, <1>8, <1>9

\* Every step of hello_test keeps it.
LEMMA WakeInvKept ==
  ASSUME HelloInv, HelloInv', WakeInv, LongInterval, HelloStep
  PROVE  WakeInv'
<1>1. CASE MainStep
  BY <1>1, MainWakes
<1>2. CASE LibraryStep /\ UNCHANGED mainVars
  <2>1. ~Report /\ ~SimHalt("exc")
    BY DEF HelloInv, HelloHart, Report, SimHalt, Runs
  <2> QED BY <1>2, <2>1, UpdateWakes, MainCallWakes, HandlerWakes DEF LibraryStep, UpdateStep
<1> QED BY <1>1, <1>2 DEF HelloStep, MainStep

--------------------------------------------------------------------------------
(* The timer library in both programs.                                     *)

\* What hello_test keeps.
HelloAll == HelloInv /\ HelloSetting /\ Loading /\ ElapsedIsWhole /\ MainTyped

\* It starts with it, and keeps it.
LEMMA HelloInductive ==
  /\ HelloInit => HelloAll
  /\ HelloAll /\ (HelloStep \/ UNCHANGED <<timerVars, helloVars>>) => HelloAll'
<1>1. ASSUME HelloInit PROVE HelloAll
  <2>1. /\ ZeroPair \in Wide(Span) /\ ZeroPair \in Wide(CountSpan) /\ Leq(ZeroPair, ZeroPair)
        /\ Leq(ZeroPair, LastTime)
    BY HelloWidths DEF ZeroPair, Pair, Wide, Leq
  <2>2. mtime = ZeroPair /\ mtimecmp = ZeroPair /\ asked = {ZeroPair}
    BY <1>1 DEF HelloInit, TimerInit
  <2>3. NoCall \in HelloCalls /\ NoCall.fn = "none" /\ NoCall.pc = "idle"
          /\ NoCall.from = ZeroPair /\ ~NoCall.torn
    BY <2>1, <2>2, HelloNewCalls
  <2>4. call = [c \in Contexts |-> NoCall] /\ Contexts = {"main", "isr", "exc"}
    BY <1>1 DEF HelloInit, TimerInit, Contexts
  <2>5. HelloTyped
    BY <1>1, <2>1, <2>2, <2>3, <2>4 DEF HelloTyped, HelloInit, TimerInit, Causes
  <2>6. HelloHart
    BY <1>1, <2>3, <2>4 DEF HelloHart, InItsFunction, HelloInit, TimerInit
  <2>7. HelloReading /\ Elapsed
    BY <2>1, <2>2, <2>3, <2>4 DEF HelloReading, HelloFreshCall, Used, Elapsed
  <2>8. HelloSetting
    BY <2>1, <2>2, <2>3, <2>4 DEF HelloSetting, Updating
  <2>9. Loading /\ ElapsedIsWhole
    BY <2>3, <2>4 DEF Loading, ElapsedIsWhole
  <2>10. MainTyped
    BY <1>1, <2>1, HelloWidths DEF MainTyped, HelloTypeOK, HelloInit, MainInit
  <2> QED BY <2>5, <2>6, <2>7, <2>8, <2>9, <2>10 DEF HelloAll, HelloInv
<1>2. ASSUME HelloAll, HelloStep PROVE HelloAll'
  <2>1. HelloTyped' /\ HelloHart' /\ Elapsed' /\ HelloLater
    BY <1>2, HelloTypedKept, HelloHartKept, ElapsedKept, HelloTimeGoesOn DEF HelloAll, HelloInv
  <2>2. HelloInv'
    BY <1>2, <2>1, HelloStaysFresh DEF HelloAll, HelloInv
  <2>3. MainTyped'
    BY <1>2, MainTypedKept DEF HelloAll, HelloInv
  <2> QED BY <1>2, <2>2, <2>3, HelloLoadsStayWhole, HelloUpdatesStaySafe DEF HelloAll
<1>3. ASSUME HelloAll, UNCHANGED <<timerVars, helloVars>> PROVE HelloAll'
  <2>1. HelloTyped' /\ HelloHart'
    BY <1>3 DEF HelloAll, HelloInv, HelloTyped, HelloHart, timerVars
  <2>2. Elapsed' /\ HelloReading'
    BY <1>3 DEF HelloAll, HelloInv, Elapsed, HelloReading, timerVars
  <2>3. HelloSetting' /\ Loading' /\ ElapsedIsWhole'
    BY <1>3 DEF HelloAll, HelloSetting, Updating, Loading, ElapsedIsWhole, timerVars
  <2>4. MainTyped'
    BY <1>3 DEF HelloAll, MainTyped, HelloTypeOK, helloVars, mainVars, countVars
  <2> QED BY <2>1, <2>2, <2>3, <2>4 DEF HelloAll, HelloInv
<1> QED BY <1>1, <1>2, <1>3

\* So it does with what its wakeups rest on.
LEMMA WakeInductive ==
  ASSUME LongInterval
  PROVE  /\ HelloInit => WakeInv
         /\ HelloAll /\ WakeInv /\ (HelloStep \/ UNCHANGED <<timerVars, helloVars>>) => WakeInv'
<1>1. ASSUME HelloInit PROVE WakeInv
  <2>1. call = [c \in Contexts |-> NoCall] /\ Contexts = {"main", "isr", "exc"}
    BY <1>1 DEF HelloInit, TimerInit, Contexts
  <2>2. \A c \in Contexts : call[c].fn = "none" /\ call[c].pc = "idle"
    BY <2>1 DEF NoCall
  <2>3. /\ at = "pcount_enable(0)" /\ mie = FALSE /\ mstatus.mie = FALSE /\ running = "main"
        /\ asleep = FALSE
    BY <1>1 DEF HelloInit, TimerInit, MainInit
  <2>4. Place
    BY <2>1, <2>2, <2>3 DEF Place, InLoop
  <2>5. Interval /\ Told /\ OnTheWay
    BY <2>1, <2>2, <2>3 DEF Interval, Told, OnTheWay
  <2>6. Due("main") /\ Due("isr")
    BY <2>1, <2>2 DEF Due
  <2> QED BY <2>4, <2>5, <2>6 DEF WakeInv
<1>2. ASSUME HelloAll, WakeInv, HelloStep PROVE WakeInv'
  <2>1. HelloInv /\ HelloInv'
    BY <1>2, HelloInductive DEF HelloAll
  <2> QED BY <1>2, <2>1, WakeInvKept
<1>3. ASSUME WakeInv, UNCHANGED <<timerVars, helloVars>> PROVE WakeInv'
  <2>1. Place' /\ Interval' /\ Told'
    BY <1>3 DEF WakeInv, Place, Interval, Told, timerVars, helloVars, mainVars
  <2>2. Due("main")' /\ Due("isr")' /\ OnTheWay'
    BY <1>3 DEF WakeInv, Due, OnTheWay, Left, Pending, timerVars, helloVars, mainVars
  <2> QED BY <2>1, <2>2 DEF WakeInv
<1> QED BY <1>1, <1>2, <1>3

\* The client has stopped or not, and has made so many calls.
Counted == halted \in BOOLEAN /\ calls \in 0 .. MaxCalls

\* Its steps keep that.
LEMMA ClientCounts ==
  ASSUME Client!ClientAssumption, Counted, Client!ClientStep
  PROVE  Counted'
<1>1. MaxCalls \in Nat
  BY DEF Client!ClientAssumption
<1>2. ASSUME Client!LibraryStep, UNCHANGED calls PROVE Counted'
  <2>1. UNCHANGED halted \/ halted' = TRUE
    BY <1>2 DEF Client!LibraryStep, Client!ReadHigh, Client!ReadLow, Client!ReadAgain,
       Client!MaskCompare, Client!WriteHigh, Client!WriteLow, Client!EnableVariables,
       Client!EnableTimerInterrupt, Client!EnableInterrupts, Client!TimerDisable,
       Client!LoadFirst, Client!LoadOther, Client!Count, Client!Mret, Client!Interrupt,
       Client!Report, Client!SimHalt, Client!SleepOn, Client!WakeUp, Client!hartVars
  <2> QED BY <1>2, <2>1 DEF Counted
<1>3. ASSUME Client!Invoke \/ Client!Return \/ Client!Compute PROVE Counted'
  BY <1>1, <1>3 DEF Client!Invoke, Client!Return, Client!Compute, Client!hartVars, Counted
<1>4. ASSUME NEW c \in {"main", "isr"}, Client!Fault(c), UNCHANGED calls PROVE Counted'
  BY <1>4 DEF Client!Fault, Counted
<1> QED BY <1>2, <1>3, <1>4 DEF Client!ClientStep

\* What the client keeps.
ClientAll ==
  TimeInv /\ Setting /\ Loading /\ Client!ElapsedIsWhole /\ Reporting /\ Counted

\* It starts with it, and keeps it.
LEMMA ClientInductive ==
  ASSUME Client!ClientAssumption
  PROVE  /\ Client!ClientInit => ClientAll
         /\ ClientAll /\ [Client!ClientStep]_(Client!clientVars) => ClientAll'
<1>1. ASSUME Client!ClientInit PROVE ClientAll
  <2>1. \A c \in {"main", "isr"} : call[c].pc = "idle" /\ ~call[c].torn
    BY <1>1 DEF Client!ClientInit, Client!TimerInit, Client!NoCall, Client!Contexts
  <2>2. asked = {mtimecmp} /\ Client!Leq(mtimecmp, mtimecmp)
    BY <1>1 DEF Client!ClientInit, Client!TimerInit, Client!Leq, Client!ZeroPair, Client!Pair
  <2>3. Setting
    BY <2>1, <2>2 DEF Setting, Client!Updating
  <2>4. Loading /\ Client!ElapsedIsWhole
    BY <2>1 DEF Loading, Client!ElapsedIsWhole
  <2>5. Reporting
    BY <1>1 DEF Client!ClientInit, Client!TimerInit, Reporting
  <2>6. Counted
    <3>1. halted \in BOOLEAN
      BY <1>1, Zenon DEF Client!ClientInit, Client!TimerInit
    <3>2. calls = 0 /\ MaxCalls \in Nat
      BY <1>1 DEF Client!ClientInit, Client!ClientAssumption
    <3>3. calls \in 0 .. MaxCalls
      BY <3>2
    <3> QED BY <3>1, <3>3, Zenon DEF Counted
  <2> QED BY <1>1, <2>3, <2>4, <2>5, <2>6, TimeInvInductive DEF ClientAll
<1>2. ASSUME ClientAll, Client!ClientStep PROVE ClientAll'
  <2>1. TimeInv'
    BY <1>2, TimeInvInductive DEF ClientAll
  <2> QED
    BY <1>2, <2>1, LoadsStayWhole, UpdatesStaySafe, ReportsStayTrue, ClientCounts DEF ClientAll
<1>3. ASSUME ClientAll, UNCHANGED Client!clientVars PROVE ClientAll'
  <2>1. TimeInv'
    BY <1>3, TimeInvInductive DEF ClientAll
  <2>2. Setting' /\ Loading' /\ Client!ElapsedIsWhole'
    BY <1>3 DEF ClientAll, Setting, Client!Updating, Loading, Client!ElapsedIsWhole,
                Client!clientVars, Client!timerVars
  <2>3. Reporting' /\ Counted'
    BY <1>3 DEF ClientAll, Reporting, Faulty, Counted, Client!clientVars, Client!timerVars
  <2> QED BY <2>1, <2>2, <2>3 DEF ClientAll
<1> QED BY <1>1, <1>2, <1>3

\* Under the other images the timer and main move by hello_test's steps or not at
\* all.
LEMMA HelloRuns ==
  /\ Init /\ image # "client" => HelloInit /\ calls = 0
  /\ [Next]_vars /\ image' # "client" =>
       /\ image # "client" /\ UNCHANGED calls
       /\ HelloStep \/ UNCHANGED <<timerVars, helloVars>>
<1>1. Init /\ image # "client" => HelloInit /\ calls = 0
  BY DEF Init
<1>2. ASSUME [Next]_vars, image' # "client"
      PROVE  /\ image # "client" /\ UNCHANGED calls
             /\ HelloStep \/ UNCHANGED <<timerVars, helloVars>>
  <2>1. CASE Hello
    BY <1>2, <2>1 DEF Hello
  <2>2. CASE UseTimer
    BY <1>2, <2>2 DEF UseTimer
  <2>3. CASE UseConsole \/ BlinkLeds
    BY <1>2, <2>3 DEF UseConsole, BlinkLeds
  <2>4. CASE UNCHANGED vars
    BY <1>2, <2>4 DEF vars
  <2> QED BY <1>2, <2>1, <2>2, <2>3, <2>4 DEF Next
<1> QED BY <1>1, <1>2

\* The inductive invariant of the images that use the timer.
TimerInv ==
  /\ image = "client" => ClientAll
  /\ image # "client" => HelloAll /\ calls = 0

\* Every image starts with it, and keeps it.
LEMMA TimerInductive ==
  /\ Init => TimerInv
  /\ TimerInv /\ [Next]_vars => TimerInv'
<1>1. Init => TimerInv
  BY ClientRuns, ClientInductive, HelloRuns, HelloInductive DEF TimerInv
<1>2. ASSUME TimerInv, [Next]_vars PROVE TimerInv'
  <2>1. CASE image' = "client"
    BY <1>2, <2>1, ClientRuns, ClientInductive DEF TimerInv
  <2>2. CASE image' # "client"
    BY <1>2, <2>2, HelloRuns, HelloInductive DEF TimerInv
  <2> QED BY <2>1, <2>2
<1> QED BY <1>1, <1>2

\* For any program and words of any width, the time that timer_read returns and
\* increment_timecmp adds to (simple_system_common.c:172) is one that mtime had
\* during the call.
THEOREM TimesAreFresh == Spec => []TimeIsFresh
<1>1. TimerInv => TimeIsFresh
  <2>1. TimeInv => Client!TimeIsFresh
    BY DEF TimeInv, Reading, FreshCall, Used, Client!TimeIsFresh
  <2>2. Client!TimeIsFresh => TimeIsFresh
    BY Zenon DEF Client!TimeIsFresh, Client!Leq, TimeIsFresh, Leq
  <2>3. HelloReading => TimeIsFresh
    BY DEF HelloReading, HelloFreshCall, Used, TimeIsFresh
  <2> QED BY <2>1, <2>2, <2>3 DEF TimerInv, ClientAll, HelloAll, HelloInv
<1> QED BY <1>1, TimerInductive, PTL DEF Spec

\* For any program and words of any width, an update that no interrupt came
\* inside of leaves a compare value that was asked for, and shows the timer none
\* below all of them on the way (simple_system_common.c:184).
THEOREM UpdatesAreSafe == Spec => []UndisturbedUpdatesAreSafe
<1>1. ASSUME TimeInv, Setting PROVE UndisturbedUpdatesAreSafe
  <2> SUFFICES ASSUME ~mixed PROVE CompareIsAsked
    BY DEF UndisturbedUpdatesAreSafe
  <2>1. PICK t \in asked : Client!Leq(t, mtimecmp)
    BY <1>1 DEF Setting
  <2>2. t \in Client!Wide(ClientSpan) /\ mtime \in Client!Wide(ClientSpan)
        /\ mtimecmp \in Client!Wide(ClientSpan)
    BY <1>1 DEF TimeInv, Typed
  <2>3. Pending => Leq(t, mtime)
    BY <2>1, <2>2 DEF Pending, Client!Leq, Leq, Client!Wide
  <2> QED BY <1>1, <2>3 DEF CompareIsAsked, Setting, Client!Updating, Updating
<1>2. ASSUME HelloTyped, HelloSetting PROVE UndisturbedUpdatesAreSafe
  <2> SUFFICES ASSUME ~mixed PROVE CompareIsAsked
    BY DEF UndisturbedUpdatesAreSafe
  <2>1. PICK t \in asked : Leq(t, mtimecmp)
    BY <1>2 DEF HelloSetting
  <2>2. t \in Wide(Span) /\ mtime \in Wide(Span) /\ mtimecmp \in Wide(Span)
    BY <1>2 DEF HelloTyped
  <2>3. Pending => Leq(t, mtime)
    BY <2>1, <2>2 DEF Pending, Leq, Wide
  <2> QED BY <1>2, <2>3 DEF CompareIsAsked, HelloSetting
<1>3. TimerInv => UndisturbedUpdatesAreSafe
  BY <1>1, <1>2 DEF TimerInv, ClientAll, HelloAll, HelloInv
<1> QED BY <1>3, TimerInductive, PTL DEF Spec

\* For any program and counters of any width, get_elapsed_time
\* (simple_system_common.c:190) returns a value that the counter had during the
\* call, unless the handler carried into the high word between its two loads.
THEOREM ElapsedTimesAreWhole == Spec => []ElapsedIsWhole
<1>1. Client!ElapsedIsWhole => ElapsedIsWhole
  BY Zenon DEF Client!ElapsedIsWhole, ElapsedIsWhole
<1>2. TimerInv => ElapsedIsWhole
  BY <1>1 DEF TimerInv, ClientAll, HelloAll
<1> QED BY <1>2, TimerInductive, PTL DEF Spec

\* For any program, whether an instruction of it faults between two calls or one
\* of the interrupt handler's, the exception handler
\* (simple_system_common.c:135) reports that fault.
THEOREM FaultsAreReported == Spec => []ReportsTheFault
<1>1. TimerInv => ReportsTheFault
  <2>1. Reporting => ReportsTheFault
    BY DEF Reporting, ReportsTheFault
  <2>2. HelloHart => ReportsTheFault
    BY DEF HelloHart, ReportsTheFault
  <2> QED BY <2>1, <2>2 DEF TimerInv, ClientAll, HelloAll, HelloInv
<1> QED BY <1>1, TimerInductive, PTL DEF Spec

\* For words of any width, if the time base is 16 ticks or more and the bound of
\* mtime leaves room for it, hello_test's main does not sleep on a count it has
\* not announced (hello_test.c:37): its wfi comes before the next interrupt.
THEOREM WakeupsAreNotLost ==
  ASSUME LongInterval
  PROVE  Spec => []NoLostWakeup
<1> DEFINE Inv == TimerInv /\ (image # "client" => WakeInv)
<1>1. Init => Inv
  BY TimerInductive, HelloRuns, WakeInductive
<1>2. Inv /\ [Next]_vars => Inv'
  <2> SUFFICES ASSUME Inv, [Next]_vars PROVE Inv'
    OBVIOUS
  <2>1. TimerInv'
    BY TimerInductive
  <2>2. ASSUME image' # "client" PROVE WakeInv'
    BY <2>2, HelloRuns, WakeInductive DEF TimerInv
  <2> QED BY <2>1, <2>2
<1>3. Inv => NoLostWakeup
  BY DEF TimerInv, ClientAll, TimeInv, Hart, WakeInv, Told, NoLostWakeup
<1> QED BY <1>1, <1>2, <1>3, PTL DEF Spec

--------------------------------------------------------------------------------
(* The UART library.                                                       *)

ConsoleTyped ==
  /\ tx \in Chars \cup {Empty} /\ rx \in Chars \cup {Empty}
  /\ fn \in {"none", "puts", "gets", "read"}
  /\ text \in Seq(Chars) /\ line \in Seq(Chars)
  /\ written \in Seq(Chars) /\ taken \in Seq(Chars)
  /\ buf \in [0 .. BufferSize -> Chars \cup {0, Untouched}]
  /\ size \in Nat /\ ready \in BOOLEAN

\* A call fills the buffer from its start and never has more left of it than is
\* behind what it wrote; uart_gets keeps a byte for its zero. What the last poll
\* found is still so: nobody but uart_putc starts the device.
Filling ==
  /\ next = Len(taken) /\ next + size <= BufferSize
  /\ fn = "gets" => size >= 1
  /\ ready => tx = Empty /\ text # <<>>

ConsoleInv == ConsoleTyped /\ Filling /\ ConsoleIntact

\* A character that is taken goes into the buffer behind those taken before it.
LEMMA CharacterTaken ==
  ASSUME NEW c \in Chars, ConsoleTyped, Filling, ConsoleIntact, size > 0,
         taken' = Append(taken, c), buf' = [buf EXCEPT ![next] = c]
  PROVE  /\ taken' \in Seq(Chars) /\ Len(taken') = Len(taken) + 1
         /\ \A i \in 1 .. Len(taken') : buf'[i - 1] = taken'[i]
         /\ \A i \in Len(taken') .. BufferSize : buf'[i] \in {Untouched, 0}
         /\ buf'[BufferSize] = Untouched
  <1> USE DEF ConsoleTyped, Filling, ConsoleIntact
  <1>1. Len(taken) \in Nat /\ next < BufferSize /\ BufferSize \in Nat
    BY ConsoleAssumption
  <1>2. /\ taken' \in Seq(Chars) /\ Len(taken') = Len(taken) + 1
        /\ \A i \in 1 .. Len(taken) : taken'[i] = taken[i]
        /\ taken'[Len(taken) + 1] = c
    BY <1>1
  <1>3. \A i \in 0 .. BufferSize : buf'[i] = IF i = next THEN c ELSE buf[i]
    BY <1>1
  <1>4. ASSUME NEW i \in 1 .. Len(taken')  PROVE buf'[i - 1] = taken'[i]
    <2>1. CASE i = Len(taken) + 1
      BY <1>1, <1>2, <1>3, <2>1
    <2>2. CASE i \in 1 .. Len(taken)
      BY <1>1, <1>2, <1>3, <2>2
    <2>3. QED
      BY <1>1, <1>2, <2>1, <2>2
  <1>5. ASSUME NEW i \in Len(taken') .. BufferSize  PROVE buf'[i] \in {Untouched, 0}
    BY <1>1, <1>2, <1>3
  <1>6. QED
    BY <1>1, <1>2, <1>3, <1>4, <1>5

\* Every step of the device and of the library keeps the invariant.
LEMMA ConsoleKeeps ==
  ASSUME ConsoleInv, ConsoleStep
  PROVE  ConsoleInv'
  <1> USE DEF ConsoleInv, ConsoleTyped, Filling, ConsoleIntact
  <1>1. CASE Transmitted
    BY <1>1 DEF Transmitted, progVars
  <1>2. CASE Arrive
    BY <1>2 DEF Arrive, progVars
  <1>3. CASE Invoke
    <2>1. PICK f \in {"puts", "gets", "read"}, s \in Seq(Chars), n \in 0 .. BufferSize :
            Calling(f, s, n) /\ (f = "gets" => n >= 1)
      <3>1. CASE \E s \in Texts : Calling("puts", s, 0)
        BY <3>1, ConsoleAssumption
      <3>2. CASE \E n \in 1 .. BufferSize : \E f \in {"gets", "read"} : Calling(f, <<>>, n)
        <4>1. PICK n \in 1 .. BufferSize, f \in {"gets", "read"} : Calling(f, <<>>, n)
          BY <3>2
        <4>2. <<>> \in Seq(Chars) /\ n \in 0 .. BufferSize /\ n >= 1
          BY ConsoleAssumption
        <4>3. QED
          BY <4>1, <4>2
      <3>3. QED
        BY <1>3, <3>1, <3>2 DEF Invoke
    <2>2. buf' = Blank /\ taken' = <<>> /\ next' = 0 /\ size' = n /\ ready' = FALSE
      BY <2>1 DEF Calling
    <2>3. ConsoleTyped'
      <3>1. buf' \in [0 .. BufferSize -> Chars \cup {0, Untouched}] /\ taken' \in Seq(Chars)
        BY <2>2 DEF Blank
      <3>2. /\ fn' = f /\ text' = s
            /\ UNCHANGED <<tx, rx, line, written>>
        BY <2>1 DEF Calling
      <3>3. f \in {"none", "puts", "gets", "read"} /\ n \in Nat
        BY ConsoleAssumption
      <3>4. QED
        BY <2>2, <3>1, <3>2, <3>3
    <2>4. Filling'
      BY <2>1, <2>2, ConsoleAssumption DEF Calling
    <2>5. ConsoleIntact'
      BY <2>1, <2>2, ConsoleAssumption DEF Calling, Blank
    <2>6. QED
      BY <2>3, <2>4, <2>5
  <1>4. CASE PollStatus
    BY <1>4 DEF PollStatus
  <1>5. CASE WriteData
    <2>1. tx = Empty /\ written = line
      BY <1>5 DEF WriteData
    <2>2. Head(text) \in Chars /\ Tail(text) \in Seq(Chars) /\ Head(text) # Empty
      BY <1>5, ConsoleAssumption DEF WriteData
    <2>3. /\ tx' = Head(text) /\ written' = Append(line, Head(text)) /\ text' = Tail(text)
          /\ ready' = FALSE /\ UNCHANGED <<rx, line, fn, buf, next, size, made, arrived, taken>>
      BY <1>5, <2>1 DEF WriteData
    <2>4. written' \in Seq(Chars)
      BY <2>2, <2>3
    <2>5. QED
      BY <2>2, <2>3, <2>4
  <1>6. CASE PutsReturns
    BY <1>6 DEF PutsReturns
  <1>7. CASE ReadData /\ rx = Empty
    BY <1>7 DEF ReadData
  <1>8. CASE ReadData /\ rx # Empty
    <2>1. rx \in Chars /\ size > 0 /\ (fn = "gets" => size > 1)
      BY <1>8 DEF ReadData, WantsMore
    <2>2. /\ rx' = Empty /\ taken' = Append(taken, rx) /\ buf' = [buf EXCEPT ![next] = rx]
          /\ next' = next + 1 /\ size' = size - 1
          /\ UNCHANGED <<tx, line, fn, text, ready, made, arrived, written>>
      BY <1>8 DEF ReadData
    <2>3. /\ taken' \in Seq(Chars) /\ Len(taken') = Len(taken) + 1
          /\ \A i \in 1 .. Len(taken') : buf'[i - 1] = taken'[i]
          /\ \A i \in Len(taken') .. BufferSize : buf'[i] \in {Untouched, 0}
          /\ buf'[BufferSize] = Untouched
      BY <2>1, <2>2, CharacterTaken
    <2>4. ConsoleTyped'
      <3>1. buf' \in [0 .. BufferSize -> Chars \cup {0, Untouched}]
        BY <2>1, <2>2
      <3>2. size' \in Nat
        BY <2>1, <2>2
      <3>3. QED
        BY <2>1, <2>2, <2>3, <3>1, <3>2
    <2>5. Filling'
      BY <2>1, <2>2, <2>3
    <2>6. ConsoleIntact'
      BY <2>2, <2>3
    <2>7. QED
      BY <2>4, <2>5, <2>6
  <1>9. CASE ReadReturns
    <2>1. CASE fn = "gets"
      <3>1. next < BufferSize /\ next \in 0 .. BufferSize /\ BufferSize \in Nat
        BY <2>1, ConsoleAssumption
      <3>2. \A i \in 0 .. BufferSize : buf'[i] = IF i = next THEN 0 ELSE buf[i]
        BY <1>9, <2>1, <3>1 DEF ReadReturns
      <3>3. ConsoleTyped' /\ Filling'
        BY <1>9, <2>1, <3>1 DEF ReadReturns
      <3>4. ConsoleIntact'
        BY <1>9, <2>1, <3>1, <3>2 DEF ReadReturns
      <3>5. QED
        BY <3>3, <3>4
    <2>2. CASE fn # "gets"
      BY <1>9, <2>2 DEF ReadReturns
    <2>3. QED
      BY <2>1, <2>2
  <1>10. QED
    BY <1>1, <1>2, <1>3, <1>4, <1>5, <1>6, <1>7, <1>8, <1>9 DEF ConsoleStep

--------------------------------------------------------------------------------
(* The LED program.                                                        *)

\* The passes asked for, where the argument is one that the delay is exact for.
Asked   == CyclesPerUsec * usec
Passes  == Asked \div CyclesPerLoop
InRange == Asked >= CyclesPerLoop /\ Asked < LoopSpan * CyclesPerLoop

\* While the loop runs, what it has waited and what its counter holds make up the
\* passes asked for; after it, all have been waited.
DelayInv ==
  /\ usec \in Nat /\ loops \in 0 .. LoopSpan - 1 /\ delaying \in BOOLEAN /\ waited \in Nat
  /\ InRange => /\ delaying => loops > 0 /\ waited + loops * CyclesPerLoop = Passes * CyclesPerLoop
                /\ ~delaying /\ waited > 0 => waited = Passes * CyclesPerLoop

\* A quotient's place, and that of the number of passes in a word.
LEMMA Quotients ==
  ASSUME NEW a \in Nat, NEW n \in Nat \ {0}, NEW s \in Nat \ {0}
  PROVE  /\ a \div n \in Nat /\ (a \div n) * n <= a /\ a - (a \div n) * n < n
         /\ a >= n => a \div n > 0
         /\ a < s * n => a \div n < s /\ (a \div n) % s = a \div n
         /\ (a \div n) % s \in 0 .. s - 1
  <1> DEFINE q == a \div n
  <1>1. q \in Nat /\ q * n <= a /\ a - q * n < n
    BY SMTT(30)
  <1> HIDE DEF q
  <1>2. a >= n => q > 0
    <2>1. q = 0 => q * n = 0
      OBVIOUS
    <2>2. QED
      BY <1>1, <2>1
  <1>3. a < s * n => q < s
    <2> SUFFICES ASSUME a < s * n, q >= s  PROVE FALSE
      BY <1>1
    <2>1. q * n >= s * n
      BY <1>1
    <2>2. q * n \in Nat /\ s * n \in Nat
      BY <1>1
    <2>3. QED
      BY <1>1, <2>1, <2>2
  <1>4. q % s \in 0 .. s - 1 /\ (q < s => q % s = q)
    BY <1>1
  <1>5. QED
    BY <1>1, <1>2, <1>3, <1>4 DEF q

\* Every step of the LED program keeps the invariant.
LEMMA DelayKeeps ==
  ASSUME DelayInv, BlinkStep
  PROVE  DelayInv'
  <1> USE BlinkAssumption
  <1> DEFINE microCycles(u) == CyclesPerUsec * u
  <1>1. \A u \in Nat : microCycles(u) \in Nat
    OBVIOUS
  <1>2. CASE Usleep
    <2>1. usec' \in Nat /\ loops' = UsecCycles(usec') /\ waited' = 0 /\ delaying' = TRUE
      BY <1>2 DEF Usleep
    <2> DEFINE a == microCycles(usec')
    <2>2. a \in Nat
      BY <1>1, <2>1
    <2>3. loops' = (a \div CyclesPerLoop) % LoopSpan /\ Passes' = a \div CyclesPerLoop
          /\ (InRange' <=> a >= CyclesPerLoop /\ a < LoopSpan * CyclesPerLoop)
      BY <2>1 DEF UsecCycles, Passes, Asked, InRange
    <2> HIDE DEF a
    <2>4. /\ a >= CyclesPerLoop => a \div CyclesPerLoop > 0
          /\ a < LoopSpan * CyclesPerLoop
               => (a \div CyclesPerLoop) % LoopSpan = a \div CyclesPerLoop
          /\ (a \div CyclesPerLoop) % LoopSpan \in 0 .. LoopSpan - 1
      BY <2>2, Quotients
    <2>5. QED
      BY <2>1, <2>2, <2>3, <2>4 DEF DelayInv
  <1>3. CASE DelayLoop
    <2>1. /\ delaying /\ loops' = (loops + LoopSpan - 1) % LoopSpan
          /\ waited' = waited + CyclesPerLoop /\ usec' = usec
          /\ (delaying' <=> loops' # 0) /\ delaying' \in BOOLEAN
      BY <1>3 DEF DelayLoop, DelayInv
    <2>2. loops' \in 0 .. LoopSpan - 1 /\ (loops > 0 => loops' = loops - 1)
      BY <2>1 DEF DelayInv
    <2>3. waited' \in Nat /\ waited' > 0
      BY <2>1 DEF DelayInv
    <2>4. (InRange' <=> InRange) /\ Passes' = Passes
      BY <2>1 DEF InRange, Passes, Asked
    <2>5. ASSUME InRange
          PROVE  /\ loops' = loops - 1
                 /\ waited' + loops' * CyclesPerLoop = Passes * CyclesPerLoop
      <3>1. loops > 0 /\ waited + loops * CyclesPerLoop = Passes * CyclesPerLoop
        BY <2>1, <2>5 DEF DelayInv
      <3>2. (loops - 1) * CyclesPerLoop = loops * CyclesPerLoop - CyclesPerLoop
        BY DEF DelayInv
      <3>3. QED
        BY <2>1, <2>2, <3>1, <3>2 DEF DelayInv
    <2>6. QED
      BY <2>1, <2>2, <2>3, <2>4, <2>5 DEF DelayInv
  <1>4. QED
    BY <1>2, <1>3 DEF BlinkStep

\* What the images that do not use the timer keep.
OthersInv ==
  /\ image \in Images /\ ConsoleInv /\ DelayInv
  /\ led \in 0 .. 255 /\ usec \in Usecs \cup {0}

\* Every image starts with it, and keeps it.
LEMMA OthersInductive ==
  /\ Init => OthersInv
  /\ OthersInv /\ [Next]_vars => OthersInv'
<1>1. ASSUME Init PROVE OthersInv
  <2>1. ConsoleTyped /\ Filling
    BY <1>1, ConsoleAssumption DEF Init, ConsoleInit, ConsoleTyped, Filling, Blank
  <2>2. ConsoleIntact
    BY <1>1, ConsoleAssumption DEF Init, ConsoleInit, ConsoleIntact, Blank
  <2>3. led = 10 /\ usec = 0 /\ loops = 0 /\ delaying = FALSE /\ waited = 0 /\ image \in Images
    BY <1>1 DEF Init, BlinkInit
  <2>4. Asked = 0 /\ loops \in 0 .. LoopSpan - 1
    BY <2>3, BlinkAssumption DEF Asked
  <2>5. DelayInv
    <3>1. ~InRange
      BY <2>4, BlinkAssumption DEF InRange
    <3> QED BY <2>3, <2>4, <3>1 DEF DelayInv
  <2> QED BY <2>1, <2>2, <2>3, <2>5 DEF OthersInv, ConsoleInv
<1>2. ASSUME OthersInv, [Next]_vars PROVE OthersInv'
  <2>1. image' = image
    BY <1>2 DEF Next, vars, Hello, UseTimer, UseConsole, BlinkLeds
  <2>2. ConsoleStep \/ UNCHANGED consoleVars
    BY <1>2 DEF Next, vars, Hello, UseTimer, UseConsole, BlinkLeds
  <2>3. BlinkStep \/ UNCHANGED blinkVars
    BY <1>2 DEF Next, vars, Hello, UseTimer, UseConsole, BlinkLeds
  <2>4. UNCHANGED consoleVars => ConsoleInv'
    BY <1>2 DEF OthersInv, consoleVars, ConsoleInv, ConsoleTyped, Filling, ConsoleIntact
  <2>5. UNCHANGED blinkVars => DelayInv'
    BY <1>2 DEF OthersInv, blinkVars, DelayInv, InRange, Passes, Asked
  <2>6. led' \in 0 .. 255 /\ usec' \in Usecs \cup {0}
    BY <1>2, <2>3 DEF OthersInv, BlinkStep, Usleep, DelayLoop, blinkVars
  <2> QED BY <1>2, <2>1, <2>2, <2>3, <2>4, <2>5, <2>6, ConsoleKeeps, DelayKeeps DEF OthersInv
<1> QED BY <1>1, <1>2

\* Every character the program sends leaves the device once and in order, and the
\* caller's buffer holds the characters received, and a zero, and is not
\* overrun (uart.c:6, 29-47).
THEOREM ConsolePassesAll == Spec => []ConsoleIntact
<1>1. OthersInv => ConsoleIntact
  BY DEF OthersInv, ConsoleInv
<1> QED BY <1>1, OthersInductive, PTL DEF Spec

\* A usleep of one pass or more, and of no more than the counter can hold, lasts
\* as long as was asked for, to less than a pass (led.c:27).
THEOREM DelaysAreKept == Spec => []DelayIsAsAsked
<1>1. DelayInv => DelayIsAsAsked
  <2> SUFFICES ASSUME DelayInv, ~delaying, waited > 0, InRange
               PROVE  waited <= Asked /\ Asked - waited < CyclesPerLoop
    BY DEF DelayIsAsAsked, InRange, Asked
  <2>1. Asked \in Nat /\ waited = Passes * CyclesPerLoop
    BY BlinkAssumption DEF Asked, DelayInv
  <2> QED BY <2>1, Quotients, BlinkAssumption DEF Passes
<1>2. OthersInv => DelayIsAsAsked
  BY <1>1 DEF OthersInv
<1> QED BY <1>2, OthersInductive, PTL DEF Spec

\* The programs keep the types of their variables, whichever is loaded: the words
\* of the timer, of the counters and of main, the place in the caller's buffer,
\* and the counter of the delay loop.
THEOREM TypesAreKept == Spec => []TypeOK
<1>1. ASSUME TimerInv, OthersInv PROVE TypeOK
  <2>1. ASSUME image = "client" PROVE Client!TimerTypeOK /\ calls \in 0 .. MaxCalls
    <3>1. Typed /\ Counted
      BY <1>1, <2>1 DEF TimerInv, ClientAll, TimeInv
    <3> QED BY <3>1 DEF Typed, Counted, Calls, Client!TimerTypeOK
  <2>2. ASSUME image # "client"
        PROVE  TimerTypeOK /\ HelloTypeOK /\ calls \in 0 .. MaxCalls
    <3>1. HelloTyped /\ MainTyped /\ calls = 0 /\ MaxCalls \in Nat
      BY <1>1, <2>2, ClientRuns DEF TimerInv, HelloAll, HelloInv, Client!ClientAssumption
    <3>2. TimerTypeOK
      BY <3>1 DEF HelloTyped, HelloCalls, TimerTypeOK
    <3> QED BY <3>1, <3>2 DEF MainTyped
  <2>3. ConsoleTypeOK
    <3>1. Len(taken) \in Nat /\ size \in Nat /\ BufferSize \in Nat
      BY <1>1, ConsoleAssumption DEF OthersInv, ConsoleInv, ConsoleTyped
    <3>2. next \in 0 .. BufferSize /\ size \in 0 .. BufferSize
      BY <1>1, <3>1 DEF OthersInv, ConsoleInv, Filling
    <3> QED BY <1>1, <3>2 DEF OthersInv, ConsoleInv, ConsoleTyped, ConsoleTypeOK
  <2>4. BlinkTypeOK
    BY <1>1 DEF OthersInv, DelayInv, BlinkTypeOK
  <2> QED BY <1>1, <2>1, <2>2, <2>3, <2>4, Zenon DEF TypeOK, OthersInv
<1> QED BY <1>1, TimerInductive, OthersInductive, PTL DEF Spec
================================================================================
