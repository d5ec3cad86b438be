------------------------------- MODULE HelloTest -------------------------------
(***************************************************************************)
(* hello_test: main counts the cycles of a greeting, enables the timer,    *)
(* and sleeps between interrupts, announcing each one it finds counted,    *)
(* until it has seen five. Then crt0 halts the simulation.                 *)
(***************************************************************************)
EXTENDS SimpleTimer

CONSTANTS
  TimeBase,     \* the ticks between interrupts (2000 in the program)
  StartCycles   \* what mcycle may hold when main begins

ASSUME HelloAssumption ==
  /\ TimeBase \in Wide(Span) /\ StartCycles \subseteq Wide(CountSpan)

\* A number of two words, and what keeps main ahead of the timer: it is asleep
\* again no more than 16 ticks after the time was read that the next interrupt is
\* set from (the program allows for 2000), and a time base on the last time fits.
Ticks(t)     == t.hi * Span + t.lo
LongInterval == Ticks(TimeBase) >= 16 /\ Ticks(LastTime) + Ticks(TimeBase) < Span * Span

VARIABLES
  at,                 \* where main is
  last_elapsed_time,
  mcycle, mcountinhibit,
  measured            \* history: the cycles of the part to be measured

mainVars  == <<at, last_elapsed_time>>
countVars == <<mcycle, mcountinhibit, measured>>
helloVars == <<mainVars, countVars>>

MainInit ==
  /\ at = "pcount_enable(0)" /\ last_elapsed_time = ZeroPair
  /\ mcycle \in StartCycles /\ mcountinhibit = FALSE /\ measured = ZeroPair

HelloInit == mtime = ZeroPair /\ TimerInit /\ MainInit

\* mcycle counts the cycles of a step, unless it is inhibited.
Counting ==
  IF mcountinhibit \/ mtime' = mtime THEN UNCHANGED <<mcycle, measured>>
  ELSE /\ mcycle' = Succ(mcycle, CountSpan)
       /\ measured' = IF at \in {"greet", "pcount_enable(0) again"}
                        THEN Succ(measured, CountSpan) ELSE measured

\* main moves from p to q by one step of its own; its calls are made of steps
\* of the library.
Step(p, q) == Runs("main") /\ call["main"].pc = "idle" /\ at = p /\ at' = q /\ Clock
Quiet      == UNCHANGED <<mtimecmp, csrVars, running, asleep, time_elapsed, time_increment, halted,
                          asked, mixed, seen>>
Begin(f, p, b) == call' = [call EXCEPT !["main"] = Call(f, p, b)]

\* A call of the library that main has made is over.
Returned(f) == Runs("main") /\ call["main"].fn = f /\ call["main"].pc = "done"
Finish      == call' = [call EXCEPT !["main"] = NoCall]

PcountEnable(p, q, enable) ==
  /\ Step(p, q) /\ Quiet
  /\ mcountinhibit' = (enable = 0) /\ Counting
  /\ UNCHANGED <<call, out, last_elapsed_time>>

\* Broken: the high words keep what they held.
PcountResetLowOnly(p, q, word) ==
  /\ Step(p, q) /\ Quiet
  /\ mcycle' = [mcycle EXCEPT !.lo = 0]
  /\ UNCHANGED <<call, out, last_elapsed_time, mcountinhibit, measured>>

\* pcount_reset: the low words of the counters, then the high words; a write
\* comes before an increment.
PcountReset(p, q, word) ==
  /\ Step(p, q) /\ Quiet
  /\ mcycle' = [mcycle EXCEPT ![word] = 0]
  /\ UNCHANGED <<call, out, last_elapsed_time, mcountinhibit, measured>>

Greet ==
  /\ Step("greet", "pcount_enable(0) again") /\ Quiet
  /\ Show(<<"Hello", "DEADBEEF", "BAADF00D">>) /\ Counting
  /\ UNCHANGED <<call, last_elapsed_time, mcountinhibit>>

\* Broken: the time base is about as long as a pass of main's loop.
EnableTimerTooShort ==
  /\ Step("timer_enable", "enabling") /\ Quiet
  /\ Begin("timer_enable", "enable", Pair(0, Span - 3))
  /\ Counting /\ UNCHANGED <<out, last_elapsed_time, mcountinhibit>>

EnableTimer ==
  /\ Step("timer_enable", "enabling") /\ Quiet
  /\ Begin("timer_enable", "enable", TimeBase)
  /\ Counting /\ UNCHANGED <<out, last_elapsed_time, mcountinhibit>>

FirstElapsed ==
  /\ at = "enabling" /\ Returned("timer_enable") /\ Clock
  /\ at' = "first" /\ Begin("get_elapsed_time", "load", ZeroPair)
  /\ Quiet /\ Counting /\ UNCHANGED <<out, last_elapsed_time, mcountinhibit>>

\* last_elapsed_time = get_elapsed_time() before the loop.
KeepFirst ==
  /\ at = "first" /\ Returned("get_elapsed_time") /\ Clock
  /\ at' = "while" /\ Finish /\ last_elapsed_time' = call["main"].time
  /\ Quiet /\ Counting /\ UNCHANGED <<out, mcountinhibit>>

While ==
  /\ Step("while", IF Leq(last_elapsed_time, Pair(0, 4)) THEN "look" ELSE "return")
  /\ IF at' = "look" THEN Begin("get_elapsed_time", "load", ZeroPair)
                     ELSE call' = [call EXCEPT !["main"].pc = "halt"]
  /\ Quiet /\ Counting /\ UNCHANGED <<out, last_elapsed_time, mcountinhibit>>

\* A new count is announced: Tick for an odd one, Tock for an even one.
Announce ==
  LET cur_time == call["main"].time
  IN  /\ at = "look" /\ Returned("get_elapsed_time") /\ Clock
      /\ at' = "wfi" /\ Finish /\ last_elapsed_time' = cur_time
      /\ Show(IF cur_time = last_elapsed_time THEN <<>>
               ELSE <<IF cur_time.lo % 2 = 1 THEN "Tick" ELSE "Tock">>)
      /\ Quiet /\ Counting /\ UNCHANGED mcountinhibit

\* wfi: nothing is printed between the count that was read and this step, and
\* an interrupt between them is not awaited here but the next one is.
Wfi ==
  /\ Step("wfi", "while") /\ asleep' = TRUE /\ Counting
  /\ UNCHANGED <<mtimecmp, csrVars, running, call, ramVars, out, halted, cmpVars, seen,
                 last_elapsed_time, mcountinhibit>>

HelloStep ==
  \/ PcountEnable("pcount_enable(0)", "reset_low", 0)
  \/ PcountReset("reset_low", "reset_high", "lo")
  \/ PcountReset("reset_high", "pcount_enable(1)", "hi")
  \/ PcountEnable("pcount_enable(1)", "greet", 1)
  \/ Greet
  \/ PcountEnable("pcount_enable(0) again", "timer_enable", 0)
  \/ EnableTimer \/ FirstElapsed \/ KeepFirst
  \/ While \/ Announce \/ Wfi
  \/ LibraryStep /\ Counting /\ UNCHANGED <<mainVars, mcountinhibit>>

--------------------------------------------------------------------------------
HelloTypeOK ==
  /\ last_elapsed_time \in Wide(CountSpan)
  /\ mcycle \in Wide(CountSpan) /\ mcountinhibit \in BOOLEAN

\* main does not sleep on an interrupt it has not announced (hello_test.c:37):
\* none comes between its look at the count and its wfi.
NoLostWakeup == asleep => last_elapsed_time = time_elapsed

\* main prints its greeting and five alternating announcements, and halts; then
\* mcycle still holds the cycles of the greeting alone, whatever it held before
\* (hello_test.c:8-18: reset and enabled before it, disabled after it).
HelloText == <<"Hello", "DEADBEEF", "BAADF00D", "Tick", "Tock", "Tick", "Tock", "Tick">>
HelloCompletes == <>(halted /\ out = HelloText /\ mcycle = measured)
================================================================================
