------------------------------ MODULE SimpleTimer ------------------------------
(***************************************************************************)
(* The timer library of simple_system, on one hart with the timer it       *)
(* drives: every 32-bit access to the timer or to a 64-bit variable is a   *)
(* step, and the timer interrupt may come between any two of them. The     *)
(* trap entry, mret and wfi of the hart follow the core's controller. The  *)
(* main program is left to the modules that extend this one.               *)
(***************************************************************************)
EXTENDS Integers, Sequences

CONSTANTS
  Span,         \* the values a word of the timer has (2^32 in the program)
  CountSpan,    \* the same for the words of time_elapsed
  LastTime      \* bound: where the model stops mtime

\* A 64-bit number as its two words.
Wide(n)      == [hi : 0 .. n - 1, lo : 0 .. n - 1]
Pair(h, l)   == [hi |-> h, lo |-> l]
ZeroPair     == Pair(0, 0)
Leq(s, t)    == s.hi < t.hi \/ (s.hi = t.hi /\ s.lo <= t.lo)
Plus(s, t)   ==
  LET low   == s.lo + t.lo
      carry == IF low >= Span THEN 1 ELSE 0
  IN  Pair((s.hi + t.hi + carry) % Span, low % Span)
Succ(s, n)   == IF s.lo = n - 1 THEN Pair((s.hi + 1) % n, 0) ELSE Pair(s.hi, s.lo + 1)

ASSUME TimerAssumption ==
  /\ Span \in Nat \ {0, 1} /\ CountSpan \in Nat \ {0, 1}
  /\ LastTime \in Wide(Span)

Contexts == {"main", "isr", "exc"}
Causes   == {"none", "timer", "fault"}

VARIABLES
  mtime, mtimecmp,  \* the timer's two registers
  mie, mstatus,     \* mie.MTIE, and the interrupt enables [mie, mpie] of mstatus
  trap,             \* mepc, mcause and mtval: what the last trap interrupted
  running,          \* the context the hart executes in
  asleep,           \* the core is in SLEEP
  call,             \* the library call in progress in each context
  time_elapsed, time_increment,
  out, halted,      \* what the simulator printed; it has stopped
  asked,            \* history: the compare values that may be in force
  mixed,            \* history: an interrupt's update ran inside one of main's
  seen              \* history: what time_elapsed held during main's call

timerVars == <<mtime, mtimecmp, mie, mstatus, trap, running, asleep, call,
               time_elapsed, time_increment, out, halted, asked, mixed, seen>>

\* fn is the function called, pc the next step of it; half, base, target and
\* time are its locals. from is mtime when the call was made, and torn tells
\* that an interrupt came inside its update.
NoCall == [fn |-> "none", pc |-> "idle", half |-> "hi", base |-> ZeroPair,
           time |-> ZeroPair, target |-> ZeroPair, from |-> ZeroPair, torn |-> FALSE]
Call(f, p, b) == [NoCall EXCEPT !.fn = f, !.pc = p, !.base = b, !.from = mtime]

TimerInit ==
  /\ mtimecmp = ZeroPair
  /\ mie = FALSE /\ mstatus = [mie |-> FALSE, mpie |-> TRUE]
  /\ trap = [epc |-> "main", cause |-> "none", tval |-> "none"]
  /\ running = "main" /\ asleep = FALSE /\ call = [c \in Contexts |-> NoCall]
  /\ time_elapsed = ZeroPair /\ time_increment = ZeroPair
  /\ out = <<>> /\ halted = FALSE
  /\ asked = {mtimecmp} /\ mixed = FALSE /\ seen = {}

\* A step takes no time or one tick of the timer, which then counts.
Clock == mtime' = mtime \/ (mtime # LastTime /\ mtime' = Succ(mtime, Span))

--------------------------------------------------------------------------------
\* The hart.

Pending   == Leq(mtimecmp, mtime)         \* the timer's interrupt line
Requested == Pending /\ mie               \* irq_pending
HandleIrq == Requested /\ mstatus.mie     \* handle_irq: taken before main moves

\* Context c executes: not while an interrupt is to be taken.
Runs(c) == running = c /\ ~HandleIrq /\ ~asleep /\ ~halted

Trap(to, cause, tval) ==
  /\ running' = to /\ trap' = [epc |-> running, cause |-> cause, tval |-> tval]
  /\ mstatus' = [mie |-> FALSE, mpie |-> mstatus.mie]

\* Context c is between the first and the last write of timecmp_update.
Updating(c) == call[c].pc \in {"cmp_high", "cmp_low"}

Interrupt ==
  /\ HandleIrq /\ ~asleep /\ ~halted /\ Trap("isr", "timer", "none")
  /\ call' = [call EXCEPT !["isr"] = Call("isr", "read_high", time_increment),
                          !["main"].torn = @ \/ Updating("main")]
  /\ mixed' = (mixed \/ Updating("main"))
  /\ UNCHANGED <<mtime, mtimecmp, mie, asleep, time_elapsed, time_increment, out, halted, asked,
                 seen>>

Mret ==
  /\ Runs("isr") /\ call["isr"].pc = "mret" /\ Clock
  /\ running' = trap.epc /\ mstatus' = [mie |-> mstatus.mpie, mpie |-> TRUE]
  /\ call' = [call EXCEPT !["isr"] = NoCall]
  /\ UNCHANGED <<mtimecmp, mie, trap, asleep, time_elapsed, time_increment, out, halted, asked,
                 mixed, seen>>

\* Broken: the handler of exceptions runs with the interrupts enabled.
FaultInterruptible(c) ==
  /\ Runs(c) /\ Clock
  /\ running' = "exc" /\ mstatus' = mstatus
  /\ trap' = [epc |-> running, cause |-> "fault", tval |-> "address"]
  /\ call' = [call EXCEPT !["exc"] = Call("exc", "epc", ZeroPair)]
  /\ UNCHANGED <<mtimecmp, mie, asleep, time_elapsed, time_increment, out, halted, asked, mixed,
                 seen>>

\* An instruction of c faults: the handler of exceptions takes over.
Fault(c) ==
  /\ Runs(c) /\ Clock
  /\ Trap("exc", "fault", "address")
  /\ call' = [call EXCEPT !["exc"] = Call("exc", "epc", ZeroPair)]
  /\ UNCHANGED <<mtimecmp, mie, asleep, time_elapsed, time_increment, out, halted, asked, mixed,
                 seen>>

csrVars  == <<mie, mstatus, trap>>
hartVars == <<csrVars, running, asleep, out, halted>>
ramVars  == <<time_elapsed, time_increment>>
cmpVars  == <<mtimecmp, asked, mixed>>

--------------------------------------------------------------------------------
\* The library: c is the context that makes the call.

\* putchar, puts and puthex, one item for all the characters of a call.
Show(items) == out' = out \o items

Goto(c, p) == call' = [call EXCEPT ![c].pc = p]

\* timer_read: high word, low word, and again if the high word has changed.
ReadHigh(c) ==
  /\ Runs(c) /\ call[c].pc = "read_high" /\ Clock
  /\ call' = [call EXCEPT ![c].time.hi = mtime.hi, ![c].pc = "read_low"]
  /\ UNCHANGED <<hartVars, ramVars, cmpVars, seen>>

ReadLow(c) ==
  /\ Runs(c) /\ call[c].pc = "read_low" /\ Clock
  /\ call' = [call EXCEPT ![c].time.lo = mtime.lo, ![c].pc = "read_again"]
  /\ UNCHANGED <<hartVars, ramVars, cmpVars, seen>>

\* Broken: the high word is not read again.
ReadAgainNever(c) ==
  /\ Runs(c) /\ call[c].pc = "read_again" /\ Clock
  /\ call' = [call EXCEPT
       ![c].pc     = IF call[c].fn = "timer_read" THEN "done" ELSE "cmp_mask",
       ![c].target = Plus(call[c].time, call[c].base)]
  /\ UNCHANGED <<hartVars, ramVars, cmpVars, seen>>

\* What follows the reading: timer_read returns, increment_timecmp updates.
ReadAgain(c) ==
  /\ Runs(c) /\ call[c].pc = "read_again" /\ Clock
  /\ IF call[c].time.hi # mtime.hi
       THEN Goto(c, "read_high")
       ELSE call' = [call EXCEPT
              ![c].pc     = IF call[c].fn = "timer_read" THEN "done" ELSE "cmp_mask",
              ![c].target = Plus(call[c].time, call[c].base)]
  /\ UNCHANGED <<hartVars, ramVars, cmpVars, seen>>

\* Broken: the low word is not masked before the high word is written.
MaskCompareNot(c) ==
  /\ Runs(c) /\ call[c].pc = "cmp_mask" /\ Clock
  /\ mtimecmp' = mtimecmp
  /\ call' = [call EXCEPT ![c].pc = "cmp_high", ![c].torn = FALSE]
  /\ asked' = asked \cup {call[c].target}
  /\ UNCHANGED <<hartVars, ramVars, mixed, seen>>

\* timecmp_update: all ones into the low word, then high, then low.
MaskCompare(c) ==
  /\ Runs(c) /\ call[c].pc = "cmp_mask" /\ Clock
  /\ mtimecmp' = [mtimecmp EXCEPT !.lo = Span - 1]
  /\ call' = [call EXCEPT ![c].pc = "cmp_high", ![c].torn = FALSE]
  /\ asked' = asked \cup {call[c].target}
  /\ UNCHANGED <<hartVars, ramVars, mixed, seen>>

WriteHigh(c) ==
  /\ Runs(c) /\ call[c].pc = "cmp_high" /\ Clock
  /\ mtimecmp' = [mtimecmp EXCEPT !.hi = call[c].target.hi]
  /\ Goto(c, "cmp_low")
  /\ UNCHANGED <<hartVars, ramVars, asked, mixed, seen>>

\* The calls that go on after their update.
AfterUpdate == [isr |-> "count", timer_enable |-> "set_mie", timecmp_update |-> "done"]

\* Nothing but the new target is in force, and main's if it is still writing.
WriteLow(c) ==
  /\ Runs(c) /\ call[c].pc = "cmp_low" /\ Clock
  /\ mtimecmp' = [mtimecmp EXCEPT !.lo = call[c].target.lo]
  /\ Goto(c, AfterUpdate[call[c].fn])
  /\ asked' = {call[d].target : d \in {e \in Contexts : e = c \/ Updating(e)}}
  /\ mixed' = IF c = "main" THEN call[c].torn ELSE Updating("main")
  /\ UNCHANGED <<hartVars, ramVars, seen>>

\* timer_enable: the variables first, then the compare value, then the enables.
EnableVariables ==
  /\ Runs("main") /\ call["main"].pc = "enable" /\ Clock
  /\ time_elapsed' = ZeroPair /\ time_increment' = call["main"].base
  /\ call' = [call EXCEPT !["main"] = Call("timer_enable", "read_high", call["main"].base)]
  /\ UNCHANGED <<hartVars, cmpVars, seen>>

EnableTimerInterrupt ==
  /\ Runs("main") /\ call["main"].pc = "set_mie" /\ Clock
  /\ mie' = TRUE /\ Goto("main", "set_mstatus")
  /\ UNCHANGED <<mstatus, trap, running, asleep, out, halted, ramVars, cmpVars, seen>>

EnableInterrupts ==
  /\ Runs("main") /\ call["main"].pc = "set_mstatus" /\ Clock
  /\ mstatus' = [mstatus EXCEPT !.mie = TRUE] /\ Goto("main", "done")
  /\ UNCHANGED <<mie, trap, running, asleep, out, halted, ramVars, cmpVars, seen>>

TimerDisable ==
  /\ Runs("main") /\ call["main"].pc = "disable" /\ Clock
  /\ mie' = FALSE /\ Goto("main", "done")
  /\ UNCHANGED <<mstatus, trap, running, asleep, out, halted, ramVars, cmpVars, seen>>

\* get_elapsed_time: two loads of a volatile, in an order the compiler chooses.
LoadFirst ==
  /\ Runs("main") /\ call["main"].pc = "load" /\ Clock
  /\ \E h \in {"hi", "lo"} :
       call' = [call EXCEPT !["main"].time[h] = time_elapsed[h],
                            !["main"].half = h, !["main"].pc = "load_other"]
  /\ seen' = {time_elapsed}
  /\ UNCHANGED <<hartVars, ramVars, cmpVars>>

\* Broken: the result is made of one load.
LoadOtherNever ==
  /\ Runs("main") /\ call["main"].pc = "load_other" /\ Clock
  /\ call' = [call EXCEPT !["main"].pc = "done"]
  /\ UNCHANGED <<hartVars, ramVars, cmpVars, seen>>

LoadOther ==
  /\ Runs("main") /\ call["main"].pc = "load_other" /\ Clock
  /\ LET h == IF call["main"].half = "hi" THEN "lo" ELSE "hi"
     IN  call' = [call EXCEPT !["main"].time[h] = time_elapsed[h], !["main"].pc = "done"]
  /\ UNCHANGED <<hartVars, ramVars, cmpVars, seen>>

\* simple_timer_handler: increment_timecmp(time_increment), then time_elapsed++.
Count ==
  /\ Runs("isr") /\ call["isr"].pc = "count" /\ Clock
  /\ time_elapsed' = Succ(time_elapsed, CountSpan)
  /\ seen' = IF call["main"].pc = "load_other" THEN seen \cup {time_elapsed'} ELSE seen
  /\ Goto("isr", "mret")
  /\ UNCHANGED <<hartVars, time_increment, cmpVars>>

\* simple_exc_handler: prints the three CSRs, each read as it is printed, then
\* halts. (Its while(1) runs in a simulation that has stopped.)
Report ==
  /\ Runs("exc") /\ Clock
  /\ \E next \in {<<"epc", "cause">>, <<"cause", "tval">>, <<"tval", "halt">>} :
       /\ call["exc"].pc = next[1] /\ Goto("exc", next[2])
       /\ Show(<<trap[next[1]]>>)
  /\ UNCHANGED <<csrVars, running, asleep, halted, ramVars, cmpVars, seen>>

SimHalt(c) ==
  /\ Runs(c) /\ call[c].pc = "halt" /\ Clock
  /\ halted' = TRUE /\ Goto(c, "idle")
  /\ UNCHANGED <<csrVars, running, asleep, out, ramVars, cmpVars, seen>>

\* After a wfi the core sleeps; an enabled interrupt that is pending wakes it,
\* whether it may be taken or not.
SleepOn ==
  /\ asleep /\ ~Requested
  /\ mtime # LastTime /\ mtime' = Succ(mtime, Span)
  /\ UNCHANGED <<csrVars, running, asleep, call, out, halted, ramVars, cmpVars, seen>>

WakeUp ==
  /\ asleep /\ Requested /\ asleep' = FALSE
  /\ UNCHANGED <<mtime, csrVars, running, call, out, halted, ramVars, cmpVars, seen>>

LibraryStep ==
  \/ \E c \in {"main", "isr"} :
       \/ ReadHigh(c) \/ ReadLow(c) \/ ReadAgain(c)
       \/ MaskCompare(c) \/ WriteHigh(c) \/ WriteLow(c)
  \/ EnableVariables \/ EnableTimerInterrupt \/ EnableInterrupts
  \/ TimerDisable \/ LoadFirst \/ LoadOther
  \/ Count \/ Mret \/ Interrupt \/ SleepOn \/ WakeUp
  \/ Report
  \/ \E c \in {"main", "exc"} : SimHalt(c)

--------------------------------------------------------------------------------
TimerTypeOK ==
  /\ mtime \in Wide(Span) /\ mtimecmp \in Wide(Span)
  /\ mie \in BOOLEAN /\ mstatus \in [mie : BOOLEAN, mpie : BOOLEAN]
  /\ trap.epc \in Contexts /\ trap.cause \in Causes
  /\ running \in Contexts
  /\ DOMAIN call = Contexts
  /\ \A c \in Contexts : call[c].target \in Wide(Span) /\ call[c].from \in Wide(Span)
  /\ time_elapsed \in Wide(CountSpan) /\ time_increment \in Wide(Span)
  /\ halted \in BOOLEAN /\ asked \subseteq Wide(Span) /\ mixed \in BOOLEAN
  /\ seen \subseteq Wide(CountSpan)

\* The time a completed timer_read (simple_system_common.c:172) or
\* increment_timecmp works with is one that mtime had during the call, whatever
\* carries from the low into the high word between the three reads.
TimeIsFresh ==
  \A c \in {"main", "isr"} :
    <<call[c].fn, call[c].pc>> \in {<<"isr", "cmp_mask">>, <<"timer_enable", "cmp_mask">>,
                                   <<"timer_read", "done">>}
    => Leq(call[c].from, call[c].time) /\ Leq(call[c].time, mtime)

\* Setting a new timer value (simple_system_common.h:72) leaves a compare value
\* that a caller asked for, and the interrupt line rises only when mtime has
\* reached one: no value made of two halves is ever in force.
CompareIsAsked ==
  /\ Pending => \E t \in asked : Leq(t, mtime)
  /\ ~Updating("main") /\ ~Updating("isr") => mtimecmp \in asked

\* The same as long as no interrupt came inside an update of the main program:
\* the order of timecmp_update's three writes (simple_system_common.c:184)
\* hides every intermediate value.
UndisturbedUpdatesAreSafe == mixed \/ CompareIsAsked

\* get_elapsed_time (simple_system_common.c:190) returns a number that
\* time_elapsed held during the call, unless the handler's increment carried
\* into the high word between the two loads.
ElapsedIsWhole ==
  call["main"].fn = "get_elapsed_time" /\ call["main"].pc = "done" =>
    call["main"].time \in seen \/ \E s, t \in seen : s.hi # t.hi

\* Whose instruction faulted: the timer handler's if it was in progress.
Faulty == IF call["isr"].pc = "idle" THEN "main" ELSE "isr"

\* The exception handler (simple_system_common.c:135) reports the trap that
\* called it, and where it came from: no interrupt replaces mepc, mcause or mtval
\* while it prints.
ReportsTheFault ==
  halted /\ running = "exc" =>
    LET n == Len(out)
    IN  n >= 3 /\ out[n - 2] = Faulty /\ out[n - 1] = "fault" /\ out[n] = "address"
================================================================================
