------------------------------ MODULE TimerClient ------------------------------
(***************************************************************************)
(* A main program that makes any calls of the timer library in any order,  *)
(* and an instruction of which may fault. It enables a timer only while    *)
(* its interrupt is off, as hello_test does.                               *)
(***************************************************************************)
EXTENDS SimpleTimer

CONSTANTS
  Starts,       \* what mtime may be at the start
  Bases,        \* the arguments of timer_enable
  NewTimes,     \* the arguments of timecmp_update
  MaxCalls      \* bound: the calls the client makes

ClientAssumption ==
  /\ Starts \cup Bases \cup NewTimes \subseteq Wide(Span)
  /\ \A s \in Starts : Leq(s, LastTime)
  /\ MaxCalls \in Nat

VARIABLE calls      \* the calls made

clientVars == <<timerVars, calls>>

ClientInit ==
  /\ mtime \in Starts /\ TimerInit
  /\ calls = 0

Begin(k) == call' = [call EXCEPT !["main"] = k]

\* The call that client makes next.
ClientCalls ==
       {Call("timer_enable", "enable", b) : b \in IF mie THEN {} ELSE Bases}
  \cup {[Call("timecmp_update", "cmp_mask", ZeroPair) EXCEPT !.target = t] : t \in NewTimes}
  \cup {Call("timer_read", "read_high", ZeroPair), Call("timer_disable", "disable", ZeroPair),
        Call("get_elapsed_time", "load", ZeroPair)}

Invoke ==
  /\ Runs("main") /\ call["main"].pc = "idle" /\ calls < MaxCalls /\ Clock
  /\ \E k \in ClientCalls : Begin(k)
  /\ calls' = calls + 1
  /\ UNCHANGED <<hartVars, ramVars, cmpVars, seen>>

Return ==
  /\ Runs("main") /\ call["main"].pc = "done" /\ Clock
  /\ Begin(NoCall) /\ seen' = {}
  /\ UNCHANGED <<hartVars, ramVars, cmpVars, calls>>

\* The main program computes between two calls; the timer runs on.
Compute ==
  /\ Runs("main") /\ call["main"].pc = "idle"
  /\ mtime # LastTime /\ mtime' = Succ(mtime, Span)
  /\ UNCHANGED <<hartVars, call, ramVars, cmpVars, seen, calls>>

ClientStep ==
  \/ Invoke \/ Return \/ Compute
  \/ /\ \/ LibraryStep
        \/ \E c \in {"main", "isr"} : call[c].pc \in {"idle", "count"} /\ Fault(c)
     /\ UNCHANGED calls

ClientSpec == ClientInit /\ [][ClientStep]_clientVars
================================================================================
