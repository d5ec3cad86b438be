--------------------------------- MODULE Blink ---------------------------------
(***************************************************************************)
(* sw/led/led.c: the LED pattern is inverted after every usleep, a loop    *)
(* that counts down a number of passes computed from the microseconds.     *)
(***************************************************************************)
EXTENDS Integers

CONSTANTS
  CyclesPerUsec,    \* CLK_FIXED_FREQ_HZ in MHz (50 in the program)
  CyclesPerLoop,    \* the cycles of a pass of the delay loop (8)
  LoopSpan,         \* the values of an unsigned long (2^32)
  Usecs             \* the arguments of usleep

ASSUME BlinkAssumption ==
  /\ CyclesPerUsec \in Nat \ {0} /\ CyclesPerLoop \in Nat \ {0} /\ LoopSpan \in Nat \ {0}
  /\ Usecs \subseteq Nat

VARIABLES
  led,              \* the byte at 0xc010, of which the low four bits are shown
  usec,             \* the argument of the usleep in progress
  loops, delaying,  \* the delay loop's counter; it is running
  waited            \* history: the cycles since usleep was called

blinkVars == <<led, usec, loops, delaying, waited>>

\* Broken: the product is 32 bits wide; the result is not.
UsecCyclesNarrow(u) == ((CyclesPerUsec * u) % LoopSpan) \div CyclesPerLoop
UsecCyclesWide(u)   == (CyclesPerUsec * u) \div CyclesPerLoop

\* usleep_ibex: the arithmetic is 64 bits wide, its result is stored in 32.
UsecCycles(u) == ((CyclesPerUsec * u) \div CyclesPerLoop) % LoopSpan

BlinkInit ==
  /\ led = 10 /\ usec = 0 /\ loops = 0 /\ delaying = FALSE /\ waited = 0

Usleep ==
  /\ ~delaying /\ delaying' = TRUE
  /\ usec' \in Usecs /\ loops' = UsecCycles(usec') /\ waited' = 0
  /\ UNCHANGED led

\* One pass: the counter is decremented before it is tested, so that it runs
\* once even if it was 0, and then through every value it has.
DelayLoop ==
  /\ delaying
  /\ loops' = (loops + LoopSpan - 1) % LoopSpan
  /\ waited' = waited + CyclesPerLoop
  /\ IF loops' = 0 THEN delaying' = FALSE /\ led' = 255 - led
                   ELSE UNCHANGED <<delaying, led>>
  /\ UNCHANGED usec

BlinkStep == Usleep \/ DelayLoop

BlinkTypeOK ==
  /\ led \in 0 .. 255 /\ usec \in Usecs \cup {0} /\ loops \in 0 .. LoopSpan - 1
  /\ delaying \in BOOLEAN /\ waited \in Nat

\* A usleep of at least one pass and at most LoopSpan passes lasts as long as was
\* asked for, down to less than a pass (led.c:27): the LEDs keep the time.
DelayIsAsAsked ==
  LET asked == CyclesPerUsec * usec
  IN  ~delaying /\ waited > 0 /\ asked >= CyclesPerLoop /\ asked < LoopSpan * CyclesPerLoop =>
        waited <= asked /\ asked - waited < CyclesPerLoop
================================================================================
