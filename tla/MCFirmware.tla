------------------------------- MODULE MCFirmware -------------------------------
(***************************************************************************)
(* Firmware with words of a few values. hello_test's timer: 16 values in a *)
(* word, 18 ticks between two interrupts, and counters that do not wrap.   *)
(* The client: four values in a word of the timer and two in one of        *)
(* time_elapsed, so that carries happen in its few calls.                  *)
(***************************************************************************)
EXTENDS Firmware

MCLastTime       == Pair(12, 15)
MCTimeBase       == Pair(1, 2)
MCStartCycles    == {ZeroPair, Pair(5, 5)}
MCClientLastTime == Pair(2, 1)
MCStarts         == {Pair(0, 2)}
MCBases          == {Pair(0, 2), Pair(1, 2)}
MCNewTimes       == {Pair(0, 3), Pair(1, 2)}
MCTexts          == {<<1, 2>>, <<2>>}
MCEmpty          == -1

\* The hypothesis of NoLostWakeup's theorem.
ASSUME IntervalIsLong == LongInterval

HelloHalts == (image = "hello") => HelloCompletes
MCImages       == {"hello", "client", "console", "led"}
================================================================================
