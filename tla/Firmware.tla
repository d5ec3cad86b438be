-------------------------------- MODULE Firmware --------------------------------
(***************************************************************************)
(* The C programs of the repository, one loaded at a time: hello_test and  *)
(* any client of its timer library, a program that uses the UART library,  *)
(* and the LED program. The state of the images not loaded stays initial.  *)
(***************************************************************************)
EXTENDS HelloTest, UartConsole, Blink

CONSTANTS
  Images,           \* the images that may be loaded
  ClientSpan, ClientCountSpan,          \* Span, CountSpan and LastTime of the
  ClientLastTime,                       \* client's timer
  Starts, Bases, NewTimes, MaxCalls     \* what the client does

VARIABLES image, calls

vars == <<image, calls, timerVars, helloVars, consoleVars, blinkVars>>

Client == INSTANCE TimerClient WITH
  Span <- ClientSpan, CountSpan <- ClientCountSpan, LastTime <- ClientLastTime

ASSUME FirmwareAssumption ==
  /\ ClientSpan \in Nat \ {0, 1} /\ ClientCountSpan \in Nat \ {0, 1}
  /\ ClientLastTime \in Wide(ClientSpan)
  /\ Client!ClientAssumption

Init ==
  /\ image \in Images
  /\ IF image = "client" THEN Client!ClientInit ELSE HelloInit /\ calls = 0
  /\ MainInit /\ (image = "hello" \/ mcycle = ZeroPair)
  /\ ConsoleInit /\ BlinkInit

Hello ==
  /\ image = "hello" /\ HelloStep
  /\ UNCHANGED <<image, calls, consoleVars, blinkVars>>

UseTimer ==
  /\ image = "client" /\ Client!ClientStep
  /\ UNCHANGED <<image, helloVars, consoleVars, blinkVars>>

UseConsole ==
  /\ image = "console" /\ ConsoleStep
  /\ UNCHANGED <<image, calls, timerVars, helloVars, blinkVars>>

BlinkLeds ==
  /\ image = "led" /\ BlinkStep
  /\ UNCHANGED <<image, calls, timerVars, helloVars, consoleVars>>

Next == Hello \/ UseTimer \/ UseConsole \/ BlinkLeds

\* The hart executes hello_test until the simulation stops. Nothing is assumed of
\* the other images: one that waits for characters may wait for ever.
Spec     == Init /\ [][Next]_vars
FairSpec == Spec /\ WF_vars(Hello)

TypeOK ==
  /\ image \in Images /\ calls \in 0 .. MaxCalls
  /\ IF image = "client" THEN Client!TimerTypeOK ELSE TimerTypeOK /\ HelloTypeOK
  /\ ConsoleTypeOK /\ BlinkTypeOK
================================================================================
