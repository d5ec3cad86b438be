SPECIFICATION FairSpec
CONSTANTS
  Images <- MCImages
  Span = 16
  CountSpan = 6
  LastTime <- MCLastTime
  TimeBase <- MCTimeBase
  StartCycles <- MCStartCycles
  ClientSpan = 4
  ClientCountSpan = 2
  ClientLastTime <- MCClientLastTime
  Starts <- MCStarts
  Bases <- MCBases
  NewTimes <- MCNewTimes
  MaxCalls = 3
  Chars = {1, 2}
  NewLine = 2
  Untouched = 9
  Empty <- MCEmpty
  Texts <- MCTexts
  BufferSize = 2
  MaxConsole = 3
  CyclesPerUsec = 5
  CyclesPerLoop = 2
  LoopSpan = 16
  Usecs = {0, 1, 2, 6, 7}
INVARIANTS TypeOK TimeIsFresh UndisturbedUpdatesAreSafe ElapsedIsWhole ReportsTheFault NoLostWakeup ConsoleIntact DelayIsAsAsked
PROPERTY HelloHalts
CHECK_DEADLOCK FALSE
