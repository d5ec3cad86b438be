SPECIFICATION FairSpec
CONSTANTS
  Size = 5
  Images <- MCImages
  NumReqs = 2
  Boot = 0
  Targets <- MCTargets
  None = None
INVARIANTS TypeOK AnswersAreAwaited NeverOverflows RequestHeld
PROPERTY ImplementsStream
