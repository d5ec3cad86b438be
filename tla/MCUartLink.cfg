SPECIFICATION MCSpec
CONSTANTS
  LinkConfigs <- MCConfigs
  Words <- MCWords
  MaxSlips = 7
  MinGap = 2
  None = None
INVARIANTS TypeOK SamplesItsOwnBit
PROPERTY ImplementsChannel
