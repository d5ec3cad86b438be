SPECIFICATION Spec
CONSTANTS
  LinkConfigs <- MCConfigs
  Words <- MCWords
  MaxSlips = 1
  MinGap = 2
  None = None
INVARIANT IntactFrameHasNoError
