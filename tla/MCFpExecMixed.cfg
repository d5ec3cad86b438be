SPECIFICATION Spec
CONSTANTS
  Regs <- MCRegs
  RegZero = 0
  Values <- MCValues
  Zero = 0
  PowerUp <- MCPowerUp
  FReset <- MCFReset
  Programs <- MCMixedPrograms
  Adjacent <- AnyOrder
  MinstretSpan = 2
  Div <- MCDiv
  Add <- MCAdd
  Cvt <- MCCvt
  DivCycles = {2, 110, 111}
  CvtCycles = {2}
INVARIANT ExValidIsOwn
