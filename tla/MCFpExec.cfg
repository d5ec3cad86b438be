SPECIFICATION FairSpec
CONSTANTS
  Regs <- MCRegs
  RegZero = 0
  Values <- MCValues
  PowerUp <- MCPowerUp
  Zero = 0
  FReset <- MCFReset
  Programs <- MCSafePrograms
  Adjacent <- SafeOrder
  MinstretSpan = 2
  Div <- MCDiv
  Add <- MCAdd
  Cvt <- MCCvt
  DivCycles = {2, 5}
  CvtCycles = {2, 3}
INVARIANTS TypeOK UnitsServe ExValidIsOwn
PROPERTIES ImplementsIsa ImplementsFairIsa
