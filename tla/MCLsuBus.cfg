CONSTANTS
  ByteMax = 15
  WordSpan = 4
  NoAccess = NoAccess
  Accesses <- MCAccesses
  InitMem <- MCMem
  Preload <- MCMem
  DeviceWords <- MCDevice
  MaxAccesses = 2
SPECIFICATION BoundedSpec
INVARIANTS LsuTypeOK NothingLeftBehind TrapIsPrecise
PROPERTIES ImplementsSerialMemory RequestHeld
