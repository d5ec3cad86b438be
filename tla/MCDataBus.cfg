CONSTANTS
  ByteMax = 15
  WordSpan = 6
  NoAccess = NoAccess
  Accesses <- MCAccesses
  SramWords <- MCSramWords
  ApbWords <- MCApbWords
  DeviceOf <- MCDeviceOf
  NoDevice = "gap"
  SramDepth = 2
  InitSram <- MCSram
  Preload <- MCPreload
  DeviceWords <- MCDevice
SPECIFICATION FairSpec
INVARIANTS TypeOK NoSramPortConflict
PROPERTIES ImplementsSerialMemory StrobedOnce
