CONSTANTS
  ByteMax = 15
  WordSpan = 6
  NoAccess = NoAccess
  Accesses <- MCNarrow
  SramWords <- MCSramWords
  ApbWords <- MCApbWords
  DeviceOf <- MCDeviceOf
  NoDevice = "gap"
  SramDepth = 2
  InitSram <- MCSram
  Preload <- MCPreload
  DeviceWords <- MCDevice
SPECIFICATION FairSpec
PROPERTY StoresOnlyItsBytes
