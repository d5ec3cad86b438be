\* What an assertion of ibex_load_store_unit.sv says of the address of a request.
CONSTANTS
  ByteMax = 15
  WordSpan = 6
  NoAccess = NoAccess
  Accesses <- MCAccesses
  SramWords <- MCSramWords
  ApbWords <- MCApbWords
  DeviceOf <- MCDeviceOf
  NoDevice = "gap"
  SramDepth = 2
  InitSram <- MCSram
  Preload <- MCPreload
  DeviceWords <- MCDevice
SPECIFICATION Spec
INVARIANT IbexDataAddrUnaligned
