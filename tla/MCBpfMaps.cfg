SPECIFICATION BootedSpec
CONSTANTS
  Units = {1, 2}
  MaxBytecode = 1
  MaxMaps = 2
  MaxMapBytes = 3
  FlashCells = 3
  PageCells = 4
  MaxFragment = 1
  Erased = Erased
  Garbage = Garbage
  NoLayouts = NoLayouts
  DeclaredCrcs <- MCNoCrc
  MaxReadBytes = 2
  MaxWriteBytes = 2
  U16Max = 3
  U32Max = 7
  HostCommands = {"START", "READ_MAP", "WRITE_MAP"}
  MaxGeneration = 1
  MaxSuperseded = 0
  NoTimer = NoTimer
  NoHelpers = NoHelpers
  ByteValues = {0, 1}
  ValueSizeOf <- MCValueSizes
INVARIANTS
  MapsTypeOK
  CopyStaysInMap
  UnwrittenIsZero
PROPERTIES
  ImplementsMapStore
CHECK_DEADLOCK FALSE
