SPECIFICATION FairSpec
CONSTANTS
  Units = {1}
  MaxBytecode = 1
  MaxMaps = 0
  MaxMapBytes = 0
  FlashCells = 1
  PageCells = 2
  MaxFragment = 1
  Erased = Erased
  Garbage = Garbage
  NoLayouts = NoLayouts
  DeclaredCrcs <- MCOneCrc
  MaxReadBytes = 1
  MaxWriteBytes = 1
  U16Max = 3
  U32Max = 7
  HostCommands = {"LOAD", "START", "RESET"}
  MaxGeneration = 2
  MaxSuperseded = 1
  NoTimer = NoTimer
  NoHelpers = NoHelpers
PROPERTIES
  ResetHappens
  LoadIsExecuted
  DueTimerRuns
CHECK_DEADLOCK FALSE
