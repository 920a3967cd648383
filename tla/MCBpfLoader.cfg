SPECIFICATION LoaderSpec
CONSTANTS
  Units = {0, 1}
  MaxBytecode = 1
  MaxMaps = 1
  MaxMapBytes = 1
  FlashCells = 3
  PageCells = 2
  MaxFragment = 2
  Erased = Erased
  Garbage = Garbage
  NoLayouts = NoLayouts
  DeclaredCrcs <- MCDeclaredCrcs
INVARIANTS
  LoaderTypeOK
  CommittedIsDurable
  PendingFits
  ReceivedPrefixInFlash
  RunningIsIdle
PROPERTIES
  RunningImageStays
  NoRewrite
  FailureRetained
  ImplementsImageStore
CHECK_DEADLOCK FALSE
