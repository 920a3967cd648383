SPECIFICATION LayoutsSpec
CONSTANTS
  Units <- MCUnits
  MaxBytecode = 1
  MaxMaps = 3
  MaxMapBytes = 6
  FlashCells = 4
  PageCells = 2
  Erased = Erased
  Garbage = Garbage
  NoLayouts = NoLayouts
  MaxReadBytes = 3
  MaxWriteBytes = 2
  U16Max = 7
  U32Max = 15
  FieldValues = {0, 1, 2, 3, 5, 6, 9, 15}
INVARIANTS
  LayoutsTypeOK
  MapsAreApart
  PagesStayInMap
  EntriesTileMap
  AgreesWithLayoutsOf
CHECK_DEADLOCK FALSE
