CONSTANTS
  BaseOffset <- MCBaseOffset
  ParentOffset <- MCParentOffset
  FreeSpaceSz = 16
  StcoMod = 468
  DataLens = {0, 20, 28, 35, 36, 44, 60, 100}
  Layouts <- AllLayouts
  MaxWrites = 3
SPECIFICATION Spec
INVARIANTS TypeOK BoxTreeKept ChunksKept ParsedIsReadable
PROPERTIES MediaKept SpaceConserved
CHECK_DEADLOCK FALSE
