CONSTANTS
  BaseOffset <- MCBaseOffset
  ParentOffset <- MCParentOffset
  FreeSpaceSz = 16
  StcoMod = 468
  DataLens = {20, 100}
  Layouts <- InteriorSpace
  MaxWrites = 1
SPECIFICATION Spec
PROPERTY ChunkDataSame
CHECK_DEADLOCK FALSE
