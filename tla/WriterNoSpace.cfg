CONSTANTS
  BaseOffset <- MCBaseOffset
  ParentOffset <- MCParentOffset
  FreeSpaceSz = 16
  StcoMod = 468
  DataLens = {20, 60}
  Layouts <- NoFreeSpace
  MaxWrites = 1
SPECIFICATION Spec
PROPERTY RoomMeansReadable
CHECK_DEADLOCK FALSE
