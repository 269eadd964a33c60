CONSTANTS
  BaseOffset <- MCBaseOffset
  ParentOffset <- MCParentOffset
  FreeSpaceSz = 16
  StcoMod = 468
  DataLens = {20, 28}
  Layouts <- InteriorSpace
  MaxWrites = 2
SPECIFICATION Spec
INVARIANT RewrittenTagsReadable
CHECK_DEADLOCK FALSE
