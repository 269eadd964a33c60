CONSTANTS
  Openings <- MCOpenings
  LevelMax = 15
  SkipMod = 1000
  StcoMod = 2000
  FreeSpaceSz = 16
  Junk <- MCJunk
  Partial = {0, 4, 12}
  NewTags <- MCNewTags
SPECIFICATION Spec
INVARIANTS TypeOK HeadersOnly TagsInOrder TagsRead AsInLayout
PROPERTIES OnlyDamageRepaired InsertedRight ParseEnds
CHECK_DEADLOCK FALSE
