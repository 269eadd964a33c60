CONSTANTS
  Timeout = 4
  Sleep = 2
  Jitter = 1
  Size = 4
  ReadSizes = {1, 3}
  SkipSizes = {1}
  MaxCalls = 3
  MaxAdjust = 1
  MaxTime <- Long
SPECIFICATION FairSpec
INVARIANTS TypeOK InStep GotAll FailsOnlyIfLate BoundedWait
PROPERTY ReadEnds
CHECK_DEADLOCK FALSE
