CONSTANTS
  Modes <- AllModes
  Sizes = {1, 2}
  MaxSaves = 3
SPECIFICATION Spec
INVARIANTS TypeOK NothingLost WindowRecoverable
PROPERTIES AllOrNothing BackupIsCopy
CHECK_DEADLOCK FALSE
