CONSTANTS
  Modes <- DataOnly
  Sizes = {1, 2}
  MaxSaves = 1
SPECIFICATION Spec
PROPERTY FailureReported
CHECK_DEADLOCK FALSE
