CONSTANTS
  Names <- AllNames
  Kind <- MCKind
  FourBytes <- MCFourBytes
  Priority <- MCPriority
  Args <- IterArgs
  Values = {"a", "b"}
  Files <- DeepFiles
  MaxCalls = 3
SPECIFICATION IterSpec
INVARIANTS Ordered OrderWritten ReadIsAdding MissesOnlyChanged RepeatsOnlyAdded
CHECK_DEADLOCK FALSE
