CONSTANTS
  Names <- AllNames
  Kind <- MCKind
  FourBytes <- MCFourBytes
  Priority <- MCPriority
  Args <- TextArgs
  Values = {"a", "b"}
  Files <- TextFile
  MaxCalls = 1
SPECIFICATION Spec
PROPERTY SetIsFound
CHECK_DEADLOCK FALSE
