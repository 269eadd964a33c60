CONSTANTS
  Names <- AllNames
  Kind <- MCKind
  FourBytes <- MCFourBytes
  Priority <- MCPriority
  Args <- MCArgs
  Values = {"a", "b"}
  Files <- MCFiles
  MaxCalls = 2
SPECIFICATION Spec
INVARIANT TypeOK
PROPERTIES StoreSpec FailedCallChangesNothing
CHECK_DEADLOCK FALSE
