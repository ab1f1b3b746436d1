SPECIFICATION Spec
CONSTANTS
  Null = Null
  Unwritten = Unwritten
  None = None
  Files <- MCListFiles
  Kind <- MCListKind
  Projections <- MCListProjections
  VectorSize = 2
  MayReplace = FALSE
CHECK_DEADLOCK FALSE
INVARIANTS
  RowsFaithful
