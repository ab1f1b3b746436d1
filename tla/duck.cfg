SPECIFICATION FairSpec
CONSTANTS
  Null = Null
  Unwritten = Unwritten
  None = None
  Files <- MCFiles
  Kind <- MCKind
  Projections <- MCProjections
  VectorSize = 2
  MayReplace = TRUE
CHECK_DEADLOCK FALSE
INVARIANTS
  TypeOK
  RowsFaithful
  EmptyChunkIsEnd
PROPERTIES
  ScanEnds
