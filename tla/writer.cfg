SPECIFICATION Spec
CONSTANTS
  a = a
  b = b
  v1 = v1
  v2 = v2
  w1 = w1
  None = None
  Columns <- MCColumns
  NLeaves <- MCNLeaves
  Value <- MCValue
  RowsOf <- MCRowsOf
  EncLen <- MCEncLen
  Fits <- MCFits
  MaxStripes = 2
  MaxFailures = 1
CHECK_DEADLOCK FALSE
INVARIANTS
  TypeOK
  LeavesIntact
  TruncationDetected
  SliceFaithful
PROPERTIES
  TableSpec
