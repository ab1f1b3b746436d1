SPECIFICATION Spec
CONSTANTS
  Err = Err
  None = None
  Word = 6
  Half = 4
  TypeOf <- MCTypeOf
  AvroOf <- MCAvroOf
  Data <- MCData
  Documents <- MCDocuments
  Candidates <- MCCandidates
  Tables <- MCTables
  ChunkRows = {1, 2, 9}
  MaxStripes = 2
CHECK_DEADLOCK FALSE
INVARIANTS
  StripesReadable
  ColumnReadsAll
  ImportFaithful
  ImportFailsForCause
  WindowsFaithful
  TableFaithful
  TableFailsForCause
  BatchesFaithful
  PromotionsWritable
  AvroFaithful
