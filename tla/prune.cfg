SPECIFICATION Spec
CONSTANTS
  None = None
  Null = Null
  Value <- MCValue
  Finite <- MCValue
  Stat <- MCExact
  Text <- MCText
  MaxDistinct = 2
  H1 <- MCH1
  H2 <- MCH2
  Word = 64
  BlockBits = 2
  MaxBits = 32
  Ops <- SafeOps
  Stats = {TRUE, FALSE}
  Filters = {TRUE, FALSE}
  MaxRows = 5
CHECK_DEADLOCK FALSE
INVARIANTS
  TypeOK
  NoFalseNegatives
  PruneSound
  RangeSound
