SPECIFICATION Spec
CONSTANTS
  None = None
  Null = Null
  Value <- MCValue
  Finite <- MCValue
  Stat <- MCCut
  Text <- MCText
  MaxDistinct = 2
  H1 <- MCH1
  H2 <- MCH2
  Word = 16
  BlockBits = 2
  MaxBits = 4
  Ops <- SafeOps
  Stats = {TRUE, FALSE}
  Filters = {TRUE}
  MaxRows = 3
CHECK_DEADLOCK FALSE
INVARIANTS
  PruneSound
