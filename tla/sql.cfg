SPECIFICATION Spec
CONSTANTS
  None = None
  Null = Null
  Value <- MCValue
  Finite <- MCValue
  Stat <- MCExact
  Text <- MCText
  MaxDistinct = 1
  H1 <- MCH1
  H2 <- MCH2
  Word = 16
  BlockBits = 2
  MaxBits = 4
  Files <- MCFiles
  Queries <- MCQueries
  Stats = {TRUE, FALSE}
  Filters = {TRUE, FALSE}
  Limits = {1, 3}
  MaxStripes = 2
CHECK_DEADLOCK FALSE
INVARIANTS
  QueryComplete
  LimitEnough
  StatisticsExact
