SPECIFICATION FairSpec
CONSTANTS
  Proc = {p1, p2}
  Hash = {h1}
  Inode = {i1, i2, i3}
  NChunks = 2
  Settings <- MCSettings
INVARIANTS
  TypeOK
  FinalComplete
  ReadersNeverTorn
  FilesResolvable
  RaceHeals
  RaceRegisters
PROPERTIES
  FinalNeverReplaced
  AddRegisters
