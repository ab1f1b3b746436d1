SPECIFICATION Spec
CONSTANTS
  Proc = {p1, p2}
  Hash = {h1}
  Inode = {i1, i2, i3, i4}
  NChunks = 2
  Settings <- MCRaceKill
SYMMETRY Symmetry
INVARIANTS
  SettledComplete
