SPECIFICATION StorageSpec
CONSTANTS
  Ids = {i, j}
  Procs = {p, q, r}
  Absent = Absent
INVARIANTS
  NothingIsLost
  CacheFollowsFile
SYMMETRY
  Symmetry
CHECK_DEADLOCK FALSE
