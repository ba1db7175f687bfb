SPECIFICATION Spec
CONSTANTS
  Scopes = {s, t}
  None = None
  MaxPage = 2
  MaxFetches = 2
  MaxCounts = 1
  MaxWrites = 1
INVARIANTS
  PagesAreOfScope
  CachedPagesFollowWrites
SYMMETRY
  Symmetry
CHECK_DEADLOCK FALSE
