SPECIFICATION Spec
CONSTANTS
  Scopes = {s}
  None = None
  MaxPage = 0
  MaxFetches = 1
  MaxCounts = 1
  MaxWrites = 1
INVARIANTS
  MissedUpdatesAreFetched
CHECK_DEADLOCK FALSE
