SPECIFICATION Spec
CONSTANTS
  Picks = {0, 1}
  OverrideLevels = {0}
  Workspaces = {v, w}
  Runs = {p, q}
  None = None
  Stale = Stale
  Statements = {"update", "file"}
  Origins = {"user", "granted", "agent"}
  MaxPushes = 2
INVARIANTS
  ExecutedWasApproved
  SuspensionIsGranted
SYMMETRY
  Symmetry
CHECK_DEADLOCK FALSE
