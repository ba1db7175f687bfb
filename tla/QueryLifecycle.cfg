SPECIFICATION Spec
CONSTANTS
  Requests = {r1, r2}
  Cancellable = {r1}
  Conns = {c1, c2, c3}
  NoRequest = NoRequest
  NoConn = NoConn
  MaxStatements = 2
  Batches = 2
SYMMETRY Symmetry
INVARIANTS
  SlotsFollowScopes
  ConnectionsAccounted
  InFlightIsCancellable
  ConfirmedStopsOne
  TruncationIsTold
