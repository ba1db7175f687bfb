SPECIFICATION Spec
CONSTANTS
  Requests = {r1}
  Cancellable = {r1}
  Conns = {c1, c2}
  NoRequest = NoRequest
  NoConn = NoConn
  MaxStatements = 1
  Batches = 0
INVARIANTS CancelReachesServer
