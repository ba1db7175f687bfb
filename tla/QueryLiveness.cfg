SPECIFICATION FairSpec
CONSTANTS
  Requests = {r1, r2}
  Cancellable = {r1}
  Conns = {c1}
  NoRequest = NoRequest
  NoConn = NoConn
  MaxStatements = 1
  Batches = 1
PROPERTIES
  EveryRequestSettles
  EveryCancelAnswers
