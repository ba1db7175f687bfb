SPECIFICATION FairSpec
CONSTANTS
  Databases = {A, B}
  Initial = A
  Conns = {}
  Queries = {}
  Drivers = {"postgres"}
  MaxSwitches = 3
  MaxStarts = 1
  None = None
INVARIANTS
  TypeOK
  LastClickWins
  TablesFollowHeader
PROPERTIES
  EverySwitchSettles
