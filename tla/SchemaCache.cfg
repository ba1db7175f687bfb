SPECIFICATION FairSpec
CONSTANTS
  Connections = {c1}
  Databases = {main, app}
  DefaultDb = main
  Kinds = {tables}
  Names = {"scope"}
  NameOf <- NamesOfKinds
  Callers = {p, q}
  MaxSchema = 1
  MaxVersion = 2
  AllDatabases = AllDatabases
  Nothing = Nothing
  Unsent = Unsent
INVARIANTS
  BumpedIsNotRestored
  AnswersFollowTheBump
PROPERTIES
  EveryCallSettles
CHECK_DEADLOCK FALSE
