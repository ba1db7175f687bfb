SPECIFICATION Spec
CONSTANTS
  Connections = {c1}
  Databases = {main, app}
  DefaultDb = main
  Kinds = {tables, objects}
  Names = {"scope"}
  NameOf <- NamesOfKinds
  Callers = {p, q}
  MaxSchema = 1
  MaxVersion = 1
  AllDatabases = AllDatabases
  Nothing = Nothing
  Unsent = Unsent
SYMMETRY Symmetry
INVARIANTS
  AnswersAreOfTheKind
CHECK_DEADLOCK FALSE
