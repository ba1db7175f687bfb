SPECIFICATION CalmSpec
CONSTANTS
  Databases = {A, B}
  Initial = A
  Conns = {c1, c2}
  Queries = {q1}
  Drivers = {"mysql"}
  MaxSwitches = 2
  MaxStarts = 1
  None = None
SYMMETRY Symmetry
INVARIANTS
  ChosenDatabaseIsUsed
