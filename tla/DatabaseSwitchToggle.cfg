SPECIFICATION StaySpec
CONSTANTS
  Databases = {A, B}
  Initial = A
  Conns = {c1, c2}
  Queries = {q1}
  Drivers = {"postgres"}
  MaxSwitches = 3
  MaxStarts = 1
  None = None
SYMMETRY Symmetry
INVARIANTS
  HeaderMatchesPool
