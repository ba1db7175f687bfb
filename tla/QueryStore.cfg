SPECIFICATION Spec
CONSTANTS
  Databases = {main, app}
  Statements = {s}
  Write = Write
  Runs = {p, q}
  None = None
  MaxEntries = 1
  MaxPreviews = 1
  MaxWrites = 1
INVARIANTS
  TypeOK
  EntriesAreTrue
  SlotIsNewest
  BusyIsOwned
SYMMETRY
  Symmetry
CHECK_DEADLOCK FALSE
