SPECIFICATION FairImport
CONSTANTS
  Rows = 3
  Capacity = 1
  BatchRows = 2
  StreamCapacity = 1
INVARIANTS
  ImportTypeOK
  ImportIsAtomic
  SuccessIsWhole
  RolledBackIsNothing
PROPERTIES
  ImportReturns
  CancelEnds
