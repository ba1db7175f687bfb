SPECIFICATION Spec
CONSTANTS
  Attempts = {a1, a2}
  Closes = {d1}
  Writes = {w1}
  Configs <- Profiles
  None = None
SYMMETRY Symmetry
INVARIANTS
  PublishedIsOpen
  TunnelsOwned
  LastCommandDescribed
