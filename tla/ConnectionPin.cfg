SPECIFICATION Spec
CONSTANTS
  Attempts = {a1}
  Closes = {}
  Writes = {w1}
  Configs <- Profiles
  None = None
INVARIANTS PinRejectsWrites
