SPECIFICATION Spec
CONSTANTS
  Executions = {e1, e2, e3, e4}
  Fingerprints = {f1, f2}
  None = None
  Slots = 2
  PerMinute = 3
  Minute = 4
  PerSecond = 2
  Second = 2
  Threshold = 2
  FailureWindow = 3
  OpenFor = 2
  MaxWait = 1
  MaxTime = 4
SYMMETRY Symmetry
INVARIANT ProbeIsOut
INVARIANT FailuresTrip
INVARIANT DriverCallsBounded
PROPERTY ImplementsBreaker
