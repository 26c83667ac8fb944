SPECIFICATION Spec
CONSTANTS
  Inv = {i1, i2}
  Watched = {}
  Shared = Shared
  Stalls = FALSE
  Rollbacks = FALSE
  MaxFindings = 1
  MaxFaults = 0
  MaxStops = 1
  StopKinds = {"shutdown"}
SYMMETRY Symmetry
INVARIANTS SessionAgreesWithRow LockHasOwner
PROPERTIES TerminalIsFinal
CHECK_DEADLOCK FALSE
