SPECIFICATION Spec
CONSTANTS
  Inv = {i1}
  Watched = {}
  Shared = Shared
  Stalls = FALSE
  Rollbacks = FALSE
  MaxFindings = 1
  MaxFaults = 0
  MaxStops = 1
  StopKinds = {"shutdown"}
INVARIANT CancelledIsFailed
CHECK_DEADLOCK FALSE
