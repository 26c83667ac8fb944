SPECIFICATION FairSpec
CONSTANTS
  Inv = {i1, i2}
  Watched = {}
  Shared = Shared
  Stalls = TRUE
  Rollbacks = TRUE
  MaxFindings = 0
  MaxFaults = 1
  MaxStops = 0
  StopKinds = {}
INVARIANTS LifecycleTimestamps
PROPERTIES TaskEnds
CHECK_DEADLOCK FALSE
