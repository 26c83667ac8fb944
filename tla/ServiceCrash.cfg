SPECIFICATION FairSpec
CONSTANTS
  Inv = {i1, i2}
  Watched = {i1}
  Shared = Shared
  Stalls = FALSE
  Rollbacks = FALSE
  MaxFindings = 2
  MaxFaults = 0
  MaxStops = 1
  StopKinds = {"crash"}
INVARIANTS TypeOK CompleteHasReport ReportServed
PROPERTIES ImplementsLifecycle StartedFinishes
CHECK_DEADLOCK FALSE
