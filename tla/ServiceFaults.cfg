SPECIFICATION Spec
CONSTANTS
  Inv = {i1, i2}
  Watched = {}
  Shared = Shared
  Stalls = TRUE
  Rollbacks = FALSE
  MaxFindings = 2
  MaxFaults = 1
  MaxStops = 0
  StopKinds = {}
SYMMETRY Symmetry
INVARIANTS TaskHasCommittedRow EvidenceBehindReport
PROPERTIES FailedIsFinal TerminalNeverReopens
CHECK_DEADLOCK FALSE
