SPECIFICATION ProcessSpec
CONSTANTS
  Inv = {i1, i2}
  MaxTasks = 3
  Workers = {w1, w2}
  MaxCrashes = 2
INVARIANTS TypeOK OneLiveTask RecordTellsItsTask ShutdownReachesAll NoCancelIsLost
INVARIANTS SchemaTypeOK ReadyMeansMigrated RecordedMeansApplied
PROPERTIES ShutdownEndsAll
CHECK_DEADLOCK FALSE
