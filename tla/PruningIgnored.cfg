SPECIFICATION TraceSpec
CONSTANTS
  start = start
  cex = cex
  hub = hub
  leaf = leaf
  Accounts <- Accounts4
  Root = start
  Transfers <- SomeTransfers
  Hops = {1, 2, 3}
  TraceWeights <- DefaultTraceWeights
  LogOf <- LogTable
  Decay <- DecayTable
  MinTraceValue = 2
  MaxTraceNodes = 4
  MaxFanOut = 3
INVARIANTS BudgetIsKept
CHECK_DEADLOCK FALSE
