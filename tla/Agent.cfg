SPECIFICATION ToolsSpec
CONSTANTS
  AmlWeights <- DefaultAmlWeights
  AmlBands <- DefaultAmlBands
  RugWeights <- DefaultRugWeights
  RugBands <- DefaultRugBands
  CrossMatch = TRUE
  Depths = {1, 2}
  AmlFindings <- FoundByRules
  RugFindings <- SomeRugFindings
  RugAttempts = 3
  None = None
  w1 = w1
  w2 = w2
  funder = funder
  mixer = mixer
  router = router
  contract = contract
  victim = victim
  Addr <- SomeAddr
  Entities <- SomeEntities
  Noise = {}
  KnownMixers = {mixer}
  Cfg <- ScaledCfg
  Eth <- ScaledEth
  Aml <- ScaledAml
  RoundSums <- SomeRoundSums
  Now = 57600
  Wallets <- Wallets2
  Ledger <- SharedLedger
  PageSize = 3
  MaxRuns = 3
  MaxMissed = 0
  start = start
  cex = cex
  hub = hub
  leaf = leaf
  Accounts <- Accounts4
  Root = start
  Transfers <- SomeTransfers
  Hops = {1, 2, 3}
  TraceWeights <- DefaultTraceWeights
  LogOf <- LogTable
  Decay <- DecayTable
  MinTraceValue = 2
  MaxTraceNodes = 30
  MaxFanOut = 3
INVARIANTS TypeOK JudgementsNeedData NeitherEngineIsSoftened ReportNamesFailures
INVARIANTS LastSharerIsFlagged FlaggedWithAnother CleanRestsOnData
INVARIANTS EdgesFormPaths BreadthFirst ReachIsTraced
PROPERTIES GraphCompletes ClusterLinkStays AmlAlarmsStay
CHECK_DEADLOCK FALSE
