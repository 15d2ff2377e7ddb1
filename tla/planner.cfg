CONSTANTS
  Submitted <- MCSubmitted
  MaxRuns <- MCMaxRuns
  Simulations <- MCSimulations
  Profiles <- MCProfiles
  ModelConfigs <- MCModelConfigs
  PowerProfiles <- MCPowerProfiles
  RelThroughput <- MCRel
  RoundsUp <- MCRoundsUp
  LegacyActive <- MCLegacy
  DefaultActive = 3
  DefaultUnit = 1
  Gib = 30
  KvReserve = 1
  Presets <- MCPresets
  Draws = {2, 9}
  MaxArrivals = 2
  Second = 2
  Window = 2
  MemLimit = 4
  Timeout = 2
  Requests <- MCRequests
  Registry <- MCRegistry
  Oracles <- MCOracles
  Upstream <- MCUpstream
  NPUs = {"n"}
  UnitTimesParams = 56
  LeastUnit = 1
  LargeBelow = 3
  MaxPlans = 2
  Contested <- MCContested
  MaxMoves = 1
  MaxCombos = 3
SPECIFICATION ServeSpecification
CHECK_DEADLOCK FALSE
INVARIANTS FirstIsOptimal DiagnosisSound DoneIsComplete RenderedAsPlanned
INVARIANTS GroupsGetTheirDevices PlansWhatItCanEvaluate BestIsLeastPower
PROPERTIES TerminalIsFinal PlanEnds
