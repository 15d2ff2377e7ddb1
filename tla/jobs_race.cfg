CONSTANTS
  Jobs = {j1, j2}
  NoJob = NoJob
  d1 = d1
  d2 = d2
  d3 = d3
  Devices <- TwoDevices
  Pools <- OnePool
  Threads = {t1, t2}
  AutoDeploy = {j1, j2}
  SerialClients = FALSE
  RashReleases = FALSE
SPECIFICATION Spec
CHECK_DEADLOCK FALSE
INVARIANT NoDoubleAllocation
