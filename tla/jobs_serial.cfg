CONSTANTS
  Jobs = {j1, j2}
  NoJob = NoJob
  d1 = d1
  d2 = d2
  d3 = d3
  Devices <- ThreeDevices
  Pools <- TwoPools
  Threads = {t1, t2}
  AutoDeploy = {j1, j2}
  SerialClients = TRUE
  RashReleases = FALSE
SPECIFICATION FairSpec
CHECK_DEADLOCK FALSE
INVARIANTS ConfirmedHoldsPlan LiveDeploymentIsBooked
PROPERTY JobSettles
