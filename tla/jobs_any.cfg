CONSTANTS
  Jobs = {j1, j2}
  NoJob = NoJob
  d1 = d1
  d2 = d2
  d3 = d3
  Devices <- TwoDevices
  Pools <- OnePool
  Threads = {t1, t2}
  AutoDeploy = {}
  SerialClients = FALSE
  RashReleases = TRUE
SPECIFICATION Spec
CHECK_DEADLOCK FALSE
SYMMETRY JobSymmetry
INVARIANTS NoDoubleBooking CurrentPlanIsFree
PROPERTY ImplementsReservations
