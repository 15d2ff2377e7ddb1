CONSTANTS
  Retries = 1
  Threshold = 2
  Terminators = {t1, t2}
  MaxRestarts = 2
  Outsiders = TRUE
  DockerFails = FALSE
SPECIFICATION Spec
CHECK_DEADLOCK FALSE
SYMMETRY Symmetry
INVARIANTS FreedAfterRemoval EndedIsClean MidFlightHasWorker
PROPERTY RewoundOnlyAfterMishap
