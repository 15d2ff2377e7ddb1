CONSTANTS
  Retries = 1
  Threshold = 2
  Terminators = {t1, t2}
  MaxRestarts = 0
  Outsiders = TRUE
  DockerFails = FALSE
SPECIFICATION FairSpec
CHECK_DEADLOCK FALSE
INVARIANT DegradedIsRemembered
PROPERTIES BringUpSettles TerminationEnds MissingIsNoticed
