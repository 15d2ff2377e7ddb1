CONSTANTS
  Retries = 0
  Threshold = 1
  Terminators = {t1, t2}
  MaxRestarts = 0
  Outsiders = FALSE
  DockerFails = FALSE
SPECIFICATION Spec
CHECK_DEADLOCK FALSE
PROPERTY TransitionsFollowTable
