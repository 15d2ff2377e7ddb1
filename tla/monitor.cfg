CONSTANTS
  Loads <- MCLoads
  Gaps = {1, 2}
  Targets = {1, 2}
  Window = 1
  Consecutive = 2
  MaxLen = 3
  MaxTime = 4
SPECIFICATION Spec
CHECK_DEADLOCK FALSE
INVARIANTS VerdictFollowsLoad AverageIsPower
