CONSTANTS
  Configs = {c1, c2, c3}
  FirstBatch = 1
  MaxRetries = 3
  Permits = 1
SPECIFICATION Spec
CHECK_DEADLOCK FALSE
SYMMETRY Symmetry
INVARIANT CancelReachesAll
