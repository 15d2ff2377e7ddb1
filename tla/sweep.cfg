CONSTANTS
  Configs = {c1, c2, c3}
  FirstBatch = 2
  MaxRetries = 3
  Permits = 2
SPECIFICATION FairSpec
CHECK_DEADLOCK FALSE
INVARIANTS ConcurrencyBounded NothingLeftBehind
PROPERTIES SettledIsFinal NoSpawnAfterCancel CancelWins JobEnds StreamEnds
