SPECIFICATION ExactSpec
CONSTANTS
  MaxTip = 3
  Concurrency = 2
  BatchSize = 3
  MaxTrouble = 0
INVARIANT CheckpointSafe
CHECK_DEADLOCK FALSE
