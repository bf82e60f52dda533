SPECIFICATION Spec
CONSTANTS
  NumKeys = 2
  MaxIds = 5
  MaxTxRows = 2
  BatchSize = 3
  MaxPushSize = 3
  ServerLimit = 2
  MaxAttempts = 2
  MaxDelay = 1
  MaxCrashes = 0
  Faults <- NoFaults
  CompactOnWrite = TRUE
  ManualCompact = FALSE
  ConflictDetection = TRUE
CHECK_DEADLOCK FALSE
INVARIANTS
  NoSelfConflict
