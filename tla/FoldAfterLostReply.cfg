SPECIFICATION Spec
CONSTANTS
  NumKeys = 1
  MaxIds = 2
  MaxTxRows = 1
  BatchSize = 2
  MaxPushSize = 2
  ServerLimit = 2
  MaxAttempts = 2
  MaxDelay = 1
  MaxCrashes = 0
  Faults <- LossyNetwork
  CompactOnWrite = TRUE
  ManualCompact = FALSE
  ConflictDetection = FALSE
CHECK_DEADLOCK FALSE
INVARIANTS
  SyncedPayloadIsStored
