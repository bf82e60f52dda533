SPECIFICATION Spec
CONSTANTS
  NumKeys = 2
  MaxIds = 3
  MaxTxRows = 2
  BatchSize = 2
  MaxPushSize = 2
  ServerLimit = 2
  MaxAttempts = 2
  MaxDelay = 0
  MaxCrashes = 1
  Faults <- LateNetwork
  CompactOnWrite = FALSE
  ManualCompact = FALSE
  ConflictDetection = FALSE
CHECK_DEADLOCK FALSE
INVARIANTS
  SyncedPayloadIsStored
  NoEditForgotten
