SPECIFICATION FairSpec
CONSTANTS
  NumKeys = 1
  MaxIds = 3
  MaxTxRows = 1
  BatchSize = 2
  MaxPushSize = 2
  ServerLimit = 2
  MaxAttempts = 2
  MaxDelay = 1
  MaxCrashes = 1
  Faults <- FlakyNetwork
  CompactOnWrite = TRUE
  ManualCompact = TRUE
  ConflictDetection = FALSE
CHECK_DEADLOCK FALSE
INVARIANTS
  InFlightStable
  SyncedIsStored
PROPERTIES
  ImplementsDelivery
  Drains
