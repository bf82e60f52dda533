SPECIFICATION Spec
CONSTANTS
  NumKeys = 3
  MaxIds = 4
  MaxTxRows = 3
  BatchSize = 3
  MaxPushSize = 3
  ServerLimit = 2
  MaxAttempts = 2
  MaxDelay = 1
  MaxCrashes = 0
  Faults <- ServerFaults
  CompactOnWrite = FALSE
  ManualCompact = FALSE
  ConflictDetection = TRUE
CHECK_DEADLOCK FALSE
CONSTRAINT FirstUseInOrder
INVARIANTS
  ParkedIsNotSent
  ParkedIsNotStored
  TransactionsAtomic
