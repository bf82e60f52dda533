SPECIFICATION Spec
CONSTANTS
  NumKeys = 2
  MaxEvents = 3
  PageSize = 2
  MaxAttempts = 2
  MaxCrashes = 1
  MaxSwaps = 1
  UnknownKeys <- SecondRow
  Configs <- AllConfigs
  ReplayFaults = TRUE
  SwiftEdits = FALSE
  TornReset = TRUE
INVARIANTS
  TypeOK
  SyncedIsHeld
  ConvergesOnOneStore
