SPECIFICATION FairSpec
CONSTANTS
  NumKeys = 2
  MaxEvents = 2
  PageSize = 1
  MaxAttempts = 2
  MaxCrashes = 1
  MaxSwaps = 1
  UnknownKeys <- SecondRow
  Configs <- AllConfigs
  ReplayFaults = TRUE
  SwiftEdits = FALSE
  TornReset = FALSE
INVARIANTS
  NoEventMissed
PROPERTIES
  Delivered
