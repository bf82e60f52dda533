SPECIFICATION FairSpec
CONSTANTS
  h1 = h1
  h2 = h2
  MaxOpenings = 3
  Hooks <- MCHooks
  MaxCloses = 2
  MaxRuns = 3
CHECK_DEADLOCK FALSE
INVARIANTS
  OneDatabase
PROPERTIES
  HooksSettle
