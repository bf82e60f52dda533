SPECIFICATION FairSpec
CONSTANTS
  Tab <- TwoTabs
  MaxEdits = 2
  MaxEvents = 3
  MaxDelay = 2
  Configs <- AllConfigs
CHECK_DEADLOCK FALSE
INVARIANTS
  TypeOK
  NothingLost
  CursorHonest
PROPERTIES
  Drains
