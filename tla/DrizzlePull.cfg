SPECIFICATION FairSpec
CONSTANTS
  Event <- Events4
  Conns <- Two
  PullLimit = 2
  FirstXids <- NewOrOld
  MaxPushes = 4
  MaxSeq = 5
  MaxAttempts = 2
  Unknown <- Unread
  Configs <- AllConfigs
CHECK_DEADLOCK FALSE
INVARIANTS
  TypeOK
  CommitsInOrder
  GroupsWhole
  NoEventMissed
  RowsConverge
  ParkedIsNotApplied
PROPERTIES
  Delivered
