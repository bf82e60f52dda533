SPECIFICATION FairSpec
CONSTANTS
  BatchSize = 2
  MaxAttempts = 2
  MaxDelay = 1
  MaxIds = 3
  ForeignIds <- Others2
  Configs <- AllConfigs
CHECK_DEADLOCK FALSE
INVARIANTS
  TypeOK
  MutationsDurable
  TransactionsAtomic
  NoSelfConflict
  VersionsFollowRows
  QuiescentAgreement
PROPERTIES
  ImplementsDelivery
  Drains
