SPECIFICATION FairSpec
CONSTANTS
  Requests <- MCRequests
  Kind <- MCKind
  Intent <- MCIntent
  Settings <- MCSettings
  Places = 2
  RpcCapacity = 8
  MaxHeight = 5
  None = None
  Ttl = 2
  MaxEntries = 2
INVARIANTS
  CapacityHeld
  CachedQuotesAreRecent
PROPERTIES
  AnswersOnePinnedBlock
  CapacityReturns
CHECK_DEADLOCK FALSE
