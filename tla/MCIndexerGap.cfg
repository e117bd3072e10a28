CONSTANTS
  aqua = aqua
  router1 = router1
  router2 = router2
  payments1 = payments1
  payments2 = payments2
  d1 = d1
  d2 = d2
  w1 = w1
  w2 = w2
  None = None
  Blocks <- MCBlocks
  Height <- MCHeight
  Parent <- MCParent
  Ancestors <- MCAncestors
  Tips <- MCTips
  Emitters <- MCEmitters
  LogsOf <- MCLogsOf
  EventOf <- MCEventOf
  Deployments = {d1, d2}
  EmittersOf <- MCEmittersOf
  RouterOf <- MCRouterOf
  PaymentsOf <- MCPaymentsOf
  StartOf <- LaterStart
  Workers = {w1, w2}
  Settings <- SharedOnly
  Migrated <- NoRows
  MigratedFor = d1
  REORG_WINDOW = 2
  MaxBlocks = 1
  ByRange = TRUE
  Return = FALSE
SPECIFICATION FairSpec
PROPERTIES RollsBack
CHECK_DEADLOCK FALSE
