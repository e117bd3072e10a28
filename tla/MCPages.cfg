CONSTANTS
  a1 = a1
  a2 = a2
  d1 = d1
  d2 = d2
  b1 = b1
  b2 = b2
  c2 = c2
  None = None
  Blocks = {b1, b2, c2}
  Height <- MCHeight
  Parent <- MCParent
  Ancestors <- MCAncestors
  Touched <- MCTouched
  Rows = {"r1", "r2", "r3", "r4"}
  Owner <- MCOwner
  PageSize = 1
  Routes = {"swap", "balance", "payment", "strategies", "invoices", "strategy", "invoice"}
  Accounts <- MCAccounts
  Deployments = {d1, d2}
  Typed <- MCTyped
  Balances = {6}
  Gases = {1, 2, 3}
  MinReserve = 1
  Validity = 3
  RefreshUnits = 1
  FailedUnits = 2
  PollUnits = 2
  Attempts = 2
  MaxFaults = 2
SPECIFICATION FairSpec
INVARIANTS ShownIsCurrent ListedOnce
PROPERTIES MaxLeavesGas Recovers
CHECK_DEADLOCK FALSE
