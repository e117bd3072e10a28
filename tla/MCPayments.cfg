SPECIFICATION Spec
CONSTANTS
  m = m
  p = p
  k = k
  self = self
  usdc = usdc
  tok = tok
  Nobody = nobody
  Self = self
  Usdc = usdc
  Accounts = {m, p, k, self}
  Tokens = {usdc, tok}
  AllowedTokens = {usdc, tok}
  Merchants = {m}
  Terms <- MCTerms
  Routes <- MCRoutes
  Inputs = {2}
  Minimums = {0, 3}
  Outputs = {2, 3, 4}
  Genesis <- MCGenesis
  MinLead = 1
  MaxLead = 2
  MaxDue = 9
  MaxNonce = 2
  MaxTime = 1
  MaxMoves = 1
INVARIANTS
  TypeOK
  PaidExactly
  Custody
  HonestPaymentCompletes
PROPERTIES
  ImplementsBook
CHECK_DEADLOCK FALSE
