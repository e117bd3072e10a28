CONSTANTS
  k = k
  a = a
  b = b
  self = self
  t1 = t1
  t2 = t2
  o1 = o1
  o2 = o2
  Accounts = {k, a, b, self}
  Self = self
  Nobody = Nobody
  Tokens = {t1, t2}
  Orders = {o1, o2}
  MakerOf <- MCMakerOf
  NonceOf <- MCNonceOf
  Initial <- MCInitial
  Scale = 2
  FeePpm = 1
  FeeUnit = 3
  Grosses = {2}
  Shipments = {2}
  Genesis <- MCGenesis
  MaxVersion = 3
  MaxMoves = 2
SPECIFICATION Spec
INVARIANTS SurplusConserved NothingLeftBehind HonestSwapCompletes OneStrategyPerNonce
PROPERTIES VersionTells
CHECK_DEADLOCK FALSE
