SPECIFICATION LiveSpec
CONSTANTS
  m = m
  t = t
  u = u
  am = am
  other = other
  Wallet = {m, t, u}
  Address = {am, other}
  Home <- MCHome
  Unregistered = Unregistered
  Transaction <- MCTransactions
  NoMarker = NoMarker
  NoOrder = NoOrder
  NoCursor = NoCursor
  KnownAsset <- MCKnownAssets
  Client <- MakerAndTaker
  Started <- EitherAlone
  PageSize = 1
  MaxRegistrations = 1
  MaxFailures = 1
INVARIANTS
  TypeOK
  DiscoveredOrdersCommitted
  NothingMissed
PROPERTIES
  DiscoveryReturns
CHECK_DEADLOCK FALSE
