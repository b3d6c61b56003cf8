SPECIFICATION Spec
CONSTANTS
  m = m
  t = t
  u = u
  am = am
  other = other
  Wallet = {m, t, u}
  Address = {am, other}
  Home <- MCHome
  Unregistered = Unregistered
  Transaction <- MistaggedTransactions
  NoMarker = NoMarker
  NoOrder = NoOrder
  NoCursor = NoCursor
  KnownAsset <- MCKnownAssets
  Client <- TheTaker
  Started <- TakerAlone
  PageSize = 1
  MaxRegistrations = 0
  MaxFailures = 0
INVARIANTS
  WrongTagsAreHarmless
CHECK_DEADLOCK FALSE
