SPECIFICATION ClientLiveSpec
CONSTANTS
  m = m
  t = t
  a = a
  b = b
  Party = {m, t}
  Authority = Authority
  Asset = {a, b}
  DefaultRing = DefaultRing
  Ring = {DefaultRing}
  Payload <- MCPayload
  NoData = NoData
  NoCiphertext = NoCiphertext
  MaxAmount = 2
  MaxTime = 1
  MaxExpiry = 1
  Genesis <- MCGenesis
  StartTime <- BeforeEpoch
  MaxTransfers = 1
  SignerSets <- MCSignerSets
  OrdersFundMakes = TRUE
  MaxMakes = 1
  MaxBuilt = 2
INVARIANTS
  LandsExactlyWhenLive
  PayoutsRebuilt
  OrdersMoveOnlyBySettlement
PROPERTIES
  ImplementsProgram
  OrdersEventuallyResolved
CHECK_DEADLOCK FALSE
