SPECIFICATION Spec
CONSTANTS
  m = m
  t = t
  a = a
  b = b
  Party = {m, t}
  Authority = Authority
  Asset = {a, b}
  DefaultRing = DefaultRing
  OtherRing = OtherRing
  Ring = {DefaultRing}
  Payload <- MCPayload
  NoData = NoData
  NoCiphertext = NoCiphertext
  MaxAmount = 2
  MaxTime = 2
  MaxExpiry = 3
  Genesis <- MCGenesis
  StartTime <- BeforeEpoch
  MaxTransfers = 1
  SignerSets <- OneSigner
  OrdersFundMakes = FALSE
  MaxMakes = 1
INVARIANTS
  TypeOK
  OrdersMoveOnlyBySettlement
  ExpiredOrdersCancellable
CHECK_DEADLOCK FALSE
