SPECIFICATION Spec
CONSTANTS
  m = m
  t = t
  a = a
  b = b
  Party = {m, t}
  Authority = Authority
  Asset = {a, b}
  DefaultRing = DefaultRing
  OtherRing = OtherRing
  Ring = {DefaultRing}
  Payload <- MCPayload
  NoData = NoData
  NoCiphertext = NoCiphertext
  MaxAmount = 2
  MaxTime = 2
  MaxExpiry = 3
  Genesis <- MCGenesis
  StartTime = 0
  MaxTransfers = 0
  SignerSets <- OneSigner
  OrdersFundMakes = TRUE
  MaxMakes = 2
INVARIANTS
  OrdersMoveOnlyBySettlement
CHECK_DEADLOCK FALSE
