SPECIFICATION Spec
CONSTANTS
  m = m
  t = t
  a = a
  b = b
  Party = {m, t}
  Authority = Authority
  Asset = {a, b}
  DefaultRing = DefaultRing
  Ring = {DefaultRing, OtherRing}
  OtherRing = OtherRing
  Payload <- MCPayload
  NoData = NoData
  NoCiphertext = NoCiphertext
  MaxAmount = 2
  MaxTime = 2
  MaxExpiry = 3
  Genesis <- MCGenesis
  StartTime = 0
  MaxTransfers = 0
  SignerSets <- OneSigner
  OrdersFundMakes = TRUE
  MaxMakes = 2
INVARIANTS
  TakesSettleAsCommitted
  CancelsRefundTheMaker
  PayoutsRecoverable
  OrdersWellFormed
CHECK_DEADLOCK FALSE
