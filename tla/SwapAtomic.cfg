SPECIFICATION LiveSpec
CONSTANTS
  m = m
  t = t
  a = a
  b = b
  Party = {m, t}
  Authority = Authority
  Asset = {a, b}
  DefaultRing = DefaultRing
  OtherRing = OtherRing
  Ring = {DefaultRing}
  Payload <- BothRails
  NoData = NoData
  NoCiphertext = NoCiphertext
  MaxAmount = 1
  MaxTime = 2
  MaxExpiry = 3
  Genesis <- TwoFunded
  StartTime = 0
  MaxTransfers = 0
  SignerSets <- OneSigner
  OrdersFundMakes = FALSE
  MaxMakes = 2
PROPERTIES
  ImplementsAtomicSwap
  OrdersEventuallyResolved
CHECK_DEADLOCK FALSE
