SPECIFICATION Spec
CONSTANTS
  c = c
  d = d
  sol = sol
  Party = {c, d}
  Authority = Authority
  Asset = {sol}
  DefaultRing = DefaultRing
  OtherRing = OtherRing
  Ring = {DefaultRing, OtherRing}
  Payload <- MCPayload
  NoData = NoData
  NoCiphertext = NoCiphertext
  MaxAmount = 2
  MaxTime = 2
  MaxExpiry = 3
  Genesis <- MCGenesis
  StartTime = 0
  MaxTransfers = 0
  SignerSets <- OneSigner
  EscrowsFundEscrows = TRUE
  MaxEscrows = 2
INVARIANTS
  WithdrawsAsCommitted
CHECK_DEADLOCK FALSE
