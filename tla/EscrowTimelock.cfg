SPECIFICATION LiveSpec
CONSTANTS
  c = c
  d = d
  sol = sol
  Party = {c, d}
  Authority = Authority
  Asset = {sol}
  DefaultRing = DefaultRing
  OtherRing = OtherRing
  Ring = {DefaultRing}
  Payload <- MCPayload
  NoData = NoData
  NoCiphertext = NoCiphertext
  MaxAmount = 2
  MaxTime = 2
  MaxExpiry = 3
  Genesis <- MCGenesis
  StartTime <- BeforeEpoch
  MaxTransfers = 1
  SignerSets <- OneSigner
  EscrowsFundEscrows = FALSE
  MaxEscrows = 1
INVARIANTS
  TypeOK
  EscrowsMoveOnlyByWithdraw
  UnlockedEscrowsWithdrawable
PROPERTIES
  EscrowsEventuallyReturned
CHECK_DEADLOCK FALSE
