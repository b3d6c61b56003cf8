SPECIFICATION ClientLiveSpec
CONSTANTS
  c = c
  d = d
  sol = sol
  Party = {c, d}
  Authority = Authority
  Asset = {sol}
  DefaultRing = DefaultRing
  Ring = {DefaultRing}
  Payload <- MCPayload
  NoData = NoData
  NoCiphertext = NoCiphertext
  MaxAmount = 2
  MaxTime = 1
  MaxExpiry = 1
  Genesis <- MCGenesis
  StartTime = 0
  MaxTransfers = 1
  SignerSets <- MCSignerSets
  EscrowsFundEscrows = TRUE
  MaxEscrows = 2
  MaxBuilt = 2
INVARIANTS
  LandsExactlyWhenLive
  EscrowsMoveOnlyByWithdraw
PROPERTIES
  ImplementsProgram
  EscrowsEventuallyReturned
CHECK_DEADLOCK FALSE
