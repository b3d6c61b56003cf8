SPECIFICATION Spec
CONSTANTS
  p = p
  q = q
  s = s
  Run = {p, q, s}
  Scenario <- MCScenarios
  Sol = Sol
  DepositAmount = 4
  TransferAmount = 1
  WithdrawAmount = 1
  RpcLag = 1
  MaxOthers = 1
INVARIANTS
  ReadBacksExact
  RejectedOnlyByRace
  SyncShowsTheLedger
  NewAttemptKnowsTheMints
  FlowsKeepTheirFunds
PROPERTIES
  RunsEnd
CHECK_DEADLOCK FALSE
