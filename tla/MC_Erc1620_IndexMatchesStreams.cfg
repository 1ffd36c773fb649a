CONSTANTS
  s = s
  r = r
  sc = sc
  zero = zero
  Accounts <- MCAccounts
  ZeroAccount = zero
  Deployer = s
  StreamContract = sc
  InitialSupplies = {4}
  Amounts = {1, 2}
  Width = 3
  OverflowChecks = TRUE
  MsPerSecond = 2
  Deposits = {1, 2}
  Times = {0, 1, 2, 4}
  MaxStreams = 2
  MaxTime = 5
SPECIFICATION Spec
INVARIANT
  IndexMatchesStreams
