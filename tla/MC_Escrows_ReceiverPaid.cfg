CONSTANTS
  s = s
  r = r
  sc = sc
  hc = hc
  zero = zero
  x1 = x1
  h1 = h1
  h2 = h2
  Accounts <- MCAccounts
  ZeroAccount = zero
  Deployer = s
  StreamContract = sc
  HtlcContract = hc
  HtlcDeployer = s
  InitialSupplies = {2}
  Amounts = {1}
  Width = 2
  OverflowChecks = TRUE
  MsPerSecond = 2
  Deposits = {1, 2}
  Times = {0, 2, 4}
  MaxStreams = 1
  MaxTime = 4
  Secrets = {x1}
  Hashes = {h1}
  SecretHash <- MCSecretHash
  TimeLocks = {3}
  MaxContracts = 2
SPECIFICATION EscrowSpec
PROPERTIES
  ReceiverPaidBeforeExpiry
