CONSTANTS
  d = d
  b = b
  pc = pc
  zero = zero
  Accounts <- MCAccounts
  ZeroAccount = zero
  PodContract = pc
  PodOwner = d
  Deployer = d
  MaxTokens = 1
  CountLimit = 3
  OverflowChecks = TRUE
  InitialSupplies = {3}
  Amounts = {1, 2}
  Width = 2
  OneDay = 1
  Prices = {0}
  Times = {1, 2}
  MaxTime = 2
SPECIFICATION PodSpec
INVARIANTS
  BidEscrow
