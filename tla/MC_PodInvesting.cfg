CONSTANTS
  cr = cr
  u = u
  pod = pod
  zero = zero
  Accounts <- MCAccounts
  ZeroAccount = zero
  Deployer = u
  InitialSupplies = {8}
  Amounts = {1, 10}
  Allowances = {8}
  Width = 16
  OverflowChecks = TRUE
  MaxPrecision = 2
  TruncatePosition = 1
  PodContract = pod
  Creator = cr
  FundingTokenPrice = 2
  FundingTarget = 5
  MaxPrice = 102
  MaxSupply = 100
  FundingDate = 0
  AmmCurves = {"Quadratic"}
  TotalMedia = 1
  MaxMedia = 2
  Times = {1}
  MaxTime = 1
  MaxReleased = 10
SPECIFICATION PodSpec
INVARIANTS
  PodTypeOK
  PodSupplyTracksReleased
  StockCoversRemaining
PROPERTIES
  StatusForward
