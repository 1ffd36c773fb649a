CONSTANTS
  d = d
  u = u
  sc = sc
  zero = zero
  Accounts <- MCAccounts
  ZeroAccount = zero
  Deployer = d
  Owner = d
  SocialContract = sc
  InitialSupplies = {15}
  Amounts = {1, 3}
  Width = 4
  OverflowChecks = TRUE
  DecimalUnit = 1
  AmmTypes = {"Linear"}
  Spreads = {1}
  InitialSupplyInputs = {6}
  TargetSupplies = {1}
  TargetPrices = {2}
  Traders <- MCTraders
SPECIFICATION SocialSpec
INVARIANT
  FeesCovered
