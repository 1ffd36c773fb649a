CONSTANTS
  d = d
  o = o
  sc = sc
  zero = zero
  Accounts <- MCAccounts
  ZeroAccount = zero
  Deployer = d
  CollateralDeployer = d
  Owner = d
  StableContract = sc
  OracleCandidates = {d, o}
  Holders = {d}
  InitialSupplies = {4}
  CollateralSupplies = {4}
  Amounts = {1, 4}
  Prices = {8}
  Volumes = {2}
  U64Width = 4
  RatioDigits = 2
  MantissaBits = 9
  StableDecimals = 0
  CollateralDecimals = 1
  Width = 3
  OverflowChecks = TRUE
SPECIFICATION StableSpec
INVARIANT
  PriceWithinSubmitted
