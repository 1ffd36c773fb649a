CONSTANTS
  d = d
  o = o
  sc = sc
  zero = zero
  Accounts <- MCAccounts
  ZeroAccount = zero
  Deployer = d
  CollateralDeployer = d
  Owner = d
  StableContract = sc
  OracleCandidates = {d, o}
  Holders = {d}
  InitialSupplies = {3}
  CollateralSupplies = {3}
  Amounts = {3}
  Prices = {3, 30}
  Volumes = {1}
  U64Width = 8
  RatioDigits = 2
  MantissaBits = 9
  StableDecimals = 0
  CollateralDecimals = 1
  Width = 4
  OverflowChecks = TRUE
SPECIFICATION StableSpec
INVARIANTS
  StableTypeOK
PROPERTIES
  ConversionWithinRounding
