CONSTANTS
  d = d
  a1 = a1
  mc = mc
  zero = zero
  Accounts <- MCAccounts
  ZeroAccount = zero
  Deployer = d
  MediaContract = mc
  InitialSupplies = {4}
  Amounts = {1, 2}
  Width = 3
  OverflowChecks = TRUE
  ShareUnit = 2
  RoyaltyInputs = {0, 1}
  CollabInputs <- MCPartitionCollabs
  KeyOrder <- MCKeyOrder
SPECIFICATION Spec
INVARIANTS
  TipTypeOK
PROPERTIES
  TipPaysAtMostAmount
