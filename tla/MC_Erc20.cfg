CONSTANTS
  d = d
  a1 = a1
  zero = zero
  Accounts <- MCAccounts
  ZeroAccount = zero
  Deployer = d
  InitialSupplies = {2}
  Amounts = {1}
  Width = 2
  OverflowChecks = TRUE
SPECIFICATION Erc20Spec
INVARIANTS
  Erc20TypeOK
  SupplyEqualsBalances
PROPERTIES
  PausedFreezesBalances
  LedgerRefinement
