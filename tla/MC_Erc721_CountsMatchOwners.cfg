CONSTANTS
  a = a
  b = b
  zero = zero
  Accounts <- MCAccounts
  ZeroAccount = zero
  MaxTokens = 2
  CountLimit = 4
  OverflowChecks = TRUE
SPECIFICATION MCSpec
INVARIANT
  CountsMatchOwners
