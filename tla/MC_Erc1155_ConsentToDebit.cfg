CONSTANTS
  a = a
  b = b
  zero = zero
  Accounts <- MCAccounts
  ZeroAccount = zero
  MaxIds = 1
  Width = 2
  OverflowChecks = TRUE
SPECIFICATION MCSpec
PROPERTY
  ConsentToDebit
