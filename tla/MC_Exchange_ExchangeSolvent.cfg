CONSTANTS
  a = a
  b = b
  x = x
  zero = zero
  Accounts <- MCAccounts
  ZeroAccount = zero
  ExchangeContract = x
  MaxIds = 2
  Width = 2
  OverflowChecks = TRUE
  Prices = {1}
  Amounts = {1, 2}
  MaxNonce = 3
SPECIFICATION MCSpec
SYMMETRY MCSymmetry
INVARIANT
  ExchangeSolvent
