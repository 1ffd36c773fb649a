CONSTANTS
  a = a
  b = b
  x = x
  zero = zero
  Accounts <- MCAccounts
  ZeroAccount = zero
  ExchangeContract = x
  MaxIds = 2
  Width = 2
  OverflowChecks = TRUE
  Prices = {1}
  Amounts = {1}
  MaxNonce = 4
SPECIFICATION MCSpec
SYMMETRY MCSymmetry
INVARIANTS
  Erc1155TypeOK
  OffersIndexed
