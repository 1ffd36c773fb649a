CONSTANTS
  a1 = a1
  a2 = a2
  a3 = a3
  Accounts <- MCAccounts
  MaxMedia = 2
  MaxSharings = 5
  SharingDepth = 3
  NoParent = NoParent
  Diverges = Diverges
SPECIFICATION MCSpec
SYMMETRY MCSymmetry
INVARIANT
  ChainTerminates
