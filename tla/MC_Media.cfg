CONSTANTS
  a1 = a1
  a2 = a2
  a3 = a3
  i1 = i1
  i2 = i2
  Accounts <- MCAccounts
  Infos <- MCInfos
  MediaInputs <- MCMediaInputs
  CollabInputs <- MCCollabInputs
  SharingInputs <- MCSharingInputs
  ShareLimit = 4
  ProposalDuration = 1
  SharingDepth = 3
  MaxMedia = 1
  MaxSharings = 1
  MaxTime = 1
  NoParent = NoParent
  Diverges = Diverges
SPECIFICATION Spec
INVARIANTS
  TypeOK
PROPERTIES
  UnanimousBeforeExpiry
