CONSTANTS
  PosBits = 7
  FoldBits = 2
  TopBits = 1
  GroupBits <- MCGroupBits
  RoundBits <- MCGroupBits
  MainPath = 6
  FriPath <- MCFriPath
  Offers <- MCOffers
SPECIFICATION Spec
INVARIANTS
  TypeOK
  CatchesLies
  RefusesOnlyLies
CHECK_DEADLOCK FALSE
