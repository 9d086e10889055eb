SPECIFICATION FairSpec
CONSTANTS
  NumDest = 2
  Window = 2
  Pools <- ThreePools
INVARIANTS
  TypeOK
  NoReuseInFlight
  PairsIntact
  NoPacketLost
  FoundAtOnce
PROPERTIES
  MessageSent
CHECK_DEADLOCK FALSE
