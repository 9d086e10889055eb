SPECIFICATION FairSpec
CONSTANTS
  QUEUE_SIZE = 6
  Packets = {p1, p2}
  NULL = NULL
  OCCUPIED = OCCUPIED
  Window = 3
  TestFirst = TRUE
INVARIANTS
  TypeOK
  RingInv
  NeverOverwrites
  EmptyIsExact
PROPERTIES
  ImplementsFifo
  EventuallyTaken
