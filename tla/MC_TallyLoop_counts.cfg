SPECIFICATION FairSpec
CONSTANTS
  AllWorkers = 4
  NumAux = 1
  PerHeap = 2
  NumHeaps = 8
  MaxLoads = 3
  MaxContexts = 3
  Capacity = 6
  Packets = 6
  IntMax = 7
  InFront <- SomeInts
INVARIANTS
  TalliesAreCounts
CHECK_DEADLOCK FALSE
