SPECIFICATION Spec
CONSTANTS
  AllWorkers = 12
  NumAux = 2
  PerHeap = 2
  NumHeaps = 20
  Regions = 60
  Words = 512
  Capacity = 8192
INVARIANTS
  QueuesOfWorkers
CHECK_DEADLOCK FALSE
