SPECIFICATION CleanFairSpec
CONSTANTS
  NumStages = 2
  NumWorkers = 3
  StageOf <- PS_StageOf
  FirstWid <- PS_FirstWid
  Rep <- PS_Rep
  TripCount = 3
  ITER_MAX = 15
  MayFail = {0, 1, 2}
  Invocations = 2
PROPERTIES
  OriginalUntilMisspec
  ImplementsOrder
  EveryIterationDecided
CHECK_DEADLOCK FALSE
