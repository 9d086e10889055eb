SPECIFICATION FairSpec
CONSTANTS
  NumStages = 3
  NumWorkers = 4
  StageOf <- SPS_StageOf
  FirstWid <- SPS_FirstWid
  Rep <- SPS_Rep
  TripCount = 3
  ITER_MAX = 15
  MayFail = {}
  Invocations = 1
INVARIANTS
  SeesEarlierStages
  NeverStuck
PROPERTIES
  ImplementsOrder
  EveryIterationDecided
