SPECIFICATION FairSpec
CONSTANTS
  NumStages = 2
  NumWorkers = 3
  StageOf <- PS_StageOf
  FirstWid <- PS_FirstWid
  Rep <- PS_Rep
  TripCount = 3
  ITER_MAX = 15
  MayFail = {0, 1, 2}
  Invocations = 2
INVARIANTS
  TypeOK
  SeesEarlierStages
  FirstIterationFirst
  QueuesDrained
  NeverRunsOnTainted
  EarlierWorkSurvives
  NeverStuck
PROPERTIES
  ImplementsOrder
  EveryIterationDecided
CHECK_DEADLOCK FALSE
