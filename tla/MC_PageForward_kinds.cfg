SPECIFICATION TransferFairSpec
CONSTANTS
  NumPages = 2
  NumStatic = 1
  NumWords = 2
  WordLimit = 1
  RoSize = 2
  NULL = NULL
  StreamBound = 1
INVARIANTS
  TypeOK
  PairsStayTogether
  ReceivesAllMetadata
  UpdatesMappedPages
  CleanSlate
PROPERTIES
  ImplementsTransfer
  IterationReceived
