SPECIFICATION TransferFairSpec
CONSTANTS
  NumPages = 1
  NumStatic = 1
  NumWords = 2
  WordLimit = 8
  RoSize = 1
  NULL = NULL
  StreamBound = 1
INVARIANTS
  ReadsAreVerified
