SPECIFICATION FairSpec
CONSTANTS
  k1 = k1
  k2 = k2
  NoKey = NoKey
  Keys = {k1}
  Workers = {w1, w2}
  KeyChoices <- OneKey
  Limits <- OneLimit
  MaxNodes = 1
  Word = 1073741824
  Start = 1000
  MaxBatch = 100
  MaxRequests = 3
  Scenarios <- PolledOnly
PROPERTIES LevelZeroMeansDrained
CHECK_DEADLOCK FALSE
