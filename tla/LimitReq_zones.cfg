SPECIFICATION FairSpec
CONSTANTS
  k1 = k1
  k2 = k2
  NoKey = NoKey
  Keys = {k1, k2}
  Workers = {w1, w2}
  KeyChoices <- TwoKeys
  Limits <- TwoLimits
  MaxNodes = 1
  Word = 1073741824
  Start = 1000
  MaxBatch = 100
  MaxRequests = 3
  Scenarios <- AllScenarios
INVARIANTS TypeOK ReferencesCounted QueueMatchesTree RateRespected ChargedOnce
PROPERTIES ExactLevel WaitingIsServed DelaysEnd
CHECK_DEADLOCK FALSE
