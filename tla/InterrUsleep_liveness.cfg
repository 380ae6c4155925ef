SPECIFICATION FairSpec
CONSTANTS
  Threads = {t1, t2, t3}
  Handlers = {}
  Nobody = Nobody
  Usecs = {1}
  MaxNow = 1
  QuiescentClose = TRUE
PROPERTIES UnblockWakesAll EverySleepEnds
CHECK_DEADLOCK FALSE
