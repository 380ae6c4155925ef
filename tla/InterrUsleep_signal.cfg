SPECIFICATION FairSpec
CONSTANTS
  Threads = {main}
  Handlers = {sigint}
  Nobody = Nobody
  Usecs = {1}
  MaxNow = 1
  QuiescentClose = TRUE
PROPERTIES UnblockWakesAll
CHECK_DEADLOCK FALSE
