SPECIFICATION Spec
CONSTANTS
  Threads = {t1, t2}
  Handlers = {}
  Nobody = Nobody
  Usecs = {1}
  MaxNow = 1
  QuiescentClose = FALSE
INVARIANTS SleepersLeaveBeforeDestroy
CHECK_DEADLOCK FALSE
