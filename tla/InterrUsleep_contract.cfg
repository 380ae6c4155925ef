SPECIFICATION Spec
CONSTANTS
  Threads = {t1, t2}
  Handlers = {sigint, sigterm}
  Nobody = Nobody
  Usecs = {0, 1}
  MaxNow = 2
  QuiescentClose = TRUE
INVARIANTS TypeOK MutexDiscipline NoLostWakeup StatusJustified LoggersBalanced
PROPERTIES InterruptSticks ImplementsPromise
CHECK_DEADLOCK FALSE
SYMMETRY Symmetry
