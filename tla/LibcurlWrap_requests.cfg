SPECIFICATION Spec
CONSTANTS
  Threads = {t1, t2}
  Reqs <- SomeReqs
  HDRS_MAX_NUM = 2
  MaxCalls = 1
INVARIANTS TypeOK OneOwner NothingLeaks RepliesWhole PostIsFramed UnreadyOnlyMeanwhile
CHECK_DEADLOCK FALSE
SYMMETRY Symmetry
