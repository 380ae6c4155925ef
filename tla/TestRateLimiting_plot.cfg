SPECIFICATION Spec
CONSTANTS
  Clients = {c1, c2}
  Settings <- OneSetting
  BurstSize = 0
  MaxSignals = 0
  Faults = {}
INVARIANTS ResponsesPlotted
CHECK_DEADLOCK FALSE
