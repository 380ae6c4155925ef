SPECIFICATION Spec
CONSTANTS
  Clients = {c1, c2}
  Settings <- OneSetting
  BurstSize = 0
  MaxSignals = 1
  Faults = {}
INVARIANTS ProxyKilled
CHECK_DEADLOCK FALSE
