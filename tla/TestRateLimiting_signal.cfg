SPECIFICATION FairSpec
CONSTANTS
  Clients = {c1}
  Settings <- SingleRequests
  BurstSize = 0
  MaxSignals = 2
  Faults = {"status", "json", "dump", "fork", "exec", "fopen", "popen"}
INVARIANTS ProxyOutlivesRequests OriginKilledOnceUp
PROPERTIES EndsAfterSignal
CHECK_DEADLOCK FALSE
