SPECIFICATION FairSpec
CONSTANTS
  Clients = {c1, c2}
  Settings <- TwoSettings
  BurstSize = 0
  MaxSignals = 0
  Faults = {"client"}
INVARIANTS TypeOK NoDataRace NoCrash ServersKilled TestDirRemoved PlotShowsSetting
PROPERTIES ProxiesDisjoint Terminates
CHECK_DEADLOCK FALSE
