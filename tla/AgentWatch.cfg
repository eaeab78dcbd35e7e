SPECIFICATION LiveSpec
CONSTANTS
  c1 = c1
  Controllers = {c1}
  Activity <- OneActivation
  Budget = 1
  Verify = 1
  Grace = 1
  MaxVMs = 1
  MaxRuns = 1
  MaxVersion = 2
  LastChange = 1
  LastLaunch = 2
  MaxTime = 3
INVARIANTS
  WatchSparesHealthy
PROPERTIES
  VmsStop
CHECK_DEADLOCK FALSE
