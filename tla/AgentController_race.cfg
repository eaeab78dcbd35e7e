SPECIFICATION Spec
CONSTANTS
  c1 = c1
  c2 = c2
  Controllers = {c1, c2}
  Activity <- OneActivation
  Budget = 1
  Verify = 1
  MaxVMs = 1
  MaxRuns = 2
  MaxVersion = 2
  LastChange = 1
  LastLaunch = 1
  MaxTime = 2
SYMMETRY Symmetry
PROPERTIES
  KillsFencedOnly
  StopIsFinal
CHECK_DEADLOCK FALSE
