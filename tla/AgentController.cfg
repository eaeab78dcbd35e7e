SPECIFICATION Spec
CONSTANTS
  c1 = c1
  Controllers = {c1}
  Activity <- TwoActivations
  Budget = 1
  Verify = 1
  MaxVMs = 2
  MaxRuns = 2
  MaxVersion = 4
  LastChange = 2
  LastLaunch = 2
  MaxTime = 2
INVARIANTS
  ExclusiveAuthority
  ShadowWellFormed
  ActivationsEarned
PROPERTIES
  KnownVmRetained
CHECK_DEADLOCK FALSE
