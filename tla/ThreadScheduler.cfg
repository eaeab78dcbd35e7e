SPECIFICATION FairSpec
CONSTANTS
  Things = {t1, t2, t3}
  Workers = {w1, w2}
  Maintainers = {m1, m2}
  MaxCommands = 2
INVARIANTS
  Serialized
  CommandCapacity
  NoLostWakeup
  CommandOrder
PROPERTIES
  CommandsRun
  MaintenanceEnds
  CloseTerminates
CHECK_DEADLOCK FALSE
