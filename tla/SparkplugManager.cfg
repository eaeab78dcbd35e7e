CONSTANTS
  Devices = {d1}
  Reports = {r1, r2}
  MaxFaults = 1
  MaxNcmd = 2
  MaxResults = 1
SPECIFICATION FairSpec
CHECK_DEADLOCK FALSE
INVARIANTS
  SeenIsPublished
  DeadIsClosed
  RebornAfterReconnect
  ShutdownBuries
PROPERTY
  Converges
