CONSTANTS
  Devices = {d1}
  Reports = {r1}
  MaxFaults = 0
  MaxNcmd = 1
  MaxResults = 0
SPECIFICATION Spec
CHECK_DEADLOCK FALSE
SYMMETRY Symmetry
INVARIANT
  SessionNotPulled
