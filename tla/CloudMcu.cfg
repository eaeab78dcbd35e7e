SPECIFICATION FairSpec
CONSTANTS
  Ticks = {1, 2}
  Tasks = {1, 2, 3}
  MaxQueue = 1
  Budgets <- Few
PROPERTIES
  SleepStopsTasks
  OneTaskLeft
  RigComesToRest
CHECK_DEADLOCK FALSE
