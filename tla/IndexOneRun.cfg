SPECIFICATION Spec
CONSTANTS
  Targets = {t1}
  Files = {1}
  Runs = {1, 2}
  Versions = {0, 1, 2, 3, 4}
  Absent = {0, 4}
  Poison = {2}
  Initial = {1}
  Coords = {1, 2}
  Workers = 2
  MaxLoadAttempts = 2
  MaxEdits = 0
  MaxCrashes = 1
  MaxInterrupts = 1
  MaxFaults = 0
INVARIANT OneUnfinishedRun
CHECK_DEADLOCK FALSE
