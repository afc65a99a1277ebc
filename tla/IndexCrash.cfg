SPECIFICATION Spec
CONSTANTS
  Targets = {t1}
  Files = {1, 2}
  Runs = {1}
  Versions = {0, 1, 2, 3, 4}
  Absent = {0, 4}
  Poison = {2}
  Initial = {1}
  Coords = {1, 2}
  Workers = 2
  MaxLoadAttempts = 2
  MaxEdits = 1
  MaxCrashes = 1
  MaxInterrupts = 1
  MaxFaults = 2
INVARIANTS TypeOK NoFileLost NoPoisonLoaded LoadedAsFrozen
PROPERTIES PublishesWholeBatches SecondReduceIsNoOp
CHECK_DEADLOCK FALSE
