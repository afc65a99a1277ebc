SPECIFICATION FairSpec
CONSTANTS
  Files = {"a", "b", "c"}
  Batches = {"b1"}
  Loads = {"l1", "l2"}
  Rebuilds = {"rebuild"}
  Loaded <- MCLoaded
  Rows <- MCRows
  MaxAttempts = 2
INVARIANTS TypeOK RebuildAlone RebuildNeverInCycle LoadsCycleOverNewRows
PROPERTIES RebuildsEnd LoadersEnd
CHECK_DEADLOCK FALSE
