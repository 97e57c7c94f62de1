SPECIFICATION DbSpec
CONSTANTS
  Rows = {"r1", "r2"}
  Batch = 1
  MaxOps = 5
  MaxDepth = 4
  MaxWatch = 2
  MaxSubs = 1
INVARIANTS WatchersRight IdsDisjoint
CHECK_DEADLOCK FALSE
