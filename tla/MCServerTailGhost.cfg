SPECIFICATION Spec
CONSTANTS
  Rows = {r1, r2}
  Interval = 1
  MaxTick = 4
  MaxFailures = 1
  MaxPurges = 0
INVARIANTS SnapshotExact
CHECK_DEADLOCK FALSE
