SPECIFICATION LiveSpec
CONSTANTS
  Rows = {r1, r2}
  Interval = 1
  MaxTick = 4
  MaxFailures = 2
  MaxPurges = 1
INVARIANTS SnapshotUpToPartial
PROPERTIES WatermarkForward Converges MirrorResolves
CHECK_DEADLOCK FALSE
