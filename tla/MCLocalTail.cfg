SPECIFICATION LiveSpec
CONSTANTS
  Rows = {r1, r2}
  Keep = 1
  MaxWrites = 3
  MaxFailures = 2
  MaxRefusals = 1
  MaxPurges = 1
INVARIANTS AckedIsApplied
PROPERTIES ServerForward EverythingAcked
CHECK_DEADLOCK FALSE
