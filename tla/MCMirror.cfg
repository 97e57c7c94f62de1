SPECIFICATION MirrorSpec
CONSTANTS
  Plans <- SmallPlans
  Views = {"report"}
  Legacy = {"orders"}
  Missing = {"gone"}
  NbrCalls = 2
  MaxFails = 1
  MaxLost = 1
INVARIANTS ReplaceSemantics
CHECK_DEADLOCK FALSE
