SPECIFICATION LiveSpec
CONSTANTS
  Kinds = {"polled", "timer", "remote", "postgres"}
  Instances = {1, 2}
  Keys = {"m", "n", "t"}
  TextKeys = {"t"}
  OnText = {2}
  KeyTypes = {"INTEGER", "BIGINT"}
  MaxWrites = 2
  MaxFails = 1
  InFlight = 2
INVARIANT Released
PROPERTY Follows
CHECK_DEADLOCK FALSE
