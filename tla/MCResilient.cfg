\* Two resilient streams, two requests and two failures; a failure costs at
\* most one socket and one more for each stream whose health check it leaves
\* behind, so MaxSockets = 1 + MaxFaults * (1 + 2) never binds.
CONSTANTS
  Streams = {s1, s2}
  Requests = {r1, r2}
  MaxFaults = 2
  MaxSockets = 7
SPECIFICATION FairSpec
INVARIANTS OneConnection NoOrphans AttachedToLive
PROPERTIES StreamsReturn SilenceIsNoticed
CHECK_DEADLOCK FALSE
