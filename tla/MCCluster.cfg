\* Two workers that share one address, which another process may hold; one disruption.
CONSTANTS
  w1 = w1
  w2 = w2
  k1 = k1
  none = none
  Workers = {w1, w2}
  Keys = {k1}
  Taken = {k1}
  Attentive = {w1, w2}
  EarlyClose = TRUE
  MaxUpsets = 1
  None = none
SPECIFICATION FairSpec
INVARIANTS WorkerLeavesCleanly RoutingAgrees
PROPERTIES  NoOrphanServes QueryIsAnswered
CHECK_DEADLOCK FALSE
