SPECIFICATION FairSpec
CONSTANTS
  MaxRequests = 2
  MaxParts = 1
  EndsLate = TRUE
  WellFormed = TRUE
  ReadsFirst = TRUE
  Drained = TRUE
INVARIANTS ResponsesInOrder
PROPERTIES   IdleEnds
CHECK_DEADLOCK FALSE
