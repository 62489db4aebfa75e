CONSTANTS
  MaxWrites = 3
  Sizes = {1, 2}
  HostRoom = 2
  MaxIncoming = 3
  HighWaterMark = 2
  Patient = TRUE
SPECIFICATION FairSocketSpec
INVARIANTS FinIsLast
PROPERTIES SocketSettles TrafficFlows
CHECK_DEADLOCK FALSE
