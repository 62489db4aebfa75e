SPECIFICATION FairHttp2Spec
CONSTANTS
  MaxStreams = 2
  Bodies = {3}
  Chunk = 3
  FrameSize = 2
  Window = 2
  Batch = 2
  Low = 1
  ConnWindow = 2
  ConnBatch = 2
  ConnLow = 1
  Wanted = {1}
  MaxSettings = 1
  MaxUpsets = 1
  Settled = TRUE
INVARIANTS WindowsAgree 
PROPERTIES EverythingEnds
CHECK_DEADLOCK FALSE
