SPECIFICATION FairSpec
CONSTANTS
  p1 = p1
  p2 = p2
  m1 = m1
  m2 = m2
  Procs <- MCProcs
  Msgs <- MCMsgs
  Retries = 1
  Listeners <- MCListeners
  Writers <- MCWriters
  Readers <- MCReaders
  Mortal <- MCMortal
  MaxVersion = 3
  MaxCrashes = 1
  
PROPERTIES  WatchCatchesUp
CHECK_DEADLOCK FALSE
