CONSTANTS
  MaxWrites = 3
  HighWaterMark = 2
SPECIFICATION FairSpec
  
PROPERTIES DrainComes 
CHECK_DEADLOCK FALSE
