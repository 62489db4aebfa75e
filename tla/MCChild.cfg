CONSTANTS
  a = a
  b = b
  nobody = nobody
  Children = {a, b}
  Pipes <- OneAndStdin
  Unrefs = {b}
  MaxPipes = 3
  MaxOut = 1
  MaxCalls = 2
  Early = FALSE
  Nobody = nobody
SPECIFICATION FairSpec
INVARIANTS EndIsReportedInOrder PipesArePrivate NobodyIsForgotten
PROPERTIES CloseComes
CHECK_DEADLOCK FALSE
