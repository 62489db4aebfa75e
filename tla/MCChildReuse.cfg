CONSTANTS
  a = a
  b = b
  nobody = nobody
  Children = {a, b}
  Pipes <- TwoDefaults
  Unrefs = {}
  MaxPipes = 4
  MaxOut = 1
  MaxCalls = 2
  Early = TRUE
  Nobody = nobody
SPECIFICATION Spec
INVARIANT PipesArePrivate
CHECK_DEADLOCK FALSE
