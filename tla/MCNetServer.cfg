CONSTANTS
  Servers = {plain, secure}
  Tls = {secure}
  Conns = {c1, c2, c3}
  MaxHandles = 3
  MaxConnections = 1
  Careful = TRUE
  Once = TRUE
  None = None
SPECIFICATION FairSpec
INVARIANTS  CloseIsLast
PROPERTIES CloseIsAnswered BacklogServed
CHECK_DEADLOCK FALSE
