\* Two queries over two servers, one of each family, so that the queries share sockets and a
\* late reply comes through the other one; two errors or calls of cancel().
CONSTANTS
  MaxQueries = 2
  Ids = {0, 1}
  N = 2
  Family <- TwoFamilies
  Tries = 1
  MaxUpsets = 2
  Apart = TRUE
SPECIFICATION FairSpec
INVARIANTS SocketsAreNeeded EveryTryIsMade
PROPERTY EveryQueryEnds
CHECK_DEADLOCK FALSE
