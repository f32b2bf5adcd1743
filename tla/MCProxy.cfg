CONSTANTS
  c1 = c1
  c2 = c2
  Conns <- MCConns
  MaxChunks <- MCMaxChunks
  AppLimit = 1
SPECIFICATION FairSpec
INVARIANTS ReportsTrue
PROPERTIES StopReturnsReported EveryConnReported
CHECK_DEADLOCK FALSE
