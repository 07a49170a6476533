SPECIFICATION FairSpec
CONSTANTS
  q1 = q1  q2 = q2
  Queries <- TwoQueries
  MaxConn = 4
  MaxSock = 8
  MayBreak = TRUE
  MayRefuse = TRUE
INVARIANTS
  ChannelExclusive
  QueuedConnsReady
  PoolBounded
  FailedNotReused
PROPERTIES
  EveryQueryReturns
CHECK_DEADLOCK FALSE
