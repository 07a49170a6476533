SPECIFICATION FairSpec
CONSTANTS
  p1 = p1  p2 = p2
  s1 = s1  s2 = s2  s3 = s3  s4 = s4
  c1 = c1  c2 = c2  c3 = c3
  Procs = {p1}
  Socks = {s1, s2}
  Peer <- OnePeer
  Home <- OneHome
  Mode <- BothModes
  Kind <- OnePair
  Callers = {c1}
  Chan <- LoneCall
  MaxNo = 7
  Cap = 1
  MaxReq = 2
  Breakable = {}
  MayThrow = FALSE
PROPERTIES
  EveryCallReturns
CHECK_DEADLOCK FALSE
