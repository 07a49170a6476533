SPECIFICATION FairSpec
CONSTANTS
  p1 = p1  p2 = p2
  s1 = s1  s2 = s2  s3 = s3  s4 = s4
  c1 = c1  c2 = c2  c3 = c3
  Procs = {p1, p2}
  Socks = {s1, s2}
  Peer <- OnePeer
  Home <- TwoHomes
  Mode <- BothModes
  Kind <- OneTcp
  Callers = {c1, c2}
  Chan <- OneCalls
  MaxNo = 1
  Cap = 1
  MaxReq = 2
  Breakable = {s1}
  MayThrow = TRUE
INVARIANTS
  NullMeansNotServed
PROPERTIES
  AbortHasCause
  
CHECK_DEADLOCK FALSE
