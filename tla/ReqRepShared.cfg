SPECIFICATION FairSpec
CONSTANTS
  p1 = p1  p2 = p2
  s1 = s1  s2 = s2  s3 = s3  s4 = s4
  c1 = c1  c2 = c2  c3 = c3
  Procs = {p1}
  Socks = {s1, s2, s3, s4}
  Peer <- TwoPeers
  Home <- SharedHome
  Mode <- AllInitiative
  Kind <- AllTcp
  Callers = {c1, c2, c3}
  Chan <- DiallersCall
  MaxNo = 4
  Cap = 1
  MaxReq = 2
  Breakable = {}
  MayThrow = FALSE
INVARIANTS
  NoAbort

  
