SPECIFICATION FairSpec
CONSTANTS
  Senders <- TwoSenders
  Outbox <- TwoOutbox
  ChunkMax = 4
  SockBuf = 6
  MayClose = TRUE
PROPERTIES
  ImplementsPipe
  
CHECK_DEADLOCK FALSE
