SPECIFICATION FairSpec
CONSTANTS
  r1 = r1  r2 = r2
  Requests <- TwoRequests
  MaxVersion = 3
  MaxObj = 3
  MayFail = TRUE
INVARIANTS
  StaleOnlyWhilePending
  

  
