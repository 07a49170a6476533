SPECIFICATION Spec
CONSTANTS
  r1 = r1  r2 = r2
  Requests <- TwoRequests
  MaxVersion = 1
  MaxObj = 1
  MayFail = FALSE
INVARIANTS
  WaitsForLoad
