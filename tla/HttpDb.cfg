SPECIFICATION Spec
CONSTANTS
  Reqs = {1, 2}
  Queries = {1, 2}
  Addrs = {a1, a2}
  MaxChunks = 2
  Requests <- MCRequests
  Empty = ""
  InitUsers <- MCInitUsers
  MaxRestart = 1
INVARIANTS CleanGetsOwn ConfusionNeedsReuse EntriesConsumed
 
CHECK_DEADLOCK FALSE
