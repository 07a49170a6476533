SPECIFICATION DbSpec
CONSTANTS
  Queries = {1, 2, 3}
  Requests <- MCRequests
  Empty = ""
  InitUsers <- MCInitUsers
  MaxRestart = 1
INVARIANTS NamesUnique AdminsUnique RegisteredForGood LoginSound OneConnection
PROPERTIES OkMeansDone EveryQueryAnswered
CHECK_DEADLOCK FALSE
