SPECIFICATION Spec
CONSTANTS
  Cap = 1
  MaxMsg = 3
  MaxConn = 2
INVARIANTS RouterOutlivesSender  OneLateChannel StopedIsFinal
PROPERTIES StopStops UninitEndsAfterMessage
CHECK_DEADLOCK FALSE
