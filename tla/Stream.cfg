SPECIFICATION Spec
CONSTANTS
  MaxCall = 4
  HeadLen = 3
  BodyLen = 2
  MaxGarbage = 3
  Reads <- MCReads
INVARIANTS ServerInOrder InStep
PROPERTY CallReturns
CHECK_DEADLOCK FALSE
