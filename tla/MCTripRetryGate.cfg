SPECIFICATION Spec
CONSTANTS
  LastPoint = 1
  MaxRev = 3
  NoPoint = NoPoint
PROPERTY RetryIsGated
CHECK_DEADLOCK FALSE
