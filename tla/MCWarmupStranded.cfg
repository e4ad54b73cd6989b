CONSTANTS
  Works = {}
  Dependent = {}
  MaxNames = 1
  MaxOffs = 0
SPECIFICATION InsistentSpec
CHECK_DEADLOCK FALSE
PROPERTY DriveCanBeEnded
