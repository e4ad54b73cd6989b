SPECIFICATION FairSpec
CONSTANTS
  LastPoint = 1
  MaxRev = 2
  NoPoint = NoPoint
PROPERTY DrivesEnd
CHECK_DEADLOCK FALSE
