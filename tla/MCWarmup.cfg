SPECIFICATION MCSpec
CONSTANTS
  Works = {w1, w2}
  Dependent = {w1}
  MaxNames = 2
  MaxOffs = 1
  MaxRequests = 2
  GpsInterval = 2
  MaxGpsClock = 4
  MaxEdits = 1
  MaxGpsFaults = 1
  PhoneFresh = 1
  PhoneDeadline = 2
  MaxPoints = 3
  MaxPhoneClock = 2
  MaxResumes = 2
  MaxIntrusions = 1
INVARIANTS
  CampaignIsOrderly
  DependentAfterArrival
  PointsAreKnown
PROPERTIES
  PowerOffIsSafe
CHECK_DEADLOCK FALSE
