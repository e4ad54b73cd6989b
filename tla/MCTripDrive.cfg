SPECIFICATION MCSpec
CONSTANTS
  LastPoint = 1
  MaxRev = 3
  NoPoint = NoPoint
  Triggers = {"t1", "t2"}
  Hashes = {"a", "b"}
  MaxTripChanges = 4
  MaxTrips = 2
  MaxWrites = 3
  MaxVersion = 1
  MaxLogins = 2
  MaxLost = 1
  Workspaces = {"u", "v"}
  MaxSent = 2
  MaxUnasked = 2
  MaxEvents = 3
INVARIANTS
  NothingAdrift
  EvidenceIsTrue
  DeviceFollowsTrip
  WifiOnce
  TriggerDrivesOnce
  
PROPERTIES
  ProgressIsApplied
  SilentWhenStopped
  PagesKeepUp
CHECK_DEADLOCK FALSE
