SPECIFICATION MCSpec
CONSTANTS
  Dwell = 2
  Window = 1
  MaxElapsed = 3
  Boots = {1, 2}
  LastSample = 2
  Near = 0
  End = 2
  MaxGrants = 2
  MaxCalls = 2
  MaxFaults = 1
INVARIANTS
  PlaysArePermitted
  ReleaseIsSafe
PROPERTIES
  ArrivalNeedsDwell
  ArrivingEnds
CHECK_DEADLOCK FALSE
