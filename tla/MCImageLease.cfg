SPECIFICATION Spec
CONSTANTS
  c1 = c1
  c2 = c2
  c3 = c3
  NoToken = NoToken
  Attempts <- MCAttempts
INVARIANTS
  FencedClearance
PROPERTIES
  ReleaseKeepsNewerOwner
  CallsSettle
  AbandonedLeaseFreed
CHECK_DEADLOCK FALSE
