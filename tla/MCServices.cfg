SPECIFICATION MCSpec
CONSTANTS
  Movers = {m1, m2, m3}
  Windows = {w1, w2}
  Objects = {o1, o2, o3, o4, o5, o6}
  NoObject = NoObject
  Jobs = {j1, j2}
  NoJob = NoJob
  MaxProfiles = 2
  MaxSiteFaults = 1
  Ttl = 2
  RetryAfter = 1
  MaxPages = 2
  MaxLibrary = 4
  MaxLibraryClock = 4
  MaxLibraryFaults = 1
  c1 = c1
  c2 = c2
  t1 = t1
  t2 = t2
  Tenants = {t1, t2}
  Keys = {k1, k2}
  KeyCalls = {c1, c2}
  NoKey = NoKey
  TenantOf <- MCTenantOf
  Interval = 1
  Pauses = {2}
  MaxClock = 2
  MaxKeyFaults = 2
  Anchors = {a1, a2}
  MaxRevision = 2
  MaxMoves = 1
  MaxEnvFaults = 2
  MaxFleetClock = 2
  MaxPowerChanges = 1
  NewPhones = {n1, n2, n3}
  Pinned = {n3}
  ImportBudget = 1
  MaxDelay = 2
  MaxPulse = 4
INVARIANTS
  Exclusion
  SiteWorkIsTrue
  LibraryIsHonest
  NothingIsSentTwice
PROPERTIES
  WaitingWindowRuns
  ProviderLimitKept
  NewestObservationWins
  NoPhoneIsStarved
CHECK_DEADLOCK FALSE
