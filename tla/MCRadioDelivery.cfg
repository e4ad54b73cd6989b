SPECIFICATION MCSpec
CONSTANTS
  c1 = c1
  c2 = c2
  NoToken = NoToken
  Attempts <- MCAttempts
  MaxSequence = 1
  RadioCells = {k1, k2, k3}
  NoCell = NoCell
  OtherRat = {k3}
  CellLevels = {0, 2}
  HandoverMargin = 0
  A5Serving = 2
  A5Neighbor = 1
  TimeToTrigger = 2
  MaxContinuityGap = 2
  ScanInterval = 3
  MaxRadioClock = 4
  Interfaces = {"wifi", "bluetooth"}
  Identities = {x, y}
  PhoneModes = {"EXCLUSIVE", "ADDITIVE"}
  MaxFrame = 1
  MaxSessions = 2
  MaxEvidence = 1
  MaxStoreFaults = 1
  MaxAsks = 2
  MaxInstances = 2
  MaxTrips = 1
  MaxUpsets = 2
  MaxRequests = 3
  MaxLines = 4
  Images = {"i", "j"}
  Endpoints = {"e", "f"}
  MaxEntries = 3
SYMMETRY SwapCalls
INVARIANTS
  ResultsAreHonest
  FramesAreCredible
  VerdictIsTrue
  EvidenceSaysNoMore
  PlayersAreReached
PROPERTIES
  ExpiredWriterNeverOverwrites
  WrittenSequencesOnlyGrow
CHECK_DEADLOCK FALSE
