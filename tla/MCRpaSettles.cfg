SPECIFICATION FairSpec
CONSTANTS
  Jobs = {j1}
  Handlers = {h1}
  Deliverers = {outbox}
  Operator = operator
  NoHandler = NoHandler
  NoJob = NoJob
  MaxAttempts = 2
  KeyCount = 1
  MaxFaults = 2
CHECK_DEADLOCK FALSE
PROPERTY PendingIsSettled
