SPECIFICATION Spec
CONSTANTS
  h1 = h1
  h2 = h2
  Jobs = {j1}
  Handlers = {h1, h2}
  Deliverers = {outbox}
  Operator = operator
  NoHandler = NoHandler
  NoJob = NoJob
  MaxAttempts = 2
  KeyCount = 2
  MaxFaults = 1
SYMMETRY SwapHandlers
CHECK_DEADLOCK FALSE
INVARIANTS
  SubmissionIsSafe
PROPERTY KeepsIntent
