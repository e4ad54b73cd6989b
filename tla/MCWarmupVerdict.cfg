CONSTANTS
  Works = {w1}
  Dependent = {}
  MaxNames = 2
  MaxOffs = 0
SPECIFICATION Spec
CHECK_DEADLOCK FALSE
INVARIANT EvidenceIsItsOwn
