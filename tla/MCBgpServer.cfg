SPECIFICATION Spec
CONSTANTS
  None = None
  Prefix = {p1}
  Mode <- AllModes
INVARIANTS
  StatusMatchesPeer
PROPERTIES
  CallsReturn
  OutcomeReported
CHECK_DEADLOCK FALSE
