SPECIFICATION Spec
CONSTANTS
  u1 = u1
  u2 = u2
  None = None
  User = {u1, u2}
  Netns <- MCNetns
  Grace = 1
  QueueCap = 1
  MaxRetries = 2
  Mode <- SoundModes
INVARIANTS
  PendingHasTask
  BeliefIsOnchain
PROPERTIES
  StatusReported
CHECK_DEADLOCK FALSE
