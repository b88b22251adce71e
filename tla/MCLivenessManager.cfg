SPECIFICATION Spec
CONSTANTS
  k1 = k1
  k2 = k2
  Key = {k1, k2}
  Mode <- AllModes
  MaxSess = 2
  MaxCalls = 2
INVARIANTS
  InstalledIsDesired
  DesiredIsMonitored
  SerialKernelFollowsSession
  KernelFollowsDesired
CHECK_DEADLOCK FALSE
