SPECIFICATION Spec
CONSTANTS
  None = None
  MaxEpoch = 2
  MaxSample = 4
  Room = 3
  Batch = 2
  Capacity = 2
  MaxConcurrency = 1
  Mode <- Agents
INVARIANTS
  NotOvertaken
  DeviceBufferBounded
PROPERTIES
  AddReturns
  DeliversSamples
CHECK_DEADLOCK FALSE
