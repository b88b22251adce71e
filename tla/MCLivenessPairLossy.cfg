SPECIFICATION Spec
CONSTANTS
  a = a
  b = b
  NoTime = NoTime
  Host <- MCHost
  Scenario <- LossyScenario
INVARIANTS
  UpMeansHandshake
CHECK_DEADLOCK FALSE
