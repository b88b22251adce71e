SPECIFICATION Spec
CONSTANTS
  a = a
  b = b
  NoTime = NoTime
  Host <- MCHost
  Scenario <- MCScenario
PROPERTIES
  Converges
  OneWayLossDetected
  AdminDownReachesPeer
CHECK_DEADLOCK FALSE
