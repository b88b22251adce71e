SPECIFICATION Spec
CONSTANTS
  NoTime = NoTime
  Cfg <- MCCfg
  Discr = {1, 2, 3}
  LocalDiscr = 1
  Scenario <- Scenarios
  Lag = 1
INVARIANTS
  TxChain
  AdminDownAdvertised
  SilenceDetectedUnhindered
CHECK_DEADLOCK FALSE
