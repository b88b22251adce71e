SPECIFICATION EndpointSpec
CONSTANTS
  NoTime = NoTime
  Cfg <- MCCfg
  Discr = {1, 2, 3}
  LocalDiscr = 1
  PeerInterval = {0, 3}
  MaxTime = 6
INVARIANTS
  UpLastsDetectTime
PROPERTIES
  FreshUpHolds
CHECK_DEADLOCK FALSE
