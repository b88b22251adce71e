SPECIFICATION SpecIngest
CONSTANTS
  Table = {t1, t2}
  MaxLog = 3
  MaxPoll = 2
  MaxRestarts = 1
  MaxFaults = 1
  Consumers = {"flow", "gnmi"}
  Worker = {w1, w2}
  BufferSize = 1
  Feeds = {"server", "external"}
INVARIANTS
  CommittedHandled
  NoSendOnClosed
PROPERTIES
  DeliversAtLeastOnce
  ShutdownCompletes
CHECK_DEADLOCK FALSE
