SPECIFICATION PoolSpec
CONSTANTS
  Targets = 5
  Concurrency = 3
PROPERTIES
  NoProbeAfterEnd
CHECK_DEADLOCK FALSE
