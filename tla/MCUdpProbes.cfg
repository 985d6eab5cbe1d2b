SPECIFICATION Spec
CONSTANTS
  Addresses = 3
  Ports = 1
  Concurrency = 2
  Retries = 1
  RetryDelay = 2
  Lateness = 1
  MaxTime = 2
INVARIANTS
  PacedUpToLateness
  TotalsAgree
PROPERTIES
  StopsSending
  AllEnds
CHECK_DEADLOCK FALSE
