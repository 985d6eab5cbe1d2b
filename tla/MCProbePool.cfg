SPECIFICATION PoolSpec
CONSTANTS
  Targets = 5
  Concurrency = 3
INVARIANTS
  EachTargetOnce
  ProgressIsAccurate
PROPERTIES
  StopsOnAbort
  AllEnds
CHECK_DEADLOCK FALSE
