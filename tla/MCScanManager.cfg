SPECIFICATION Spec
CONSTANTS
  Job = {j1, j2, j3, j4}
  MaxJobs = 2
  None = None
INVARIANTS
  TypeOK
  UnsettledIsTracked
  HistoryIsNewest
PROPERTIES
  TerminalIsFrozen
  CancelTakesEffect
  ImplementsScanSlot
CHECK_DEADLOCK FALSE
