SPECIFICATION Spec
CONSTANTS
  Update = {u1}
  Replace = {r1, r2}
  Reader = {d1}
  Absent = Absent
  Partial = Partial
  Keep = 1
  MaxCrashes = 1
  MonotoneClock = TRUE
INVARIANTS
  ReadSeesEarlierWrites
PROPERTIES
  ImplementsSerialStore
  BackupBeforeReplace
  BackupRetention
  EveryCallAnswered
CHECK_DEADLOCK FALSE
