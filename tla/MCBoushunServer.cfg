SPECIFICATION Spec
CONSTANTS
  Manual = {m1}
  Scheduled = {s1}
  Maintenance = {x1}
  Edit = {e1}
  Removing = {}
  Disabling = {}
  Enabling = {e1}
  MaxSnapshots = 2
  None = None
INVARIANTS
  NoScanDuringMaintenance
  NothingStale
  ActiveScanIsCurrent
  CompletedIsSaved
PROPERTIES
  CancelPreventsSave
  NothingBlocks
CHECK_DEADLOCK FALSE
