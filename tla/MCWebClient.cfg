SPECIFICATION Spec
CONSTANTS
  Mac = {"a", "b"}
  File = {"good", "bad"}
  ValidFile = {"good"}
  MaxScans = 1
  MaxReplacements = 1
  MaxActions = 3
  MaxWaiting = 1
  MaxFailures = 1
INVARIANTS
  OnePoller
  TimelineIsOfSelected
PROPERTIES
  OldAnswersStayOut
  ScanEndsOnPage
CHECK_DEADLOCK FALSE
