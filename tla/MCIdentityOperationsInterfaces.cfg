SPECIFICATION CorrectionsSpec
CONSTANTS
  DeviceId = {"a", "b", "x", "y"}
  Mac = {"ma", "mb"}
  Address = {1, 2, 3, 4, 5}
  Source = {}
  NoDevice = "none"
  Raw <- MCRaw
  MergeInput <- MCMergeInput
  SplitInput <- MCSplitInput
  ManualId <- MCManualId
  Legacy <- MCLegacy
  AuditLimit = 2
  MaxOperations = 3
INVARIANTS
  InterfacesFollow
CHECK_DEADLOCK FALSE
