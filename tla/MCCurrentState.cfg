SPECIFICATION Spec
VIEW Content
CONSTANTS
  Width = 4
  SafePrefix = 2
  PrivateRange <- MCPrivate
  AllowedRange <- MCAllowed
  Name = {"lo", "eth", "br", "wl"}
  VirtualName = {"lo", "br"}
  Mac = {"a", "b", "s", "v", "l", "w"}
  NodeName = {"n"}
  DeviceId <- MCDeviceId
  View <- MCView
  Sweep <- MCSweep
  ServiceScan <- MCServiceScan
  Context <- MCContext
  MaxSnapshots = 3
INVARIANTS
  NewestOfEach
  InventoryHolds
  ViewsAgree
  TargetsInScope
PROPERTIES
  OnlyChecksChange
CHECK_DEADLOCK FALSE
