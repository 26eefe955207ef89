INIT PermissionsInit
NEXT UpgradeNext
CONSTANTS
  DThread = {1, 2}
  DOrigin = {1, 2}
  DName = {}
  MaxRows = 0
  OldVersion = {1, 2, 3, 4, 5, 6, 7, 8, 9, 10}
  MaxSets = 0
INVARIANT UpgradeableIsUpgraded
CHECK_DEADLOCK FALSE
