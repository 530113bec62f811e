SPECIFICATION SnapSpec
CONSTANTS
  Keys = {k1}
  Values = {v1}
  NoValue = NoValue
  MaxEntries = 4
INVARIANT SnapshotRestores
CHECK_DEADLOCK FALSE
