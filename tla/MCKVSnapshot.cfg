SPECIFICATION SnapSpec
CONSTANTS
  Keys = {k1, k2}
  Values = {v1}
  NoValue = NoValue
  MaxEntries = 4
INVARIANTS
  CreateIsReplay
  MergeIsReplayBut
CHECK_DEADLOCK FALSE
