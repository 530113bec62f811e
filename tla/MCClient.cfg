SPECIFICATION ClientFairSpec
CONSTANTS
  Workloads <- AllWorkloads
  QueueCap = 1
  WireCap = 1
  MaxTicks = 3
  NoCount = NoCount
  StartSignal = StartSignal
INVARIANTS
  PanicsOnlyByConfig
  RecordsTruthful
  ReceivedInOrder
  NoResponseLost
CHECK_DEADLOCK FALSE
PROPERTY ClientFinishes
