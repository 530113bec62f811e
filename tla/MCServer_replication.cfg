SPECIFICATION Spec
CONSTANTS
  Servers = {1, 2}
  InitialLeader = 2
  Keys = {k1}
  Values = {v1}
  NoValue = NoValue
  NumClients <- OneEach
  BatchSize = 2
  Workload <- WritesAndReads
  RequestIds <- TwoAtLeader
  MaxFailures = 0
INVARIANTS
  TypeOK
  ReplicaState
  NothingForgotten
  RepliesFollowLog
PROPERTY Linearizable
CHECK_DEADLOCK FALSE
