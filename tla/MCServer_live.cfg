SPECIFICATION FairSpec
CONSTANTS
  Servers = {1, 2}
  InitialLeader = 2
  Keys = {k1}
  Values = {v1}
  NoValue = NoValue
  NumClients <- OneEach
  BatchSize = 2
  Workload <- Deletes
  RequestIds <- One
  MaxFailures = 0
PROPERTIES
  ClusterStarts
  RequestsAnswered
CHECK_DEADLOCK FALSE
