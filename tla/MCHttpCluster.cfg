SPECIFICATION HttpClusterSpec
CONSTANTS
  Servers = {1, 2}
  InitialLeader = 1
  Keys = {k1}
  Values = {v1}
  NoValue = NoValue
  NumClients <- OneEach
  BatchSize = 2
  Workload <- ReadAndWrite
  RequestIds <- IdForEach
  MaxFailures = 0
  Requests = {r1}
  QueueCap = 1
  NoRequest = NoRequest
  NoResult = NoResult
  GatewayServer = 2
  GatewayClient = 1
INVARIANT InStep
PROPERTIES
  ServesGateway
  EndToEnd
CHECK_DEADLOCK FALSE
