SPECIFICATION GatewayStoreFairSpec
CONSTANTS
  Requests = {r1, r2}
  QueueCap = 1
  NoRequest = NoRequest
  Keys = {k1}
  Values = {v1}
  NoValue = NoValue
  NoResult = NoResult
  Servers = {s1, s2}
  ClientIds = {1}
  GatewayServer = s1
  GatewayClient = 1
  OtherCommands <- OneWriteElsewhere
INVARIANTS
  OwnAnswer
  UnavailableMeansUnsent
  NothingLeftPending
  NoAnswerLost
PROPERTIES
  HttpLinearizable
  RequestsEnd
CHECK_DEADLOCK FALSE
