SPECIFICATION SetupSpec
CONSTANTS
  c1 = c1
  c2 = c2
  c3 = c3
  Servers = {1, 2}
  Clients = {c1, c2}
  Gateways = {c2}
  Addresses <- ClientAndGateway
  NumClients <- OneAtOneCount
  ChannelCap = 2
  MaxFailures = 0
  NoClient = NoClient
INVARIANT StartSignalsReachClients
CHECK_DEADLOCK FALSE
