SPECIFICATION SetupSpec
CONSTANTS
  c1 = c1
  c2 = c2
  c3 = c3
  Servers = {1, 2}
  Clients = {c1, c2, c3}
  Gateways = {c2}
  Addresses <- TwoClientsAndGateway
  NumClients <- TwoAtOneCount
  ChannelCap = 2
  MaxFailures = 2
  NoClient = NoClient
INVARIANT ReadyForServerLoop
CHECK_DEADLOCK FALSE
