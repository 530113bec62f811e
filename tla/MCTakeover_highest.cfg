SPECIFICATION TakeoverSpec
CONSTANTS
  c1 = c1
  Servers = {1, 2, 3}
  Clients = {c1}
  Gateways = {}
  Addresses <- AtTwo
  NumClients <- AtTwoCount
  ChannelCap = 2
  MaxFailures = 0
  NoClient = NoClient
  InitialLeader = 3
  ReadQuorum = 2
INVARIANT StartSignalsArrive
CHECK_DEADLOCK FALSE
