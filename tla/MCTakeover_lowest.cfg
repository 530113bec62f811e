SPECIFICATION TakeoverFairSpec
CONSTANTS
  c1 = c1
  Servers = {1, 2, 3}
  Clients = {c1}
  Gateways = {}
  Addresses <- AtTwo
  NumClients <- AtTwoCount
  ChannelCap = 2
  MaxFailures = 1
  NoClient = NoClient
  InitialLeader = 1
  ReadQuorum = 2
INVARIANTS
  PeersMeet
  StartSignalsArrive
PROPERTY ClusterBegins
CHECK_DEADLOCK FALSE
