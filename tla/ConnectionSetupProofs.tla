----------------------- MODULE ConnectionSetupProofs -----------------------
(***************************************************************************)
(* What Network::new gives a server, for every cluster, every placement of *)
(* clients and gateways and every capacity of the channel.                 *)
(*                                                                         *)
(* Peers: a connection is handed over at most once, so when                *)
(* initialize_connections has all peers none of theirs is left to lose     *)
(* (PeerInv).  Clients: ids are drawn from a counter that never exceeds    *)
(* the number of clients that have connected (ClientInv); with no more of  *)
(* them than configured, num_clients installed ids can only be             *)
(* 1..num_clients.                                                         *)
(***************************************************************************)
EXTENDS ConnectionSetup, FiniteSetTheorems, TLAPS

ConnectorStage == {"connecting", "connected", "identified", "queued", "failed", "lost"}
HandlerStage == {"none", "backlog", "accepted", "identified", "queued", "failed", "lost"}

Source(n) == connection_source[n]

(* The state of the set-up has its types.                                  *)
SetupTypeOK ==
  /\ listening \in [Servers -> {"unbound", "bound", "aborted"}]
  /\ DOMAIN connector = Servers
  /\ \A n \in Servers : connector[n] \in [Lower(n) -> ConnectorStage]
  /\ DOMAIN handler = Servers
  /\ \A n \in Servers : handler[n] \in [Incoming(n) -> HandlerStage]
  /\ max_client_id \in [Servers -> Nat]
  /\ client_id \in [Clients -> Nat]
  /\ connection_source \in [Servers -> Seq(Servers \cup Clients)]
  /\ peer_connections \in [Servers -> SUBSET Servers]
  /\ client_connections \in [Servers -> [ClientIds -> Clients \cup {NoClient}]]
  /\ running \in [Servers -> BOOLEAN]

(* The stage, at n, of the connection with its peer p.                     *)
Stage(n, p) == IF p \in Lower(n) THEN connector[n][p] ELSE handler[n][p]

(* The two ends of a stream begin together.                                *)
BothEnds ==
  \A n \in Servers : \A p \in Lower(n) :
    connector[n][p] = "connecting" <=> handler[p][n] = "none"

(* A connection that waits in the channel or is installed has been handed  *)
(* over, once.                                                             *)
HandedOver ==
  \A n \in Servers :
    /\ peer_connections[n] \subseteq Peers(n)
    /\ \A p \in peer_connections[n] : Stage(n, p) = "queued"
    /\ \A i \in 1..Len(Source(n)) : Source(n)[i] \in Servers =>
         /\ Source(n)[i] \in Peers(n) \ peer_connections[n]
         /\ Stage(n, Source(n)[i]) = "queued"
         /\ \A j \in 1..Len(Source(n)) : Source(n)[i] = Source(n)[j] => i = j

(* A server that has returned from Network::new has every peer, and takes  *)
(* no more connections.                                                    *)
Complete ==
  \A n \in Servers : running[n] =>
    /\ peer_connections[n] = Peers(n)
    /\ listening[n] = "aborted"
    /\ Source(n) = << >>

NothingLost ==
  \A n \in Servers : \A p \in Peers(n) : Stage(n, p) # "lost"

PeerInv == BothEnds /\ HandedOver /\ Complete /\ NothingLost

(* The clients that have connected to n, and those n has given an id.      *)
Connected(n) == {c \in Local(n) : handler[n][c] # "none"}
Unnamed == {"none", "backlog", "accepted", "failed"}
Named(n) == {c \in Local(n) : handler[n][c] \notin Unnamed}
HasId(n, c) == c \in Named(n) /\ client_id[c] \in 1..max_client_id[n]

(* A client connects to one server.                                        *)
OneServer ==
  \A m, n \in Servers : \A c \in Connected(m) \cap Connected(n) : m = n

(* As many ids as clients, each client under its own.                      *)
IdsInUse ==
  \A n \in Servers :
    /\ max_client_id[n] <= Cardinality(Named(n))
    /\ \A c \in Local(n) : handler[n][c] \in {"identified", "queued"} => HasId(n, c)
    /\ \A i \in 1..Len(Source(n)) : Source(n)[i] \in Clients => HasId(n, Source(n)[i])
    /\ \A i \in ClientIds : client_connections[n][i] # NoClient =>
         HasId(n, client_connections[n][i]) /\ client_id[client_connections[n][i]] = i
    /\ running[n] =>
         Cardinality({i \in ClientIds : client_connections[n][i] # NoClient}) >= NumClients[n]

ClientInv == OneServer /\ IdsInUse

SetupInv == SetupTypeOK /\ PeerInv /\ ClientInv

-----------------------------------------------------------------------------
(* Tables of stages.                                                       *)

LEMMA StageUpdate ==
  ASSUME NEW f, NEW n \in DOMAIN f, NEW x \in DOMAIN f[n], NEW v,
         NEW g, g = [f EXCEPT ![n][x] = v]
  PROVE  /\ DOMAIN g = DOMAIN f
         /\ \A m \in DOMAIN f \ {n} : g[m] = f[m]
         /\ g[n] = [f[n] EXCEPT ![x] = v]
  OBVIOUS

LEMMA Neighbours ==
  ASSUME NEW n \in Servers
  PROVE  /\ Peers(n) = Lower(n) \cup Higher(n)
         /\ Lower(n) \cap Higher(n) = {} /\ n \notin Lower(n) \cup Higher(n)
         /\ Lower(n) \cap Incoming(n) = {} /\ Lower(n) \cap Clients = {}
         /\ Lower(n) \subseteq Servers /\ Higher(n) \subseteq Servers
         /\ Higher(n) \cap Clients = {} /\ Incoming(n) \cap Servers = Higher(n)
         /\ Incoming(n) \cap Clients = Local(n) /\ Local(n) \subseteq Clients
         /\ Local(n) \cap Servers = {}
         /\ Incoming(n) = Higher(n) \cup Local(n)
         /\ \A p \in Servers : p \in Lower(n) <=> n \in Higher(p)
<1>1. Servers \subseteq Nat /\ Servers \cap Clients = {}
  BY SetupAssumption
<1>2. Local(n) \subseteq Clients /\ Incoming(n) = Higher(n) \cup Local(n)
  BY DEF Local, Incoming
<1>3. Lower(n) \subseteq Servers /\ Higher(n) \subseteq Servers
  BY DEF Lower, Higher
<1>4. Peers(n) = Lower(n) \cup Higher(n)
  <2>1. \A p \in Servers : p # n <=> (p < n \/ p > n)
    BY <1>1
  <2> QED BY <2>1 DEF Peers, Lower, Higher
<1>5. Lower(n) \cap Higher(n) = {} /\ n \notin Lower(n) \cup Higher(n)
  <2>1. \A p \in Servers : ~(p < n /\ p > n) /\ ~(n < n) /\ ~(n > n)
    BY <1>1
  <2> QED BY <2>1 DEF Lower, Higher
<1>6. \A p \in Servers : p \in Lower(n) <=> n \in Higher(p)
  BY <1>1 DEF Lower, Higher
<1> QED BY <1>1, <1>2, <1>3, <1>4, <1>5, <1>6

(* A connector task of n to p, or a handler task of n for x, moves on.     *)
ConnectorTo(n, p, v) == connector' = [connector EXCEPT ![n][p] = v]
HandlerTo(n, x, v) == handler' = [handler EXCEPT ![n][x] = v]

LEMMA ConnectorType ==
  ASSUME SetupTypeOK, NEW n \in Servers, NEW p \in Lower(n), NEW v \in ConnectorStage,
         ConnectorTo(n, p, v)
  PROVE  /\ DOMAIN connector' = Servers
         /\ \A m \in Servers : connector'[m] \in [Lower(m) -> ConnectorStage]
         /\ connector'[n][p] = v
         /\ \A m \in Servers : \A q \in Lower(m) : m # n \/ q # p =>
              connector'[m][q] = connector[m][q]
<1>1. /\ DOMAIN connector = Servers
      /\ \A m \in Servers : connector[m] \in [Lower(m) -> ConnectorStage]
  BY DEF SetupTypeOK
<1>2. p \in DOMAIN connector[n]
  BY <1>1
<1>3. /\ DOMAIN connector' = Servers
      /\ \A m \in Servers \ {n} : connector'[m] = connector[m]
      /\ connector'[n] = [connector[n] EXCEPT ![p] = v]
  BY <1>1, <1>2, StageUpdate DEF ConnectorTo
<1>4. connector'[n] \in [Lower(n) -> ConnectorStage] /\ connector'[n][p] = v
      /\ \A q \in Lower(n) \ {p} : connector'[n][q] = connector[n][q]
  BY <1>1, <1>3
<1> QED BY <1>1, <1>3, <1>4

LEMMA HandlerType ==
  ASSUME SetupTypeOK, NEW n \in Servers, NEW x \in Incoming(n), NEW v \in HandlerStage,
         HandlerTo(n, x, v)
  PROVE  /\ DOMAIN handler' = Servers
         /\ \A m \in Servers : handler'[m] \in [Incoming(m) -> HandlerStage]
         /\ handler'[n][x] = v
         /\ \A m \in Servers : \A q \in Incoming(m) : m # n \/ q # x =>
              handler'[m][q] = handler[m][q]
<1>1. /\ DOMAIN handler = Servers
      /\ \A m \in Servers : handler[m] \in [Incoming(m) -> HandlerStage]
  BY DEF SetupTypeOK
<1>2. x \in DOMAIN handler[n]
  BY <1>1
<1>3. /\ DOMAIN handler' = Servers
      /\ \A m \in Servers \ {n} : handler'[m] = handler[m]
      /\ handler'[n] = [handler[n] EXCEPT ![x] = v]
  BY <1>1, <1>2, StageUpdate DEF HandlerTo
<1>4. handler'[n] \in [Incoming(n) -> HandlerStage] /\ handler'[n][x] = v
      /\ \A q \in Incoming(n) \ {x} : handler'[n][q] = handler[n][q]
  BY <1>1, <1>3
<1> QED BY <1>1, <1>3, <1>4

(* What initialize_connections makes of the next connection: the peers and *)
(* clients then installed, whether that is the end, and what the end would *)
(* leave in the channel.                                                   *)
Received(n) == Head(Source(n))
NewPeers(n) == peer_connections[n] \cup (Servers \cap {Received(n)})
NewClients(n) == IF Received(n) \in Clients
                 THEN [client_connections[n] EXCEPT ![client_id[Received(n)]] = Received(n)]
                 ELSE client_connections[n]
Ends(n) == EverythingConnected(n, NewPeers(n), NewClients(n))
Left(n) == {Source(n)[i] : i \in 2..Len(Source(n))}

(* Ids fit into the table of connections.                                  *)
LEMMA IdsFit ==
  ASSUME SetupInv, NEW n \in Servers, NEW c, HasId(n, c)
  PROVE  c \in Clients /\ c \in Local(n) /\ client_id[c] \in ClientIds
<1>1. /\ IsFiniteSet(Clients) /\ Named(n) \in SUBSET Clients /\ c \in Named(n) /\ c \in Local(n)
  BY SetupAssumption DEF Named, Unnamed, Local, HasId
<1>2. /\ Cardinality(Named(n)) \in Nat /\ Cardinality(Clients) \in Nat
      /\ Cardinality(Named(n)) <= Cardinality(Clients)
  BY <1>1, FS_Subset, FS_CardinalityType
<1>3. max_client_id[n] \in Nat /\ max_client_id[n] <= Cardinality(Named(n))
  BY DEF SetupInv, SetupTypeOK, ClientInv, IdsInUse
<1>4. client_id[c] \in 1..max_client_id[n]
  BY DEF HasId
<1> QED BY <1>1, <1>2, <1>3, <1>4 DEF ClientIds

(* The effect of Receive at n, with and without the end of Network::new.   *)
LEMMA ReceiveEffect ==
  ASSUME SetupInv, NEW n \in Servers, Receive(n)
  PROVE  /\ Source(n) # << >> /\ ~running[n]
         /\ peer_connections' = [peer_connections EXCEPT ![n] = NewPeers(n)]
         /\ client_connections' = [client_connections EXCEPT ![n] = NewClients(n)]
         /\ running' = [running EXCEPT ![n] = Ends(n)]
         /\ listening' = IF Ends(n) THEN [listening EXCEPT ![n] = "aborted"] ELSE listening
         /\ connection_source' = [connection_source EXCEPT
              ![n] = IF Ends(n) THEN << >> ELSE Tail(Source(n))]
         /\ handler' = [handler EXCEPT ![n] = [y \in Incoming(n) |->
              IF Ends(n) /\ (y \in Left(n) \/ handler[n][y] = "backlog")
              THEN "lost" ELSE handler[n][y]]]
         /\ connector' = [connector EXCEPT ![n] = [p \in Lower(n) |->
              IF Ends(n) /\ p \in Left(n) THEN "lost" ELSE connector[n][p]]]
         /\ UNCHANGED <<attempt, max_client_id, client_id, failures>>
<1>1. n \in DOMAIN handler /\ n \in DOMAIN connector /\ n \in DOMAIN connection_source
  BY DEF SetupInv, SetupTypeOK
<1> QED BY <1>1 DEF Receive, NewPeers, NewClients, Source, Received, Ends, Left, clientVars

-----------------------------------------------------------------------------
(* Peers.  Streams stay paired, none is lost, and a connection handed over *)
(* stays so.                                                               *)
StreamsKept ==
  /\ BothEnds'
  /\ \A n \in Servers : \A p \in Peers(n) :
       Stage(n, p)' # "lost" /\ (Stage(n, p) = "queued" => Stage(n, p)' = "queued")

LEMMA HandedOverAt ==
  ASSUME SetupInv, NEW n \in Servers
  PROVE  /\ peer_connections[n] \subseteq Peers(n)
         /\ \A p \in peer_connections[n] : Stage(n, p) = "queued"
         /\ \A i \in 1..Len(Source(n)), y \in Servers : y = Source(n)[i] =>
              /\ y \in Peers(n) \ peer_connections[n]
              /\ Stage(n, y) = "queued"
              /\ \A j \in 1..Len(Source(n)) : y = Source(n)[j] => i = j
  BY DEF SetupInv, PeerInv, HandedOver

LEMMA StreamsUnchanged ==
  ASSUME SetupInv, UNCHANGED <<connector, handler>>
  PROVE  StreamsKept
  BY DEF SetupInv, PeerInv, BothEnds, NothingLost, Stage, StreamsKept

LEMMA ConnectorMoves ==
  ASSUME SetupInv, NEW n \in Servers, NEW p \in Lower(n), NEW v \in ConnectorStage,
         ConnectorTo(n, p, v), UNCHANGED handler,
         v \notin {"connecting", "lost"}, connector[n][p] \notin {"connecting", "queued"}
  PROVE  StreamsKept
<1>1. /\ connector'[n][p] = v
      /\ \A m \in Servers : \A q \in Lower(m) : m # n \/ q # p =>
           connector'[m][q] = connector[m][q]
  <2>1. SetupTypeOK
    BY DEF SetupInv
  <2> QED BY <2>1, ConnectorType
<1>2. BothEnds'
  BY <1>1 DEF SetupInv, PeerInv, BothEnds
<1>3. ASSUME NEW m \in Servers, NEW q \in Peers(m)
      PROVE  Stage(m, q)' # "lost" /\ (Stage(m, q) = "queued" => Stage(m, q)' = "queued")
  BY <1>1 DEF SetupInv, PeerInv, NothingLost, Stage
<1> QED BY <1>2, <1>3 DEF StreamsKept

LEMMA HandlerMoves ==
  ASSUME SetupInv, NEW n \in Servers, NEW x \in Incoming(n), NEW v \in HandlerStage,
         HandlerTo(n, x, v), UNCHANGED connector,
         x \in Servers =>
           v \notin {"none", "lost"} /\ handler[n][x] \notin {"none", "queued"}
  PROVE  StreamsKept
<1>1. /\ handler'[n][x] = v
      /\ \A m \in Servers : \A q \in Incoming(m) : m # n \/ q # x =>
           handler'[m][q] = handler[m][q]
  <2>1. SetupTypeOK
    BY DEF SetupInv
  <2> QED BY <2>1, HandlerType
<1>2. BothEnds'
  <2>1. ASSUME NEW m \in Servers, NEW q \in Lower(m)
        PROVE  /\ q \in Servers /\ m \in Incoming(q)
               /\ connector[m][q] = "connecting" <=> handler'[q][m] = "none"
    <3>1. q \in Servers /\ m \in Incoming(q)
      BY Neighbours
    <3> QED BY <1>1, <3>1 DEF SetupInv, PeerInv, BothEnds
  <2> QED BY <2>1 DEF BothEnds
<1>3. ASSUME NEW m \in Servers, NEW q \in Peers(m)
      PROVE  Stage(m, q)' # "lost" /\ (Stage(m, q) = "queued" => Stage(m, q)' = "queued")
  <2>1. q \in Servers /\ (q \in Lower(m) \/ (q \notin Lower(m) /\ q \in Incoming(m)))
    BY Neighbours DEF Peers
  <2> QED BY <1>1, <2>1 DEF SetupInv, PeerInv, NothingLost, Stage
<1> QED BY <1>2, <1>3 DEF StreamsKept

LEMMA PeerFrame ==
  ASSUME SetupInv, UNCHANGED <<connection_source, peer_connections, running>>,
         \A n \in Servers : running[n] => listening'[n] = listening[n],
         StreamsKept
  PROVE  PeerInv'
<1>1. HandedOver'
  BY DEF SetupInv, PeerInv, HandedOver, StreamsKept, Source
<1>2. Complete'
  BY DEF SetupInv, PeerInv, Complete, Source
<1> QED BY <1>1, <1>2 DEF StreamsKept, PeerInv, NothingLost

(* A connection is handed over.                                            *)
LEMMA PeerHandOver ==
  ASSUME SetupInv, StreamsKept, NEW n \in Servers, NEW x \in Servers \cup Clients,
         connection_source' = IF running[n] THEN connection_source
                              ELSE [connection_source EXCEPT ![n] = Append(@, x)],
         UNCHANGED <<peer_connections, running, listening>>,
         x \in Servers =>
           x \in Peers(n) /\ Stage(n, x) # "queued" /\ Stage(n, x)' = "queued"
  PROVE  PeerInv'
<1>1. CASE running[n]
  BY <1>1, PeerFrame
<1>2. CASE ~running[n]
  <2>1. /\ connection_source' = [connection_source EXCEPT ![n] = Append(Source(n), x)]
        /\ connection_source \in [Servers -> Seq(Servers \cup Clients)]
    BY <1>2 DEF SetupInv, SetupTypeOK, Source
  <2>2. /\ \A m \in Servers \ {n} : Source(m)' = Source(m)
        /\ Source(n)' = Append(Source(n), x)
        /\ Source(n) \in Seq(Servers \cup Clients)
    BY <2>1 DEF Source
  <2>3. /\ Len(Source(n)) \in Nat /\ Len(Source(n)') = Len(Source(n)) + 1
        /\ \A i \in 1..Len(Source(n)) : Source(n)'[i] = Source(n)[i]
        /\ Source(n)'[Len(Source(n)) + 1] = x
    BY <2>2
  <2>4. ASSUME NEW i \in 1..Len(Source(n)')
        PROVE  i \in 1..Len(Source(n)) \/ i = Len(Source(n)) + 1
    BY <2>3
  <2>5. ASSUME NEW i \in 1..Len(Source(n)), Source(n)[i] \in Servers
        PROVE  /\ Source(n)[i] \in Peers(n) \ peer_connections[n]
               /\ Stage(n, Source(n)[i]) = "queued"
               /\ \A j \in 1..Len(Source(n)) : Source(n)[i] = Source(n)[j] => i = j
    BY <2>5 DEF SetupInv, PeerInv, HandedOver
  <2>6. ASSUME x \in Servers
        PROVE  x \notin peer_connections[n] /\ \A i \in 1..Len(Source(n)) : Source(n)[i] # x
    BY <2>5, <2>6 DEF SetupInv, PeerInv, HandedOver
  <2>7. ASSUME NEW i \in 1..Len(Source(n)'), NEW y \in Servers, y = Source(n)'[i]
        PROVE  /\ y \in Peers(n) \ peer_connections[n]
               /\ Stage(n, y)' = "queued"
               /\ \A j \in 1..Len(Source(n)') : y = Source(n)'[j] => i = j
    BY <2>3, <2>4, <2>5, <2>6, <2>7 DEF StreamsKept
  <2>8. HandedOver'
    BY <2>2, <2>7 DEF SetupInv, PeerInv, HandedOver, StreamsKept
  <2>9. Complete'
    BY <1>2, <2>2 DEF SetupInv, PeerInv, Complete
  <2> QED BY <2>8, <2>9 DEF StreamsKept, PeerInv, NothingLost
<1> QED BY <1>1, <1>2

(* Receiving a connection changes no stage of a stream between servers,    *)
(* even when it ends Network::new; a client may lose its connection then.  *)
LEMMA ReceiveStages ==
  ASSUME SetupInv, NEW n \in Servers, Receive(n)
  PROVE  /\ DOMAIN connector' = Servers /\ DOMAIN handler' = Servers
         /\ \A m \in Servers : connector'[m] \in [Lower(m) -> ConnectorStage]
         /\ \A m \in Servers : handler'[m] \in [Incoming(m) -> HandlerStage]
         /\ \A m \in Servers : \A p \in Lower(m) : connector'[m][p] = connector[m][p]
         /\ \A m \in Servers : \A p \in Higher(m) : handler'[m][p] = handler[m][p]
         /\ \A m \in Servers : \A c \in Local(m) :
              \/ handler'[m][c] = handler[m][c]
              \/ m = n /\ handler'[m][c] = "lost" /\ handler[m][c] # "none"
<1>1. /\ Source(n) # << >>
      /\ handler' = [handler EXCEPT ![n] = [y \in Incoming(n) |->
           IF Ends(n) /\ (y \in Left(n) \/ handler[n][y] = "backlog")
           THEN "lost" ELSE handler[n][y]]]
      /\ connector' = [connector EXCEPT ![n] = [p \in Lower(n) |->
           IF Ends(n) /\ p \in Left(n) THEN "lost" ELSE connector[n][p]]]
  BY ReceiveEffect
<1>2. /\ DOMAIN connector = Servers /\ DOMAIN handler = Servers
      /\ \A m \in Servers : connector[m] \in [Lower(m) -> ConnectorStage]
      /\ \A m \in Servers : handler[m] \in [Incoming(m) -> HandlerStage]
      /\ Source(n) \in Seq(Servers \cup Clients)
  BY DEF SetupInv, SetupTypeOK, Source
<1>3. /\ \A m \in Servers \ {n} : handler'[m] = handler[m] /\ connector'[m] = connector[m]
      /\ \A y \in Incoming(n) : handler'[n][y] =
           IF Ends(n) /\ (y \in Left(n) \/ handler[n][y] = "backlog")
           THEN "lost" ELSE handler[n][y]
      /\ \A p \in Lower(n) : connector'[n][p] =
           IF Ends(n) /\ p \in Left(n) THEN "lost" ELSE connector[n][p]
      /\ DOMAIN connector' = Servers /\ DOMAIN handler' = Servers
      /\ \A m \in Servers : connector'[m] \in [Lower(m) -> ConnectorStage]
      /\ \A m \in Servers : handler'[m] \in [Incoming(m) -> HandlerStage]
  BY <1>1, <1>2 DEF ConnectorStage, HandlerStage
<1>4. Len(Source(n)) \in Nat /\ 1 \in 1..Len(Source(n)) /\ Received(n) = Source(n)[1]
  BY <1>1, <1>2 DEF Received
<1>5. \A y \in Left(n) : \E i \in 1..Len(Source(n)) : i # 1 /\ y = Source(n)[i]
  BY <1>4 DEF Left
<1>6. ASSUME Ends(n), NEW p \in Peers(n) PROVE p \notin Left(n) /\ Stage(n, p) = "queued"
  <2>1. p \in peer_connections[n] \/ (p = Received(n))
    BY <1>1, <1>6 DEF Ends, EverythingConnected, NewPeers
  <2>4. p \in Servers
    BY DEF Peers
  <2>2. CASE p \in peer_connections[n]
    BY <1>5, <2>2, <2>4, HandedOverAt
  <2>3. CASE p = Received(n)
    BY <1>4, <1>5, <2>3, <2>4, HandedOverAt
  <2> QED BY <2>1, <2>2, <2>3
<1>7. /\ \A p \in Lower(n) : connector'[n][p] = connector[n][p]
      /\ \A p \in Higher(n) : handler'[n][p] = handler[n][p]
  <2>1. /\ \A p \in Lower(n) : p \in Peers(n) /\ Stage(n, p) = connector[n][p]
        /\ \A p \in Higher(n) : p \in Peers(n) /\ p \in Incoming(n) /\ Stage(n, p) = handler[n][p]
    BY Neighbours DEF Stage
  <2> QED BY <1>3, <1>6, <2>1
<1>8. ASSUME NEW c \in Local(n)
      PROVE  handler'[n][c] = handler[n][c] \/ (handler'[n][c] = "lost" /\ handler[n][c] # "none")
  <2>1. c \in Incoming(n) /\ c \in Clients
    BY Neighbours
  <2>2. c \in Left(n) => handler[n][c] # "none"
    <3>1. \A i \in 1..Len(Source(n)) : c = Source(n)[i] => HasId(n, c)
      BY <2>1 DEF SetupInv, ClientInv, IdsInUse
    <3> QED BY <1>5, <3>1 DEF HasId, Named, Unnamed
  <2> QED BY <1>3, <2>1, <2>2
<1> QED BY <1>3, <1>7, <1>8

LEMMA PeerReceive ==
  ASSUME SetupInv, NEW n \in Servers, Receive(n)
  PROVE  PeerInv'
<1>1. \A m \in Servers : \A p \in Peers(m) : Stage(m, p)' = Stage(m, p)
  BY ReceiveStages, Neighbours DEF Stage
<1>2. BothEnds'
  <2>1. ASSUME NEW m \in Servers, NEW q \in Lower(m)
        PROVE  connector'[m][q] = connector[m][q] /\ handler'[q][m] = handler[q][m]
    BY ReceiveStages, Neighbours
  <2> QED BY <2>1 DEF SetupInv, PeerInv, BothEnds
<1>3. NothingLost'
  BY <1>1 DEF SetupInv, PeerInv, NothingLost
<1>4. /\ Source(n) # << >> /\ ~running[n]
      /\ peer_connections' = [peer_connections EXCEPT ![n] = NewPeers(n)]
      /\ running' = [running EXCEPT ![n] = Ends(n)]
      /\ listening' = IF Ends(n) THEN [listening EXCEPT ![n] = "aborted"] ELSE listening
      /\ connection_source' = [connection_source EXCEPT
           ![n] = IF Ends(n) THEN << >> ELSE Tail(Source(n))]
  BY ReceiveEffect
<1>5. /\ connection_source \in [Servers -> Seq(Servers \cup Clients)]
      /\ peer_connections \in [Servers -> SUBSET Servers]
      /\ running \in [Servers -> BOOLEAN]
      /\ listening \in [Servers -> {"unbound", "bound", "aborted"}]
      /\ Source(n) \in Seq(Servers \cup Clients)
  BY DEF SetupInv, SetupTypeOK, Source
<1>6. /\ \A m \in Servers \ {n} :
           /\ Source(m)' = Source(m) /\ peer_connections'[m] = peer_connections[m]
           /\ running'[m] <=> running[m]
           /\ listening'[m] = listening[m]
      /\ Source(n)' = IF Ends(n) THEN << >> ELSE Tail(Source(n))
      /\ peer_connections'[n] = NewPeers(n)
      /\ running'[n] <=> Ends(n)
      /\ Ends(n) => listening'[n] = "aborted"
  BY <1>4, <1>5 DEF Source
<1>7. /\ Len(Source(n)) \in Nat /\ 1 \in 1..Len(Source(n)) /\ Received(n) = Source(n)[1]
      /\ Len(Tail(Source(n))) = Len(Source(n)) - 1
      /\ \A i \in 1..(Len(Source(n)) - 1) :
           i + 1 \in 1..Len(Source(n)) /\ Tail(Source(n))[i] = Source(n)[i + 1]
  BY <1>4, <1>5 DEF Received
<1>8. Complete'
  <2>1. Ends(n) => NewPeers(n) = Peers(n)
    BY DEF Ends, EverythingConnected
  <2> QED BY <1>6, <2>1 DEF SetupInv, PeerInv, Complete
<1>9. HandedOver'
  <2>1. /\ NewPeers(n) \subseteq Peers(n)
        /\ \A p \in NewPeers(n) : Stage(n, p) = "queued"
    BY <1>7, HandedOverAt DEF NewPeers
  <2>2. ASSUME NEW i \in 1..Len(Source(n)'), NEW y \in Servers, y = Source(n)'[i]
        PROVE  /\ y \in Peers(n) \ NewPeers(n) /\ Stage(n, y) = "queued"
               /\ \A j \in 1..Len(Source(n)') : y = Source(n)'[j] => i = j
    <3>1. ~Ends(n) /\ Source(n)' = Tail(Source(n)) /\ i \in 1..(Len(Source(n)) - 1)
      BY <1>6, <1>7
    <3>2. /\ i + 1 \in 1..Len(Source(n)) /\ y = Source(n)[i + 1] /\ i + 1 # 1
      BY <1>7, <2>2, <3>1
    <3>3. /\ y \in Peers(n) \ peer_connections[n] /\ Stage(n, y) = "queued"
          /\ \A j \in 1..Len(Source(n)) : y = Source(n)[j] => i + 1 = j
      BY <3>2, HandedOverAt
    <3>4. y # Received(n)
      BY <1>7, <3>2, <3>3
    <3>5. \A j \in 1..Len(Source(n)') : y = Source(n)'[j] => i = j
      BY <1>7, <3>1, <3>3
    <3> QED BY <3>3, <3>4, <3>5 DEF NewPeers
  <2>3. ASSUME NEW m \in Servers
        PROVE  peer_connections'[m] \subseteq Peers(m)
    BY <1>6, <2>1, HandedOverAt
  <2>4. ASSUME NEW m \in Servers, NEW p \in peer_connections'[m]
        PROVE  Stage(m, p)' = "queued"
    <3>1. p \in Peers(m) /\ Stage(m, p) = "queued"
      BY <1>6, <2>1, HandedOverAt
    <3> QED BY <1>1, <3>1
  <2>5. ASSUME NEW m \in Servers, NEW i \in 1..Len(Source(m)'), NEW y \in Servers,
               y = Source(m)'[i]
        PROVE  /\ y \in Peers(m) \ peer_connections'[m]
               /\ Stage(m, y)' = "queued"
               /\ \A j \in 1..Len(Source(m)') : y = Source(m)'[j] => i = j
    <3>1. CASE m = n
      <4>1. /\ y \in Peers(n) \ NewPeers(n) /\ Stage(n, y) = "queued"
            /\ \A j \in 1..Len(Source(n)') : y = Source(n)'[j] => i = j
        BY <2>2, <2>5, <3>1
      <4> QED BY <1>1, <1>6, <3>1, <4>1
    <3>2. CASE m # n
      <4>1. Source(m)' = Source(m) /\ peer_connections'[m] = peer_connections[m]
        BY <1>6, <3>2
      <4>2. /\ y \in Peers(m) \ peer_connections[m] /\ Stage(m, y) = "queued"
            /\ \A j \in 1..Len(Source(m)) : y = Source(m)[j] => i = j
        BY <2>5, <4>1, HandedOverAt
      <4> QED BY <1>1, <4>1, <4>2
    <3> QED BY <3>1, <3>2
  <2> QED BY <2>3, <2>4, <2>5 DEF HandedOver
<1> QED BY <1>2, <1>3, <1>8, <1>9 DEF PeerInv

-----------------------------------------------------------------------------
(* Clients.                                                                *)

(* Ids stay as long as those who have them keep them and no client comes   *)
(* into the channel without one.                                           *)
LEMMA IdsKept ==
  ASSUME SetupInv,
         UNCHANGED <<client_connections, running>>,
         \A m \in Servers : max_client_id'[m] <= Cardinality(Named(m)'),
         \A m \in Servers : \A d \in Clients :
           HasId(m, d) => HasId(m, d)' /\ client_id'[d] = client_id[d],
         \A m \in Servers : \A c \in Local(m) :
           handler'[m][c] \in {"identified", "queued"} =>
             handler[m][c] \in {"identified", "queued"} \/ HasId(m, c)',
         \A m \in Servers, y \in Clients :
           (\E i \in 1..Len(Source(m)') : y = Source(m)'[i]) =>
             HasId(m, y) \/ HasId(m, y)'
  PROVE  IdsInUse'
<1>1. ASSUME NEW m \in Servers, NEW c \in Local(m), handler'[m][c] \in {"identified", "queued"}
      PROVE  HasId(m, c)'
  <2>1. c \in Clients
    BY Neighbours
  <2> QED BY <1>1, <2>1 DEF SetupInv, ClientInv, IdsInUse
<1>2. ASSUME NEW m \in Servers, NEW i \in 1..Len(Source(m)'), NEW y \in Clients, y = Source(m)'[i]
      PROVE  HasId(m, y)'
  BY <1>2
<1>3. ASSUME NEW m \in Servers, NEW i \in ClientIds, NEW y, y = client_connections'[m][i],
             y # NoClient
      PROVE  HasId(m, y)' /\ client_id'[y] = i
  <2>1. HasId(m, y) /\ client_id[y] = i
    BY <1>3 DEF SetupInv, ClientInv, IdsInUse
  <2>2. y \in Clients
    BY <2>1 DEF HasId, Named, Unnamed, Local
  <2> QED BY <2>1, <2>2
<1>4. ASSUME NEW m \in Servers, running'[m]
      PROVE  Cardinality({i \in ClientIds : client_connections'[m][i] # NoClient}) >= NumClients[m]
  BY <1>4 DEF SetupInv, ClientInv, IdsInUse
<1> QED BY <1>1, <1>2, <1>3, <1>4 DEF IdsInUse

(* Nobody is given an id, and nobody who has one goes back to having none. *)
LEMMA NamesGrow ==
  ASSUME SetupInv, UNCHANGED <<client_id, max_client_id>>,
         \A m \in Servers : \A c \in Local(m) :
           handler[m][c] \notin Unnamed => handler'[m][c] \notin Unnamed
  PROVE  \A m \in Servers :
           /\ max_client_id'[m] <= Cardinality(Named(m)')
           /\ \A c \in Clients : HasId(m, c) => HasId(m, c)'
<1> SUFFICES ASSUME NEW m \in Servers
             PROVE  /\ max_client_id'[m] <= Cardinality(Named(m)')
                    /\ \A c \in Clients : HasId(m, c) => HasId(m, c)'
  OBVIOUS
<1>1. Named(m) \subseteq Named(m)' /\ Named(m)' \in SUBSET Clients
  BY Neighbours DEF Named, Unnamed
<1>2. IsFiniteSet(Named(m)')
  BY <1>1, FS_Subset, SetupAssumption
<1>3. /\ Cardinality(Named(m)) <= Cardinality(Named(m)')
      /\ Cardinality(Named(m)) \in Nat /\ Cardinality(Named(m)') \in Nat
  BY <1>1, <1>2, FS_Subset, FS_CardinalityType
<1>4. max_client_id[m] \in Nat /\ max_client_id[m] <= Cardinality(Named(m))
  BY DEF SetupInv, SetupTypeOK, ClientInv, IdsInUse
<1> QED BY <1>1, <1>3, <1>4 DEF HasId

(* The set of clients connected to a server is as before.                  *)
LEMMA ConnectedKept ==
  ASSUME SetupInv,
         \A m \in Servers : \A c \in Local(m) :
           handler'[m][c] = "none" <=> handler[m][c] = "none"
  PROVE  OneServer'
<1>1. \A m \in Servers : Connected(m)' = Connected(m)
  BY DEF Connected
<1> QED BY <1>1 DEF SetupInv, ClientInv, OneServer

LEMMA SourceIds ==
  ASSUME SetupInv, NEW n \in Servers, NEW i \in 1..Len(Source(n)),
         NEW y \in Clients, y = Source(n)[i]
  PROVE  HasId(n, y)
  BY DEF SetupInv, ClientInv, IdsInUse

(* Steps of other tasks than handle_incoming_connection's registration of  *)
(* a client, of clients that connect, and of initialize_connections.       *)
LEMMA ClientFrame ==
  ASSUME SetupInv,
         UNCHANGED <<client_id, max_client_id, client_connections, running, connection_source>>,
         \A m \in Servers : \A c \in Local(m) :
           \/ handler'[m][c] = handler[m][c]
           \/ handler[m][c] \in {"backlog", "accepted"} /\ handler'[m][c] \in {"accepted", "failed"}
  PROVE  ClientInv'
<1>1. /\ \A m \in Servers : max_client_id'[m] <= Cardinality(Named(m)')
      /\ \A m \in Servers : \A c \in Clients : HasId(m, c) => HasId(m, c)'
  <2>1. \A m \in Servers : \A c \in Local(m) :
          handler[m][c] \notin Unnamed => handler'[m][c] \notin Unnamed
    BY DEF Unnamed
  <2> QED BY <2>1, NamesGrow
<1>2. \A m \in Servers, y \in Clients :
        (\E i \in 1..Len(Source(m)') : y = Source(m)'[i]) => HasId(m, y)
  <2>1. \A m \in Servers : Source(m)' = Source(m)
    BY DEF Source
  <2> QED BY <2>1, SourceIds
<1>3. IdsInUse'
  <2>1. \A m \in Servers : \A c \in Local(m) :
          handler'[m][c] \in {"identified", "queued"} => handler[m][c] \in {"identified", "queued"}
    OBVIOUS
  <2> QED BY <1>1, <1>2, <2>1, IdsKept
<1>4. OneServer'
  <2>1. \A m \in Servers : \A c \in Local(m) :
          handler'[m][c] = "none" <=> handler[m][c] = "none"
    OBVIOUS
  <2> QED BY <2>1, ConnectedKept
<1> QED BY <1>3, <1>4 DEF ClientInv

(* A connection is handed over; a client that is handed over has its id.   *)
LEMMA ClientHandOver ==
  ASSUME SetupInv, NEW n \in Servers, NEW x \in Servers \cup Clients,
         connection_source' = IF running[n] THEN connection_source
                              ELSE [connection_source EXCEPT ![n] = Append(@, x)],
         UNCHANGED <<client_id, max_client_id, client_connections, running>>,
         x \in Clients => HasId(n, x),
         \A m \in Servers : \A c \in Local(m) :
           \/ handler'[m][c] = handler[m][c]
           \/ handler[m][c] = "identified" /\ handler'[m][c] \in {"queued", "lost"}
  PROVE  ClientInv'
<1>1. /\ \A m \in Servers : max_client_id'[m] <= Cardinality(Named(m)')
      /\ \A m \in Servers : \A c \in Clients : HasId(m, c) => HasId(m, c)'
  <2>1. \A m \in Servers : \A c \in Local(m) :
           handler[m][c] \notin Unnamed => handler'[m][c] \notin Unnamed
    BY DEF Unnamed
  <2> QED BY <2>1, NamesGrow
<1>2. ASSUME NEW m \in Servers, NEW y \in Clients, NEW i \in 1..Len(Source(m)'),
             y = Source(m)'[i]
      PROVE  HasId(m, y)
  <2>1. connection_source \in [Servers -> Seq(Servers \cup Clients)]
    BY DEF SetupInv, SetupTypeOK
  <2>2. CASE Source(m)' = Source(m)
    BY <1>2, <2>2, SourceIds
  <2>3. CASE Source(m)' # Source(m)
    <3>1. m = n /\ Source(m)' = Append(Source(m), x) /\ Source(m) \in Seq(Servers \cup Clients)
      BY <2>1, <2>3 DEF Source
    <3>2. y = x \/ (i \in 1..Len(Source(m)) /\ y = Source(m)[i])
      BY <1>2, <3>1
    <3> QED BY <3>1, <3>2, SourceIds
  <2> QED BY <2>2, <2>3
<1>3. IdsInUse'
  <2>1. \A m \in Servers : \A c \in Local(m) :
          handler'[m][c] \in {"identified", "queued"} => handler[m][c] \in {"identified", "queued"}
    OBVIOUS
  <2> QED BY <1>1, <1>2, <2>1, IdsKept
<1>4. OneServer'
  <2>1. \A m \in Servers : \A c \in Local(m) :
          handler'[m][c] = "none" <=> handler[m][c] = "none"
    OBVIOUS
  <2> QED BY <2>1, ConnectedKept
<1> QED BY <1>3, <1>4 DEF ClientInv

(* A client that has no connection opens one.                              *)
LEMMA ClientOpens ==
  ASSUME SetupInv, NEW n \in Servers, NEW c \in Local(n), ClientConnect(c, n)
  PROVE  ClientInv'
<1>1. /\ HandlerTo(n, c, "backlog") /\ \A m \in Servers : c \in Local(m) => handler[m][c] = "none"
      /\ UNCHANGED <<client_id, max_client_id, client_connections, running, connection_source>>
  BY DEF ClientConnect, Trying, HandlerTo, clientVars, networkVars
<1>2. /\ handler'[n][c] = "backlog"
      /\ \A m \in Servers : \A d \in Local(m) : m # n \/ d # c => handler'[m][d] = handler[m][d]
  <2>1. SetupTypeOK /\ c \in Incoming(n) /\ "backlog" \in HandlerStage
    BY Neighbours DEF SetupInv, HandlerStage
  <2>2. \A m \in Servers : \A d \in Local(m) : d \in Incoming(m)
    BY Neighbours
  <2> QED BY <1>1, <2>1, <2>2, HandlerType
<1>3. \A m \in Servers : \A d \in Local(m) :
        \/ handler'[m][d] = handler[m][d]
        \/ handler[m][d] = "none" /\ handler'[m][d] = "backlog"
  BY <1>1, <1>2
<1>4. /\ \A m \in Servers : max_client_id'[m] <= Cardinality(Named(m)')
      /\ \A m \in Servers : \A d \in Clients : HasId(m, d) => HasId(m, d)'
  <2>1. \A m \in Servers : \A d \in Local(m) :
          handler[m][d] \notin Unnamed => handler'[m][d] \notin Unnamed
    BY <1>3 DEF Unnamed
  <2> QED BY <1>1, <2>1, NamesGrow
<1>5. IdsInUse'
  <2>1. \A m \in Servers : \A d \in Local(m) :
          handler'[m][d] \in {"identified", "queued"} => handler[m][d] \in {"identified", "queued"}
    BY <1>3
  <2>2. \A m \in Servers, y \in Clients :
          (\E i \in 1..Len(Source(m)') : y = Source(m)'[i]) => HasId(m, y)
    <3>1. \A m \in Servers : Source(m)' = Source(m)
      BY <1>1 DEF Source
    <3> QED BY <3>1, SourceIds
  <2> QED BY <1>1, <1>4, <2>1, <2>2, IdsKept
<1>6. OneServer'
  <2>1. ASSUME NEW m \in Servers, NEW d \in Connected(m)'
        PROVE  (d # c /\ d \in Connected(m)) \/ (d = c /\ m = n)
    BY <1>1, <1>2 DEF Connected
  <2> QED BY <2>1 DEF SetupInv, ClientInv, OneServer
<1> QED BY <1>5, <1>6 DEF ClientInv

(* A client is given the next id: the counter and the number of clients    *)
(* with an id grow together.                                               *)
LEMMA ClientNamed ==
  ASSUME SetupInv, NEW n \in Servers, NEW c \in Local(n), IdentifyClient(n, c)
  PROVE  ClientInv'
<1>1. /\ HandlerTo(n, c, "identified") /\ handler[n][c] = "accepted"
      /\ max_client_id' = [max_client_id EXCEPT ![n] = max_client_id[n] + 1]
      /\ client_id' = [client_id EXCEPT ![c] = max_client_id[n] + 1]
      /\ UNCHANGED <<client_connections, running, connection_source>>
      /\ max_client_id \in [Servers -> Nat] /\ client_id \in [Clients -> Nat]
      /\ c \in Clients
  BY Neighbours DEF IdentifyClient, HandlerTo, networkVars, SetupInv, SetupTypeOK
<1>2. /\ handler'[n][c] = "identified"
      /\ \A m \in Servers : \A d \in Local(m) : m # n \/ d # c => handler'[m][d] = handler[m][d]
  <2>1. SetupTypeOK /\ c \in Incoming(n) /\ "identified" \in HandlerStage
    BY Neighbours DEF SetupInv, HandlerStage
  <2>2. \A m \in Servers : \A d \in Local(m) : d \in Incoming(m)
    BY Neighbours
  <2> QED BY <1>1, <2>1, <2>2, HandlerType
<1>3. /\ Named(n)' = Named(n) \cup {c} /\ c \notin Named(n)
      /\ \A m \in Servers \ {n} : Named(m)' = Named(m)
  BY <1>1, <1>2 DEF Named, Unnamed
<1>4. /\ max_client_id'[n] = max_client_id[n] + 1 /\ client_id'[c] = max_client_id[n] + 1
      /\ \A m \in Servers \ {n} : max_client_id'[m] = max_client_id[m]
      /\ \A d \in Clients \ {c} : client_id'[d] = client_id[d]
      /\ \A m \in Servers : max_client_id[m] \in Nat
  BY <1>1
<1>5. /\ Cardinality(Named(n)) \in Nat
      /\ Cardinality(Named(n)') = Cardinality(Named(n)) + 1
  <2>1. IsFiniteSet(Named(n))
    <3>1. Named(n) \in SUBSET Clients
      BY Neighbours DEF Named, Unnamed
    <3> QED BY <3>1, FS_Subset, SetupAssumption
  <2> QED BY <1>3, <2>1, FS_AddElement, FS_CardinalityType
<1>6. \A m \in Servers : max_client_id'[m] <= Cardinality(Named(m)')
  <2>1. \A m \in Servers : max_client_id[m] <= Cardinality(Named(m))
    BY DEF SetupInv, ClientInv, IdsInUse
  <2>2. max_client_id'[n] <= Cardinality(Named(n)')
    BY <1>4, <1>5, <2>1
  <2> QED BY <1>3, <1>4, <2>1, <2>2
<1>7. ASSUME NEW m \in Servers, NEW d \in Clients, HasId(m, d)
      PROVE  HasId(m, d)' /\ client_id'[d] = client_id[d]
  <2>1. d \in Named(m) /\ client_id[d] \in 1..max_client_id[m]
    BY <1>7 DEF HasId
  <2>2. d # c
    <3>1. c \in Connected(n) /\ d \in Connected(m)
      BY <1>1, <2>1 DEF Connected, Named, Unnamed
    <3> QED BY <1>3, <2>1, <3>1 DEF SetupInv, ClientInv, OneServer
  <2>3. client_id'[d] = client_id[d] /\ d \in Named(m)'
    BY <1>3, <1>4, <2>1, <2>2
  <2>4. client_id'[d] \in 1..max_client_id'[m]
    BY <1>4, <2>1, <2>3
  <2> QED BY <2>3, <2>4 DEF HasId
<1>8. HasId(n, c)'
  BY <1>3, <1>4 DEF HasId
<1>9. IdsInUse'
  <2>1. \A m \in Servers : \A d \in Local(m) :
          handler'[m][d] \in {"identified", "queued"} =>
            handler[m][d] \in {"identified", "queued"} \/ HasId(m, d)'
    BY <1>2, <1>8
  <2>2. \A m \in Servers, y \in Clients :
          (\E i \in 1..Len(Source(m)') : y = Source(m)'[i]) => HasId(m, y)
    <3>1. \A m \in Servers : Source(m)' = Source(m)
      BY <1>1 DEF Source
    <3> QED BY <3>1, SourceIds
  <2> QED BY <1>1, <1>6, <1>7, <2>1, <2>2, IdsKept
<1>10. OneServer'
  <2>1. \A m \in Servers : \A d \in Local(m) :
          handler'[m][d] = "none" <=> handler[m][d] = "none"
    BY <1>1, <1>2
  <2> QED BY <2>1, ConnectedKept
<1> QED BY <1>9, <1>10 DEF ClientInv

(* initialize_connections installs a client under its id.                  *)
LEMMA ReceiveTables ==
  ASSUME SetupInv, NEW n \in Servers, Receive(n)
  PROVE  /\ \A i \in 1..Len(Source(n)') : \E j \in 1..Len(Source(n)) :
              Source(n)'[i] = Source(n)[j]
         /\ Source(n)' \in Seq(Servers \cup Clients)
         /\ \A m \in Servers \ {n} : Source(m)' = Source(m)
         /\ \A i \in ClientIds :
              \/ NewClients(n)[i] = client_connections[n][i]
              \/ /\ NewClients(n)[i] = Received(n) /\ HasId(n, Received(n))
                 /\ client_id[Received(n)] = i
         /\ NewClients(n) \in [ClientIds -> Clients \cup {NoClient}]
<1>1. /\ Source(n) # << >>
      /\ connection_source' = [connection_source EXCEPT
           ![n] = IF Ends(n) THEN << >> ELSE Tail(Source(n))]
  BY ReceiveEffect
<1>2. /\ connection_source \in [Servers -> Seq(Servers \cup Clients)]
      /\ Source(n) \in Seq(Servers \cup Clients)
      /\ client_connections[n] \in [ClientIds -> Clients \cup {NoClient}]
  BY DEF SetupInv, SetupTypeOK, Source
<1>3. /\ \A m \in Servers \ {n} : Source(m)' = Source(m)
      /\ Source(n)' = IF Ends(n) THEN << >> ELSE Tail(Source(n))
  BY <1>1, <1>2 DEF Source
<1>4. /\ Len(Source(n)) \in Nat /\ 1 \in 1..Len(Source(n)) /\ Received(n) = Source(n)[1]
      /\ Tail(Source(n)) \in Seq(Servers \cup Clients)
      /\ \A i \in 1..Len(Tail(Source(n))) :
           i + 1 \in 1..Len(Source(n)) /\ Tail(Source(n))[i] = Source(n)[i + 1]
  BY <1>1, <1>2 DEF Received
<1>5. /\ \A i \in 1..Len(Source(n)') : \E j \in 1..Len(Source(n)) : Source(n)'[i] = Source(n)[j]
      /\ Source(n)' \in Seq(Servers \cup Clients)
  <2>1. CASE Ends(n)
    BY <1>3, <2>1
  <2>2. CASE ~Ends(n)
    BY <1>3, <1>4, <2>2
  <2> QED BY <2>1, <2>2
<1>6. CASE Received(n) \notin Clients
  BY <1>2, <1>3, <1>5, <1>6 DEF NewClients
<1>7. CASE Received(n) \in Clients
  <2>1. HasId(n, Received(n))
    BY <1>4, <1>7, SourceIds
  <2>2. client_id[Received(n)] \in ClientIds
    BY <2>1, IdsFit
  <2>3. NewClients(n) = [client_connections[n] EXCEPT ![client_id[Received(n)]] = Received(n)]
    BY <1>7 DEF NewClients
  <2>4. /\ NewClients(n) \in [ClientIds -> Clients \cup {NoClient}]
        /\ \A i \in ClientIds : NewClients(n)[i] = client_connections[n][i]
             \/ (NewClients(n)[i] = Received(n) /\ client_id[Received(n)] = i)
    BY <1>2, <1>7, <2>2, <2>3
  <2> QED BY <1>3, <1>5, <2>1, <2>4
<1> QED BY <1>6, <1>7

LEMMA ClientReceive ==
  ASSUME SetupInv, NEW n \in Servers, Receive(n)
  PROVE  ClientInv'
<1>1. /\ client_connections' = [client_connections EXCEPT ![n] = NewClients(n)]
      /\ running' = [running EXCEPT ![n] = Ends(n)]
      /\ UNCHANGED <<max_client_id, client_id>>
      /\ client_connections \in [Servers -> [ClientIds -> Clients \cup {NoClient}]]
      /\ running \in [Servers -> BOOLEAN]
  BY ReceiveEffect DEF SetupInv, SetupTypeOK
<1>2. /\ client_connections'[n] = NewClients(n)
      /\ \A m \in Servers \ {n} : client_connections'[m] = client_connections[m]
      /\ running'[n] <=> Ends(n)
      /\ \A m \in Servers \ {n} : running'[m] <=> running[m]
  BY <1>1
<1>3. \A m \in Servers : \A c \in Local(m) :
        \/ handler'[m][c] = handler[m][c]
        \/ handler'[m][c] = "lost" /\ handler[m][c] # "none"
  BY ReceiveStages
<1>4. OneServer'
  <2>1. \A m \in Servers : \A d \in Local(m) :
          handler'[m][d] = "none" <=> handler[m][d] = "none"
    BY <1>3
  <2> QED BY <2>1, ConnectedKept
<1>5. /\ \A m \in Servers : max_client_id'[m] <= Cardinality(Named(m)')
      /\ \A m \in Servers : \A d \in Clients : HasId(m, d) => HasId(m, d)'
  <2>1. \A m \in Servers : \A d \in Local(m) :
          handler[m][d] \notin Unnamed => handler'[m][d] \notin Unnamed
    BY <1>3 DEF Unnamed
  <2> QED BY <1>1, <2>1, NamesGrow
<1>6. ASSUME NEW m \in Servers, NEW c \in Local(m), handler'[m][c] \in {"identified", "queued"}
      PROVE  HasId(m, c)'
  <2>1. c \in Clients /\ handler[m][c] \in {"identified", "queued"}
    BY <1>3, <1>6, Neighbours
  <2> QED BY <1>5, <2>1 DEF SetupInv, ClientInv, IdsInUse
<1>7. ASSUME NEW m \in Servers, NEW i \in 1..Len(Source(m)'), NEW y \in Clients, y = Source(m)'[i]
      PROVE  HasId(m, y)'
  <2>1. PICK j \in 1..Len(Source(m)) : y = Source(m)[j]
    BY <1>7, ReceiveTables
  <2> QED BY <1>5, <2>1, SourceIds
<1>8. ASSUME NEW m \in Servers, NEW i \in ClientIds, NEW y, y = client_connections'[m][i],
             y # NoClient
      PROVE  HasId(m, y)' /\ client_id'[y] = i
  <2>1. HasId(m, y) /\ client_id[y] = i
    <3>1. y = client_connections[m][i] \/ (m = n /\ y = Received(n) /\ HasId(n, y) /\ client_id[y] = i)
      BY <1>2, <1>8, ReceiveTables
    <3> QED BY <1>8, <3>1 DEF SetupInv, ClientInv, IdsInUse
  <2>2. y \in Clients
    BY <2>1 DEF HasId, Named, Unnamed, Local
  <2> QED BY <1>1, <1>5, <2>1, <2>2
<1>9. ASSUME NEW m \in Servers, running'[m]
      PROVE  Cardinality({i \in ClientIds : client_connections'[m][i] # NoClient}) >= NumClients[m]
  <2>1. CASE m = n
    BY <1>2, <1>9, <2>1 DEF Ends, EverythingConnected
  <2>2. CASE m # n
    BY <1>2, <1>9, <2>2 DEF SetupInv, ClientInv, IdsInUse
  <2> QED BY <2>1, <2>2
<1>10. IdsInUse'
  BY <1>5, <1>6, <1>7, <1>8, <1>9 DEF IdsInUse
<1> QED BY <1>4, <1>10 DEF ClientInv

-----------------------------------------------------------------------------
(* The steps, one by one.                                                  *)

LEMMA BindStep ==
  ASSUME SetupInv, NEW n \in Servers, Bind(n)
  PROVE  SetupInv'
<1>1. /\ listening[n] = "unbound" /\ listening' = [listening EXCEPT ![n] = "bound"]
      /\ listening \in [Servers -> {"unbound", "bound", "aborted"}]
      /\ UNCHANGED <<connector, handler, max_client_id, client_id, connection_source,
                     peer_connections, client_connections, running>>
  BY DEF Bind, clientVars, networkVars, SetupInv, SetupTypeOK
<1>2. SetupTypeOK'
  BY <1>1 DEF SetupInv, SetupTypeOK
<1>3. PeerInv'
  <2>1. \A m \in Servers : running[m] => listening'[m] = listening[m]
    BY <1>1 DEF SetupInv, PeerInv, Complete
  <2> QED BY <1>1, <2>1, StreamsUnchanged, PeerFrame
<1>4. ClientInv'
  BY <1>1, ClientFrame
<1> QED BY <1>2, <1>3, <1>4 DEF SetupInv

(* ClientRefused and RegistrationFails: c goes on to another address.      *)
LEMMA AttemptStep ==
  ASSUME SetupInv, UNCHANGED <<listening, connector, handler, max_client_id, client_id, networkVars>>
  PROVE  SetupInv'
<1>1. UNCHANGED <<connection_source, peer_connections, client_connections, running>>
  BY DEF networkVars
<1>2. SetupTypeOK'
  BY <1>1 DEF SetupInv, SetupTypeOK
<1>3. PeerInv'
  BY <1>1, StreamsUnchanged, PeerFrame
<1>4. ClientInv'
  BY <1>1, ClientFrame
<1> QED BY <1>2, <1>3, <1>4 DEF SetupInv

(* A handler task moves on without handing over.                           *)
LEMMA HandlerSteps ==
  ASSUME SetupInv, NEW n \in Servers, NEW x \in Incoming(n), NEW v \in HandlerStage,
         HandlerTo(n, x, v), UNCHANGED <<listening, connector, clientVars, networkVars>>,
         v \notin {"none", "lost"}, handler[n][x] \notin {"none", "queued"},
         x \in Clients =>
           handler[n][x] \in {"backlog", "accepted"} /\ v \in {"accepted", "failed"}
  PROVE  SetupInv'
<1>1. UNCHANGED <<max_client_id, client_id, connection_source, peer_connections,
                  client_connections, running>>
  BY DEF clientVars, networkVars
<1>2. /\ DOMAIN handler' = Servers
      /\ \A m \in Servers : handler'[m] \in [Incoming(m) -> HandlerStage]
      /\ handler'[n][x] = v
      /\ \A m \in Servers : \A q \in Incoming(m) : m # n \/ q # x => handler'[m][q] = handler[m][q]
  <2>1. SetupTypeOK
    BY DEF SetupInv
  <2> QED BY <2>1, HandlerType
<1>3. SetupTypeOK'
  BY <1>1, <1>2 DEF SetupInv, SetupTypeOK
<1>4. PeerInv'
  BY <1>1, HandlerMoves, PeerFrame
<1>5. ClientInv'
  <2>1. ASSUME NEW m \in Servers, NEW c \in Local(m)
        PROVE  \/ handler'[m][c] = handler[m][c]
               \/ handler[m][c] \in {"backlog", "accepted"} /\ handler'[m][c] \in {"accepted", "failed"}
    <3>1. c \in Incoming(m) /\ c \in Clients
      BY Neighbours
    <3> QED BY <1>2, <3>1
  <2> QED BY <1>1, <2>1, ClientFrame
<1> QED BY <1>3, <1>4, <1>5 DEF SetupInv

LEMMA AcceptStep ==
  ASSUME SetupInv, NEW n \in Servers, NEW x \in Incoming(n), Accept(n, x)
  PROVE  SetupInv'
<1>1. /\ HandlerTo(n, x, "accepted") /\ "accepted" \in HandlerStage
      /\ handler[n][x] = "backlog"
      /\ UNCHANGED <<listening, connector, clientVars, networkVars>>
  BY DEF Accept, HandlerTo, HandlerStage
<1> QED BY <1>1, HandlerSteps

LEMMA RegistrationLostStep ==
  ASSUME SetupInv, NEW n \in Servers, NEW x \in Incoming(n), RegistrationLost(n, x)
  PROVE  SetupInv'
<1>1. /\ HandlerTo(n, x, "failed") /\ "failed" \in HandlerStage
      /\ handler[n][x] = "accepted"
      /\ UNCHANGED <<listening, connector, clientVars, networkVars>>
  BY DEF RegistrationLost, HandlerTo, HandlerStage
<1> QED BY <1>1, HandlerSteps

LEMMA IdentifyPeerStep ==
  ASSUME SetupInv, NEW n \in Servers, NEW p \in Higher(n),
         IdentifyPeer(n, p) \/ DropUnidentified(n, p)
  PROVE  SetupInv'
<1>1. p \in Incoming(n) /\ p \notin Clients
  BY Neighbours
<1>2. CASE IdentifyPeer(n, p)
  <2>1. /\ HandlerTo(n, p, "identified") /\ "identified" \in HandlerStage
        /\ handler[n][p] = "accepted"
        /\ UNCHANGED <<listening, connector, clientVars, networkVars>>
    BY <1>2 DEF IdentifyPeer, HandlerTo, HandlerStage
  <2> QED BY <1>1, <2>1, HandlerSteps
<1>3. CASE DropUnidentified(n, p)
  <2>1. /\ HandlerTo(n, p, "failed") /\ "failed" \in HandlerStage
        /\ handler[n][p] = "accepted"
        /\ UNCHANGED <<listening, connector, clientVars, networkVars>>
    BY <1>3 DEF DropUnidentified, HandlerTo, HandlerStage
  <2> QED BY <1>1, <2>1, HandlerSteps
<1> QED BY <1>2, <1>3

(* A connector task moves on without handing over.                         *)
LEMMA ConnectorSteps ==
  ASSUME SetupInv, NEW n \in Servers, NEW p \in Lower(n), NEW v \in ConnectorStage,
         ConnectorTo(n, p, v), UNCHANGED <<listening, handler, clientVars, networkVars>>,
         v \notin {"connecting", "lost"}, connector[n][p] = "connected"
  PROVE  SetupInv'
<1>1. UNCHANGED <<max_client_id, client_id, connection_source, peer_connections,
                  client_connections, running>>
  BY DEF clientVars, networkVars
<1>2. /\ DOMAIN connector' = Servers
      /\ \A m \in Servers : connector'[m] \in [Lower(m) -> ConnectorStage]
  <2>1. SetupTypeOK
    BY DEF SetupInv
  <2> QED BY <2>1, ConnectorType
<1>3. SetupTypeOK'
  BY <1>1, <1>2 DEF SetupInv, SetupTypeOK
<1>4. PeerInv'
  BY <1>1, ConnectorMoves, PeerFrame
<1>5. ClientInv'
  BY <1>1, ClientFrame
<1> QED BY <1>3, <1>4, <1>5 DEF SetupInv

LEMMA HandshakeStep ==
  ASSUME SetupInv, NEW n \in Servers, NEW p \in Lower(n),
         SendHandshake(n, p) \/ HandshakeFails(n, p)
  PROVE  SetupInv'
<1>1. CASE SendHandshake(n, p)
  <2>1. /\ ConnectorTo(n, p, "identified") /\ "identified" \in ConnectorStage
        /\ connector[n][p] = "connected"
        /\ UNCHANGED <<listening, handler, clientVars, networkVars>>
    BY <1>1 DEF SendHandshake, ConnectorTo, ConnectorStage
  <2> QED BY <2>1, ConnectorSteps
<1>2. CASE HandshakeFails(n, p)
  <2>1. /\ ConnectorTo(n, p, "failed") /\ "failed" \in ConnectorStage
        /\ connector[n][p] = "connected"
        /\ UNCHANGED <<listening, handler, clientVars, networkVars>>
    BY <1>2 DEF HandshakeFails, ConnectorTo, ConnectorStage
  <2> QED BY <2>1, ConnectorSteps
<1> QED BY <1>1, <1>2

(* A stream between servers begins, at both ends.                          *)
LEMMA ConnectStep ==
  ASSUME SetupInv, NEW n \in Servers, NEW p \in Lower(n), Connect(n, p)
  PROVE  SetupInv'
<1>1. /\ ConnectorTo(n, p, "connected") /\ "connected" \in ConnectorStage
      /\ HandlerTo(p, n, "backlog") /\ "backlog" \in HandlerStage
      /\ connector[n][p] = "connecting"
      /\ UNCHANGED <<listening, max_client_id, client_id, connection_source, peer_connections,
                     client_connections, running>>
  BY DEF Connect, ConnectorTo, HandlerTo, ConnectorStage, HandlerStage, clientVars, networkVars
<1>2. p \in Servers /\ n \in Incoming(p) /\ n \notin Clients /\ n \notin Lower(p)
  BY Neighbours
<1>3. /\ DOMAIN connector' = Servers
      /\ \A m \in Servers : connector'[m] \in [Lower(m) -> ConnectorStage]
      /\ connector'[n][p] = "connected"
      /\ \A m \in Servers : \A q \in Lower(m) : m # n \/ q # p => connector'[m][q] = connector[m][q]
  <2>1. SetupTypeOK
    BY DEF SetupInv
  <2> QED BY <1>1, <2>1, ConnectorType
<1>4. /\ DOMAIN handler' = Servers
      /\ \A m \in Servers : handler'[m] \in [Incoming(m) -> HandlerStage]
      /\ handler'[p][n] = "backlog"
      /\ \A m \in Servers : \A q \in Incoming(m) : m # p \/ q # n => handler'[m][q] = handler[m][q]
  <2>1. SetupTypeOK
    BY DEF SetupInv
  <2> QED BY <1>1, <1>2, <2>1, HandlerType
<1>5. SetupTypeOK'
  BY <1>1, <1>3, <1>4 DEF SetupInv, SetupTypeOK
<1>6. BothEnds'
  <2>1. ASSUME NEW m \in Servers, NEW q \in Lower(m)
        PROVE  connector'[m][q] = "connecting" <=> handler'[q][m] = "none"
    <3>1. q \in Servers /\ m \in Incoming(q)
      BY Neighbours
    <3> QED BY <1>3, <1>4, <3>1 DEF SetupInv, PeerInv, BothEnds
  <2> QED BY <2>1 DEF BothEnds
<1>7. ASSUME NEW m \in Servers, NEW q \in Peers(m)
      PROVE  Stage(m, q)' # "lost" /\ (Stage(m, q) = "queued" => Stage(m, q)' = "queued")
  <2>1. q \in Servers /\ (q \in Lower(m) \/ (q \notin Lower(m) /\ q \in Incoming(m)))
    BY Neighbours DEF Peers
  <2>2. handler[p][n] = "none"
    BY <1>1 DEF SetupInv, PeerInv, BothEnds
  <2> QED BY <1>1, <1>3, <1>4, <2>1, <2>2 DEF SetupInv, PeerInv, NothingLost, Stage
<1>8. PeerInv'
  <2>1. StreamsKept
    BY <1>6, <1>7 DEF StreamsKept
  <2> QED BY <1>1, <2>1, PeerFrame
<1>9. ClientInv'
  <2>1. ASSUME NEW m \in Servers, NEW c \in Local(m)
        PROVE  handler'[m][c] = handler[m][c]
    <3>1. c \in Incoming(m) /\ c \in Clients
      BY Neighbours
    <3> QED BY <1>2, <1>4, <3>1
  <2> QED BY <1>1, <2>1, ClientFrame
<1> QED BY <1>5, <1>8, <1>9 DEF SetupInv

LEMMA ClientConnectStep ==
  ASSUME SetupInv, NEW n \in Servers, NEW c \in Local(n), ClientConnect(c, n)
  PROVE  SetupInv'
<1>1. /\ HandlerTo(n, c, "backlog") /\ "backlog" \in HandlerStage
      /\ UNCHANGED <<listening, connector, max_client_id, client_id, connection_source,
                     peer_connections, client_connections, running>>
  BY DEF ClientConnect, HandlerTo, HandlerStage, clientVars, networkVars
<1>2. c \in Incoming(n) /\ c \notin Servers
  BY Neighbours
<1>3. /\ DOMAIN handler' = Servers
      /\ \A m \in Servers : handler'[m] \in [Incoming(m) -> HandlerStage]
  <2>1. SetupTypeOK
    BY DEF SetupInv
  <2> QED BY <1>1, <1>2, <2>1, HandlerType
<1>4. SetupTypeOK'
  BY <1>1, <1>3 DEF SetupInv, SetupTypeOK
<1>5. PeerInv'
  BY <1>1, <1>2, HandlerMoves, PeerFrame
<1> QED BY <1>4, <1>5, ClientOpens DEF SetupInv

LEMMA IdentifyClientStep ==
  ASSUME SetupInv, NEW n \in Servers, NEW c \in Local(n), IdentifyClient(n, c)
  PROVE  SetupInv'
<1>1. /\ HandlerTo(n, c, "identified") /\ "identified" \in HandlerStage
      /\ max_client_id' = [max_client_id EXCEPT ![n] = max_client_id[n] + 1]
      /\ client_id' = [client_id EXCEPT ![c] = max_client_id[n] + 1]
      /\ UNCHANGED <<listening, connector, connection_source,
                     peer_connections, client_connections, running>>
  BY DEF IdentifyClient, HandlerTo, HandlerStage, networkVars
<1>2. c \in Incoming(n) /\ c \notin Servers
  BY Neighbours
<1>3. /\ DOMAIN handler' = Servers
      /\ \A m \in Servers : handler'[m] \in [Incoming(m) -> HandlerStage]
  <2>1. SetupTypeOK
    BY DEF SetupInv
  <2> QED BY <1>1, <1>2, <2>1, HandlerType
<1>4. max_client_id' \in [Servers -> Nat] /\ client_id' \in [Clients -> Nat]
  <2>1. max_client_id \in [Servers -> Nat] /\ client_id \in [Clients -> Nat]
    BY DEF SetupInv, SetupTypeOK
  <2>2. max_client_id[n] + 1 \in Nat
    BY <2>1
  <2> QED BY <1>1, <2>1, <2>2
<1>5. SetupTypeOK'
  BY <1>1, <1>3, <1>4 DEF SetupInv, SetupTypeOK
<1>6. PeerInv'
  BY <1>1, <1>2, HandlerMoves, PeerFrame
<1> QED BY <1>5, <1>6, ClientNamed DEF SetupInv

(* A task of a server that has returned would lose its connection; but no  *)
(* task for a peer has one left, so only clients can.                      *)
LEMMA HandedOverOnce ==
  ASSUME SetupInv, NEW n \in Servers, NEW p \in Peers(n), Stage(n, p) # "queued"
  PROVE  ~running[n]
  BY HandedOverAt DEF SetupInv, PeerInv, Complete

LEMMA SourceType ==
  ASSUME SetupInv, NEW n \in Servers, NEW x \in Servers \cup Clients,
         connection_source' = IF running[n] THEN connection_source
                              ELSE [connection_source EXCEPT ![n] = Append(@, x)]
  PROVE  connection_source' \in [Servers -> Seq(Servers \cup Clients)]
<1>1. connection_source \in [Servers -> Seq(Servers \cup Clients)]
  BY DEF SetupInv, SetupTypeOK
<1>2. Append(connection_source[n], x) \in Seq(Servers \cup Clients)
  BY <1>1
<1> QED BY <1>1, <1>2

LEMMA HandOverIncomingStep ==
  ASSUME SetupInv, NEW n \in Servers, NEW x \in Incoming(n), HandOverIncoming(n, x)
  PROVE  SetupInv'
<1> DEFINE v == IF running[n] THEN "lost" ELSE "queued"
<1>1. /\ handler[n][x] = "identified"
      /\ HandlerTo(n, x, v) /\ v \in HandlerStage
      /\ connection_source' = IF running[n] THEN connection_source
                              ELSE [connection_source EXCEPT ![n] = Append(@, x)]
      /\ UNCHANGED <<listening, connector, max_client_id, client_id,
                     peer_connections, client_connections, running>>
  BY DEF HandOverIncoming, HandOver, HandlerTo, HandlerStage, clientVars
<1>2. /\ x \in Servers \cup Clients
      /\ x \in Servers => x \in Higher(n) /\ x \in Peers(n) /\ x \notin Lower(n)
      /\ x \in Clients => x \in Local(n)
  BY Neighbours
<1>3. /\ DOMAIN handler' = Servers
      /\ \A m \in Servers : handler'[m] \in [Incoming(m) -> HandlerStage]
      /\ handler'[n][x] = v
      /\ \A m \in Servers : \A q \in Incoming(m) : m # n \/ q # x => handler'[m][q] = handler[m][q]
  <2>1. SetupTypeOK
    BY DEF SetupInv
  <2> QED BY <1>1, <2>1, HandlerType
<1>4. SetupTypeOK'
  <2>1. connection_source' \in [Servers -> Seq(Servers \cup Clients)]
    BY <1>1, <1>2, SourceType
  <2> QED BY <1>1, <1>3, <2>1 DEF SetupInv, SetupTypeOK
<1>5. x \in Servers => ~running[n] /\ Stage(n, x) # "queued" /\ Stage(n, x)' = "queued"
  <2>1. x \in Servers => Stage(n, x) = "identified" /\ Stage(n, x)' = v
    BY <1>1, <1>2, <1>3 DEF Stage
  <2> QED BY <1>2, <2>1, HandedOverOnce
<1>6. PeerInv'
  <2>1. StreamsKept
    BY <1>1, <1>5, HandlerMoves
  <2> QED BY <1>1, <1>2, <1>5, <2>1, PeerHandOver
<1>7. ClientInv'
  <2>1. x \in Clients => HasId(n, x)
    BY <1>1, <1>2 DEF SetupInv, ClientInv, IdsInUse
  <2>2. ASSUME NEW m \in Servers, NEW c \in Local(m)
        PROVE  \/ handler'[m][c] = handler[m][c]
               \/ handler[m][c] = "identified" /\ handler'[m][c] \in {"queued", "lost"}
    <3>1. c \in Incoming(m)
      BY Neighbours
    <3> QED BY <1>1, <1>3, <3>1
  <2> QED BY <1>1, <1>2, <2>1, <2>2, ClientHandOver
<1> QED BY <1>4, <1>6, <1>7 DEF SetupInv

LEMMA HandOverOutgoingStep ==
  ASSUME SetupInv, NEW n \in Servers, NEW p \in Lower(n), HandOverOutgoing(n, p)
  PROVE  SetupInv'
<1>1. p \in Servers /\ p \in Peers(n) /\ p \notin Clients
  BY Neighbours
<1>2. connector[n][p] = "identified" /\ ~running[n]
  <2>1. connector[n][p] = "identified" /\ Stage(n, p) = connector[n][p]
    BY DEF HandOverOutgoing, Stage
  <2> QED BY <1>1, <2>1, HandedOverOnce
<1>3. /\ ConnectorTo(n, p, "queued") /\ "queued" \in ConnectorStage
      /\ connection_source' = IF running[n] THEN connection_source
                              ELSE [connection_source EXCEPT ![n] = Append(@, p)]
      /\ UNCHANGED <<listening, handler, max_client_id, client_id,
                     peer_connections, client_connections, running>>
  BY <1>2 DEF HandOverOutgoing, HandOver, ConnectorTo, ConnectorStage, clientVars
<1>4. /\ DOMAIN connector' = Servers
      /\ \A m \in Servers : connector'[m] \in [Lower(m) -> ConnectorStage]
      /\ connector'[n][p] = "queued"
  <2>1. SetupTypeOK
    BY DEF SetupInv
  <2> QED BY <1>3, <2>1, ConnectorType
<1>5. SetupTypeOK'
  <2>1. connection_source' \in [Servers -> Seq(Servers \cup Clients)]
    BY <1>1, <1>3, SourceType
  <2> QED BY <1>3, <1>4, <2>1 DEF SetupInv, SetupTypeOK
<1>6. PeerInv'
  <2>1. StreamsKept
    BY <1>2, <1>3, ConnectorMoves
  <2>2. Stage(n, p) # "queued" /\ Stage(n, p)' = "queued"
    BY <1>2, <1>4 DEF Stage
  <2> QED BY <1>1, <1>3, <2>1, <2>2, PeerHandOver
<1>7. ClientInv'
  BY <1>1, <1>3, ClientHandOver
<1> QED BY <1>5, <1>6, <1>7 DEF SetupInv

LEMMA ReceiveStep ==
  ASSUME SetupInv, NEW n \in Servers, Receive(n)
  PROVE  SetupInv'
<1>1. /\ peer_connections' = [peer_connections EXCEPT ![n] = NewPeers(n)]
      /\ client_connections' = [client_connections EXCEPT ![n] = NewClients(n)]
      /\ running' = [running EXCEPT ![n] = Ends(n)]
      /\ listening' = IF Ends(n) THEN [listening EXCEPT ![n] = "aborted"] ELSE listening
      /\ connection_source' = [connection_source EXCEPT
           ![n] = IF Ends(n) THEN << >> ELSE Tail(Source(n))]
      /\ UNCHANGED <<max_client_id, client_id>>
  BY ReceiveEffect
<1>2. /\ listening \in [Servers -> {"unbound", "bound", "aborted"}]
      /\ connection_source \in [Servers -> Seq(Servers \cup Clients)]
      /\ peer_connections \in [Servers -> SUBSET Servers]
      /\ client_connections \in [Servers -> [ClientIds -> Clients \cup {NoClient}]]
      /\ running \in [Servers -> BOOLEAN]
  BY DEF SetupInv, SetupTypeOK
<1>3. peer_connections' \in [Servers -> SUBSET Servers]
  <2>1. NewPeers(n) \in SUBSET Servers
    BY <1>2 DEF NewPeers
  <2> QED BY <1>1, <1>2, <2>1
<1>4. client_connections' \in [Servers -> [ClientIds -> Clients \cup {NoClient}]]
  <2>1. NewClients(n) \in [ClientIds -> Clients \cup {NoClient}]
    BY ReceiveTables
  <2> QED BY <1>1, <1>2, <2>1
<1>5. connection_source' \in [Servers -> Seq(Servers \cup Clients)]
  <2>1. Source(n)' \in Seq(Servers \cup Clients)
    BY ReceiveTables
  <2>2. Source(n)' = IF Ends(n) THEN << >> ELSE Tail(Source(n))
    BY <1>1, <1>2 DEF Source
  <2> QED BY <1>1, <1>2, <2>1, <2>2
<1>6. /\ listening' \in [Servers -> {"unbound", "bound", "aborted"}]
      /\ running' \in [Servers -> BOOLEAN]
  <2>1. Ends(n) \in BOOLEAN
    BY DEF Ends, EverythingConnected
  <2> QED BY <1>1, <1>2, <2>1
<1>7. /\ DOMAIN connector' = Servers /\ DOMAIN handler' = Servers
      /\ \A m \in Servers : connector'[m] \in [Lower(m) -> ConnectorStage]
      /\ \A m \in Servers : handler'[m] \in [Incoming(m) -> HandlerStage]
  BY ReceiveStages
<1>8. SetupTypeOK'
  BY <1>1, <1>3, <1>4, <1>5, <1>6, <1>7 DEF SetupInv, SetupTypeOK
<1> QED BY <1>8, PeerReceive, ClientReceive DEF SetupInv

LEMMA SetupStart ==
  ASSUME SetupInit PROVE SetupInv
<1>1. /\ \A n \in Servers : \A p \in Lower(n) : connector[n][p] = "connecting"
      /\ \A n \in Servers : \A x \in Incoming(n) : handler[n][x] = "none"
      /\ \A n \in Servers : /\ Source(n) = << >> /\ peer_connections[n] = {}
                            /\ max_client_id[n] = 0 /\ ~running[n]
      /\ \A n \in Servers : \A i \in ClientIds : client_connections[n][i] = NoClient
  BY DEF SetupInit, Source
<1>2. SetupTypeOK
  BY DEF SetupInit, SetupTypeOK, ConnectorStage, HandlerStage
<1>3. BothEnds
  <2>1. ASSUME NEW n \in Servers, NEW p \in Lower(n)
        PROVE  connector[n][p] = "connecting" /\ handler[p][n] = "none"
    BY <1>1, Neighbours
  <2> QED BY <2>1 DEF BothEnds
<1>4. HandedOver /\ Complete
  BY <1>1 DEF HandedOver, Complete
<1>5. NothingLost
  <2>1. ASSUME NEW n \in Servers, NEW p \in Peers(n)
        PROVE  p \in Lower(n) \/ (p \notin Lower(n) /\ p \in Incoming(n))
    BY Neighbours
  <2> QED BY <1>1, <2>1 DEF NothingLost, Stage
<1>6. \A n \in Servers : Connected(n) = {} /\ Named(n) = {}
  BY <1>1, Neighbours DEF Connected, Named, Unnamed
<1>7. OneServer
  BY <1>6 DEF OneServer
<1>8. IdsInUse
  <2>1. ASSUME NEW n \in Servers
        PROVE  /\ max_client_id[n] <= Cardinality(Named(n))
               /\ \A c \in Local(n) : handler[n][c] \notin {"identified", "queued"}
    <3>1. max_client_id[n] = 0 /\ Named(n) = {}
      BY <1>1, <1>6
    <3>2. Cardinality(Named(n)) = 0
      BY <3>1, FS_EmptySet
    <3>3. \A c \in Local(n) : handler[n][c] = "none"
      BY <1>1, Neighbours
    <3> QED BY <3>1, <3>2, <3>3
  <2> QED BY <1>1, <2>1 DEF IdsInUse
<1> QED BY <1>2, <1>3, <1>4, <1>5, <1>7, <1>8 DEF SetupInv, PeerInv, ClientInv

(* Every step of a task keeps the invariant.                               *)
LEMMA TaskStepKeeps ==
  ASSUME SetupInv, NEW n \in Servers, TaskStep(n)
  PROVE  SetupInv'
<1>1. CASE Bind(n)
  BY <1>1, BindStep
<1>2. ASSUME NEW x \in Incoming(n), Accept(n, x) \/ HandOverIncoming(n, x)
      PROVE  SetupInv'
  BY <1>2, AcceptStep, HandOverIncomingStep
<1>3. ASSUME NEW p \in Lower(n),
             Connect(n, p) \/ SendHandshake(n, p) \/ HandOverOutgoing(n, p)
      PROVE  SetupInv'
  BY <1>3, ConnectStep, HandshakeStep, HandOverOutgoingStep
<1>4. ASSUME NEW p \in Higher(n), IdentifyPeer(n, p) \/ DropUnidentified(n, p)
      PROVE  SetupInv'
  BY <1>4, IdentifyPeerStep
<1>5. ASSUME NEW c \in Local(n), IdentifyClient(n, c)
      PROVE  SetupInv'
  BY <1>5, IdentifyClientStep
<1>6. CASE Receive(n)
  BY <1>6, ReceiveStep
<1> QED BY <1>1, <1>2, <1>3, <1>4, <1>5, <1>6 DEF TaskStep

LEMMA SetupKeeps ==
  ASSUME SetupInv, [SetupNext]_setupVars
  PROVE  SetupInv'
<1>1. ASSUME NEW n \in Servers, TaskStep(n)
      PROVE  SetupInv'
  BY <1>1, TaskStepKeeps
<1>2. ASSUME NEW n \in Servers, NEW p \in Lower(n), HandshakeFails(n, p)
      PROVE  SetupInv'
  BY <1>2, HandshakeStep
<1>3. ASSUME NEW n \in Servers, NEW c \in Local(n),
             ClientConnect(c, n) \/ ClientRefused(c, n) \/ RegistrationFails(c, n)
      PROVE  SetupInv'
  <2>1. CASE ClientConnect(c, n)
    BY <2>1, ClientConnectStep
  <2>2. CASE ClientRefused(c, n)
    BY <2>2, AttemptStep DEF ClientRefused
  <2>3. CASE RegistrationFails(c, n)
    BY <2>3, AttemptStep DEF RegistrationFails
  <2> QED BY <1>3, <2>1, <2>2, <2>3
<1>4. ASSUME NEW n \in Servers, NEW x \in Incoming(n), RegistrationLost(n, x)
      PROVE  SetupInv'
  BY <1>4, RegistrationLostStep
<1>5. CASE UNCHANGED setupVars
  BY <1>5, AttemptStep DEF setupVars, clientVars
<1> QED BY <1>1, <1>2, <1>3, <1>4, <1>5 DEF SetupNext

LEMMA SetupInvariant == SetupSpec => []SetupInv
<1>1. SetupInit => SetupInv
  BY SetupStart
<1>2. SetupInv /\ [SetupNext]_setupVars => SetupInv'
  BY SetupKeeps
<1> QED BY <1>1, <1>2, PTL DEF SetupSpec

-----------------------------------------------------------------------------
(* If no more clients than configured have connected for good, the ids     *)
(* installed when Network::new returns are 1..num_clients: they come from  *)
(* a counter that never exceeds the number of clients, and there are       *)
(* num_clients.                                                            *)
LEMMA InstalledIds ==
  ASSUME SetupInv, NEW n \in Servers, running[n], NoExcessClients(n)
  PROVE  {i \in ClientIds : client_connections[n][i] # NoClient} = 1..NumClients[n]
<1> DEFINE Installed == {i \in ClientIds : client_connections[n][i] # NoClient}
<1>1. /\ NumClients[n] \in Nat
      /\ IsFiniteSet(1..NumClients[n]) /\ Cardinality(1..NumClients[n]) = NumClients[n]
  <2>1. NumClients[n] \in Nat /\ NumClients[n] \in Int /\ 1 \in Int
    BY SetupAssumption
  <2>2. /\ IsFiniteSet(1..NumClients[n])
        /\ Cardinality(1..NumClients[n]) =
             IF 1 > NumClients[n] THEN 0 ELSE NumClients[n] - 1 + 1
    BY <2>1, FS_Interval
  <2> QED BY <2>1, <2>2
<1> DEFINE Kept == {c \in Local(n) : handler[n][c] \notin {"none", "failed"}}
<1>2. max_client_id[n] \in Nat /\ max_client_id[n] <= NumClients[n]
  <2>1. Named(n) \in SUBSET Kept /\ Kept \in SUBSET Clients
    BY Neighbours DEF Named, Unnamed
  <2>2. IsFiniteSet(Kept) /\ IsFiniteSet(Named(n))
    BY <2>1, FS_Subset, SetupAssumption
  <2>3. /\ Cardinality(Named(n)) \in Nat /\ Cardinality(Kept) \in Nat
        /\ Cardinality(Named(n)) <= Cardinality(Kept)
    BY <2>1, <2>2, FS_Subset, FS_CardinalityType
  <2>4. Cardinality(Kept) <= NumClients[n]
    BY DEF NoExcessClients
  <2>5. max_client_id[n] \in Nat /\ max_client_id[n] <= Cardinality(Named(n))
    BY DEF SetupInv, SetupTypeOK, ClientInv, IdsInUse
  <2> QED BY <1>1, <2>3, <2>4, <2>5
<1>3. Installed \in SUBSET (1..NumClients[n])
  <2>1. ASSUME NEW i \in Installed
        PROVE  i \in 1..max_client_id[n]
    BY DEF SetupInv, ClientInv, IdsInUse, HasId
  <2>2. 1..max_client_id[n] \subseteq 1..NumClients[n]
    BY <1>1, <1>2
  <2> QED BY <2>1, <2>2
<1>4. Cardinality(Installed) >= NumClients[n]
  BY DEF SetupInv, ClientInv, IdsInUse
<1>5. /\ Cardinality(Installed) \in Nat
      /\ Cardinality(Installed) <= NumClients[n]
      /\ NumClients[n] = Cardinality(Installed) => 1..NumClients[n] = Installed
  <2> HIDE DEF Installed
  <2>1. IsFiniteSet(Installed)
    BY <1>1, <1>3, FS_Subset
  <2>2. Cardinality(Installed) \in Nat
    BY <2>1, FS_CardinalityType
  <2>3. /\ Cardinality(Installed) <= Cardinality(1..NumClients[n])
        /\ Cardinality(1..NumClients[n]) = Cardinality(Installed) => 1..NumClients[n] = Installed
    BY <1>1, <1>3, FS_Subset
  <2> QED BY <1>1, <2>2, <2>3
<1>6. NumClients[n] = Cardinality(Installed)
  <2> HIDE DEF Installed
  <2> QED BY <1>1, <1>4, <1>5
<1> QED BY <1>5, <1>6

(* For every cluster and every placement of clients, a server that returns *)
(* from Network::new is connected to every peer, and holds a client under  *)
(* each id it will address, if no more clients than configured came.       *)
THEOREM ServersReady == SetupSpec => []ReadyForServerLoop
<1>1. SetupInv => ReadyForServerLoop
  <2> SUFFICES ASSUME SetupInv, NEW n \in Servers, running[n]
               PROVE  /\ peer_connections[n] = Peers(n)
                      /\ NoExcessClients(n) => \A i \in 1..NumClients[n] :
                           \E c \in Local(n) : client_connections[n][i] = c /\ client_id[c] = i
    BY DEF ReadyForServerLoop
  <2>1. peer_connections[n] = Peers(n)
    BY DEF SetupInv, PeerInv, Complete
  <2>2. ASSUME NoExcessClients(n), NEW i \in 1..NumClients[n]
        PROVE  \E c \in Local(n) : client_connections[n][i] = c /\ client_id[c] = i
    <3>1. i \in ClientIds /\ client_connections[n][i] # NoClient
      BY <2>2, InstalledIds
    <3>2. /\ HasId(n, client_connections[n][i])
          /\ client_id[client_connections[n][i]] = i
      BY <3>1 DEF SetupInv, ClientInv, IdsInUse
    <3> QED BY <3>2 DEF HasId, Named, Unnamed
  <2> QED BY <2>1, <2>2
<1> QED BY <1>1, SetupInvariant, PTL

(* A server does not return from Network::new while a peer still needs its *)
(* listener or its channel, so no connection between servers is lost that  *)
(* way, whichever handshakes and registrations fail.                       *)
THEOREM PeersAlwaysMeet == SetupSpec => []PeersMeet
<1>1. SetupInv => PeersMeet
  <2> SUFFICES ASSUME SetupInv, NEW n \in Servers
               PROVE  /\ \A p \in Lower(n) : connector[n][p] # "lost"
                      /\ \A p \in Higher(n) : handler[n][p] # "lost"
                      /\ running[n] => \A p \in Lower(n) : handler[p][n] # "none"
    BY DEF PeersMeet
  <2>1. ASSUME NEW p \in Lower(n) PROVE p \in Peers(n) /\ Stage(n, p) = connector[n][p]
    BY Neighbours DEF Stage
  <2>2. ASSUME NEW p \in Higher(n) PROVE p \in Peers(n) /\ Stage(n, p) = handler[n][p]
    BY Neighbours DEF Stage
  <2>3. ASSUME running[n], NEW p \in Lower(n) PROVE handler[p][n] # "none"
    <3>1. connector[n][p] = "queued"
      BY <2>1, <2>3, HandedOverAt DEF SetupInv, PeerInv, Complete
    <3> QED BY <3>1 DEF SetupInv, PeerInv, BothEnds
  <2> QED BY <2>1, <2>2, <2>3 DEF SetupInv, PeerInv, NothingLost
<1> QED BY <1>1, SetupInvariant, PTL

(* Unless more clients than configured come, every client a server holds   *)
(* is one that send_client_start_signals addresses.  The hypothesis is     *)
(* necessary: run excess_client violates the property without it.          *)
THEOREM AllClientsStarted ==
  SetupSpec => []((\A n \in Servers : NoExcessClients(n)) => StartSignalsReachClients)
<1>1. SetupInv /\ (\A n \in Servers : NoExcessClients(n)) => StartSignalsReachClients
  <2> SUFFICES ASSUME SetupInv, NEW n \in Servers, running[n], NoExcessClients(n),
                      NEW i \in ClientIds, client_connections[n][i] # NoClient
               PROVE  i <= NumClients[n]
    BY DEF StartSignalsReachClients
  <2>1. i \in 1..NumClients[n]
    BY InstalledIds
  <2> QED BY <2>1, SetupAssumption
<1> QED BY <1>1, SetupInvariant, PTL
=============================================================================
