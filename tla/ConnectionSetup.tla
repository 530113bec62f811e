-------------------------- MODULE ConnectionSetup --------------------------
(***************************************************************************)
(* How a cluster gets connected: Network::new of server/network.rs at      *)
(* every server, and the clients (the benchmark client or the HTTP         *)
(* gateway) that connect meanwhile.                                        *)
(*                                                                         *)
(* A server runs a listener task, one connector task per peer with a       *)
(* smaller id, one handler task per accepted stream, and the task of       *)
(* initialize_connections, which takes finished connections from the       *)
(* channel connection_source and returns when it has all it waits for.     *)
(* Returning drops the receiver: a task that still wants to hand over a    *)
(* connection panics in unwrap, and what was in the channel is dropped.    *)
(***************************************************************************)
EXTENDS Integers, Sequences, FiniteSets

CONSTANTS
  Servers,      (* node ids, numbers                                       *)
  Clients,      (* the processes that register as clients                  *)
  Gateways,     (* those of them that are HTTP gateways                    *)
  Addresses,    (* Addresses[c]: the servers c tries, in turn; a benchmark *)
                (* client has one address, a gateway its server_addrs      *)
  NumClients,   (* NumClients[n]: local.num_clients                        *)
  ChannelCap,   (* capacity of the channel connection_source               *)
  MaxFailures,  (* bound on handshakes and registrations that fail         *)
  NoClient      (* no connection under this client id                      *)

ASSUME SetupAssumption ==
  /\ Servers \subseteq Nat
  /\ IsFiniteSet(Clients)
  /\ Servers \cap Clients = {}
  /\ Gateways \subseteq Clients
  /\ Addresses \in [Clients -> Seq(Servers) \ {<< >>}]
  /\ NumClients \in [Servers -> Nat]
  /\ ChannelCap \in Nat \ {0}
  /\ MaxFailures \in Nat
  /\ NoClient \notin Clients

Peers(n) == Servers \ {n}

Lower(n)  == {p \in Servers : p < n}
Higher(n) == {p \in Servers : p > n}
Local(n)  == {c \in Clients : \E i \in 1..Len(Addresses[c]) : Addresses[c][i] = n}

(* The streams into the listener of n: peers with a larger id, clients.    *)
Incoming(n) == Higher(n) \cup Local(n)

ClientIds == 1..Cardinality(Clients)

VARIABLES
  listening,          (* listening[n]: "unbound", "bound" or "aborted"     *)
  connector,          (* connector[n][p]: stage of n's connector task to p *)
  handler,            (* handler[n][x]: stage of the stream from x at n    *)
  attempt,            (* attempt[c]: index of the address c tries or is    *)
                      (* connected to, 0 when c has ended                  *)
  max_client_id,      (* max_client_id[n]: the counter behind the mutex    *)
  client_id,          (* client_id[c]: the id given to c, 0 before         *)
  connection_source,  (* connection_source[n]: connections to pick up      *)
  peer_connections,   (* peer_connections[n]: the peers installed          *)
  client_connections, (* client_connections[n][i]: client under id i       *)
  running,            (* running[n]: Network::new has returned             *)
  failures            (* handshakes and registrations failed so far        *)

clientVars  == <<attempt, max_client_id, client_id>>
networkVars == <<connection_source, peer_connections, client_connections, running>>
setupVars   == <<listening, connector, handler, clientVars, networkVars, failures>>

SetupInit ==
  /\ listening = [n \in Servers |-> "unbound"]
  /\ connector = [n \in Servers |-> [p \in Lower(n) |-> "connecting"]]
  /\ handler = [n \in Servers |-> [x \in Incoming(n) |-> "none"]]
  /\ attempt = [c \in Clients |-> 1]
  /\ max_client_id = [n \in Servers |-> 0]
  /\ client_id = [c \in Clients |-> 0]
  /\ connection_source = [n \in Servers |-> << >>]
  /\ peer_connections = [n \in Servers |-> {}]
  /\ client_connections = [n \in Servers |-> [i \in ClientIds |-> NoClient]]
  /\ running = [n \in Servers |-> FALSE]
  /\ failures = 0

-----------------------------------------------------------------------------
(* The listener task.                                                      *)

Bind(n) ==
  /\ listening[n] = "unbound"
  /\ listening' = [listening EXCEPT ![n] = "bound"]
  /\ UNCHANGED <<connector, handler, clientVars, networkVars, failures>>

Accept(n, x) ==
  /\ listening[n] = "bound"
  /\ handler[n][x] = "backlog"
  /\ handler' = [handler EXCEPT ![n][x] = "accepted"]
  /\ UNCHANGED <<listening, connector, clientVars, networkVars, failures>>

-----------------------------------------------------------------------------
(* A connector task, of n to p.                                            *)

\* Fault: a refused connection is not tried again.
ConnectOnce(n, p) ==
  /\ connector[n][p] = "connecting"
  /\ connector' = [connector EXCEPT ![n][p] =
       IF listening[p] = "bound" THEN "connected" ELSE "failed"]
  /\ handler' = [handler EXCEPT ![p][n] = IF listening[p] = "bound" THEN "backlog" ELSE @]
  /\ UNCHANGED <<listening, clientVars, networkVars, failures>>

(* The attempt that succeeds; the others change nothing.                   *)
Connect(n, p) ==
  /\ connector[n][p] = "connecting"
  /\ listening[p] = "bound"
  /\ connector' = [connector EXCEPT ![n][p] = "connected"]
  /\ handler' = [handler EXCEPT ![p][n] = "backlog"]
  /\ UNCHANGED <<listening, clientVars, networkVars, failures>>

SendHandshake(n, p) ==
  /\ connector[n][p] = "connected"
  /\ connector' = [connector EXCEPT ![n][p] = "identified"]
  /\ UNCHANGED <<listening, handler, clientVars, networkVars, failures>>

(* The handshake cannot be sent: the task returns and the stream closes.   *)
HandshakeFails(n, p) ==
  /\ failures < MaxFailures
  /\ connector[n][p] = "connected"
  /\ connector' = [connector EXCEPT ![n][p] = "failed"]
  /\ failures' = failures + 1
  /\ UNCHANGED <<listening, handler, clientVars, networkVars>>

-----------------------------------------------------------------------------
(* Clients: get_server_connection, and connect_and_register of a gateway.  *)

(* c is about to connect to server n.                                      *)
Trying(c, n) ==
  /\ attempt[c] # 0
  /\ n = Addresses[c][attempt[c]]
  /\ \A m \in Servers : c \in Local(m) => handler[m][c] = "none"

NextAddress(c) == (attempt[c] % Len(Addresses[c])) + 1

(* Connected, and the registration sent.                                   *)
ClientConnect(c, n) ==
  /\ Trying(c, n)
  /\ listening[n] = "bound"
  /\ handler' = [handler EXCEPT ![n][c] = "backlog"]
  /\ UNCHANGED <<listening, connector, clientVars, networkVars, failures>>

ClientRefused(c, n) ==
  /\ Trying(c, n)
  /\ listening[n] # "bound"
  /\ attempt' = [attempt EXCEPT ![c] = NextAddress(c)]
  /\ UNCHANGED <<listening, connector, handler,
                 max_client_id, client_id, networkVars, failures>>

(* Connected, but the registration cannot be sent: a gateway goes on, a    *)
(* benchmark client panics.  The stream it closes has no effect at n.      *)
RegistrationFails(c, n) ==
  /\ failures < MaxFailures
  /\ Trying(c, n)
  /\ listening[n] = "bound"
  /\ attempt' = [attempt EXCEPT ![c] = IF c \in Gateways THEN NextAddress(c) ELSE 0]
  /\ failures' = failures + 1
  /\ UNCHANGED <<listening, connector, handler, max_client_id, client_id, networkVars>>

-----------------------------------------------------------------------------
(* handle_incoming_connection: reading the registration of x.              *)

IdentifyPeer(n, p) ==
  /\ handler[n][p] = "accepted"
  /\ connector[p][n] \notin {"connecting", "connected", "failed"}
  /\ handler' = [handler EXCEPT ![n][p] = "identified"]
  /\ UNCHANGED <<listening, connector, clientVars, networkVars, failures>>

(* The stream was closed before it said who it is.                         *)
DropUnidentified(n, p) ==
  /\ handler[n][p] = "accepted"
  /\ connector[p][n] = "failed"
  /\ handler' = [handler EXCEPT ![n][p] = "failed"]
  /\ UNCHANGED <<listening, connector, clientVars, networkVars, failures>>

(* The stream of x breaks before its registration is read, though x may    *)
(* have written it and gone on, with a connection of no use.               *)
RegistrationLost(n, x) ==
  /\ failures < MaxFailures
  /\ handler[n][x] = "accepted"
  /\ handler' = [handler EXCEPT ![n][x] = "failed"]
  /\ failures' = failures + 1
  /\ UNCHANGED <<listening, connector, clientVars, networkVars>>

IdentifyClient(n, c) ==
  /\ handler[n][c] = "accepted"
  /\ max_client_id' = [max_client_id EXCEPT ![n] = @ + 1]
  /\ client_id' = [client_id EXCEPT ![c] = max_client_id[n] + 1]
  /\ handler' = [handler EXCEPT ![n][c] = "identified"]
  /\ UNCHANGED <<listening, connector, attempt, networkVars, failures>>

(* Handing the connection over: send waits for room, and panics when the   *)
(* receiver is gone.                                                       *)
HandOver(n, x, stage) ==
  /\ running[n] \/ Len(connection_source[n]) < ChannelCap
  /\ connection_source' =
       IF running[n] THEN connection_source
       ELSE [connection_source EXCEPT ![n] = Append(@, x)]
  /\ stage' = [stage EXCEPT ![n][x] = IF running[n] THEN "lost" ELSE "queued"]
  /\ UNCHANGED <<listening, clientVars, peer_connections,
                 client_connections, running, failures>>

HandOverIncoming(n, x) ==
  /\ handler[n][x] = "identified"
  /\ HandOver(n, x, handler)
  /\ UNCHANGED connector

HandOverOutgoing(n, p) ==
  /\ connector[n][p] = "identified"
  /\ HandOver(n, p, connector)
  /\ UNCHANGED handler

-----------------------------------------------------------------------------
(* initialize_connections: the next connection, and the check for the end. *)

\* Fault: any instead of all.
EverythingConnectedAny(n, peers, clients) ==
  /\ Cardinality({i \in ClientIds : clients[i] # NoClient}) >= NumClients[n]
  /\ peers # {}

\* Fault: off by one, one client too few.
EverythingConnectedEarly(n, peers, clients) ==
  /\ Cardinality({i \in ClientIds : clients[i] # NoClient}) + 1 >= NumClients[n]
  /\ peers = Peers(n)

EverythingConnected(n, peers, clients) ==
  /\ Cardinality({i \in ClientIds : clients[i] # NoClient}) >= NumClients[n]
  /\ peers = Peers(n)

(* Streams the aborted listener has not accepted, and connections still in *)
(* the channel, are gone.                                                  *)
Receive(n) ==
  /\ ~running[n]
  /\ connection_source[n] # << >>
  /\ LET x        == Head(connection_source[n])
         peers    == peer_connections[n] \cup (Servers \cap {x})
         clients  == IF x \in Clients
                     THEN [client_connections[n] EXCEPT ![client_id[x]] = x]
                     ELSE client_connections[n]
         complete == EverythingConnected(n, peers, clients)
         dropped  == {connection_source[n][i] : i \in 2..Len(connection_source[n])}
     IN  /\ peer_connections' = [peer_connections EXCEPT ![n] = peers]
         /\ client_connections' = [client_connections EXCEPT ![n] = clients]
         /\ running' = [running EXCEPT ![n] = complete]
         /\ listening' = IF complete THEN [listening EXCEPT ![n] = "aborted"] ELSE listening
         /\ connection_source' = [connection_source EXCEPT
              ![n] = IF complete THEN << >> ELSE Tail(@)]
         /\ handler' = [handler EXCEPT ![n] = [y \in Incoming(n) |->
              IF complete /\ (y \in dropped \/ @[y] = "backlog") THEN "lost" ELSE @[y]]]
         /\ connector' = [connector EXCEPT ![n] = [p \in Lower(n) |->
              IF complete /\ p \in dropped THEN "lost" ELSE @[p]]]
  /\ UNCHANGED <<clientVars, failures>>

-----------------------------------------------------------------------------
TaskStep(n) ==
  \/ Bind(n)
  \/ \E x \in Incoming(n) : Accept(n, x) \/ HandOverIncoming(n, x)
  \/ \E p \in Lower(n) : Connect(n, p) \/ SendHandshake(n, p) \/ HandOverOutgoing(n, p)
  \/ \E p \in Higher(n) : IdentifyPeer(n, p) \/ DropUnidentified(n, p)
  \/ \E c \in Local(n) : IdentifyClient(n, c)
  \/ Receive(n)

SetupNext ==
  \/ \E n \in Servers : TaskStep(n)
  \/ \E n \in Servers : \E p \in Lower(n) : HandshakeFails(n, p)
  \/ \E n \in Servers : \E x \in Incoming(n) : RegistrationLost(n, x)
  \/ \E n \in Servers : \E c \in Local(n) :
       ClientConnect(c, n) \/ ClientRefused(c, n) \/ RegistrationFails(c, n)

SetupSpec == SetupInit /\ [][SetupNext]_setupVars

-----------------------------------------------------------------------------
(* Properties.                                                             *)

NoExcessClients(n) ==
  Cardinality({c \in Local(n) : handler[n][c] \notin {"none", "failed"}}) <= NumClients[n]

(* What the server loop starts from: after Network::new a server is        *)
(* connected to every peer, and if no more clients than configured have    *)
(* connected to it for good, the ids 1..num_clients, to which start        *)
(* signals are sent, are those of its clients, each under the id its       *)
(* requests carry.                                                         *)
ReadyForServerLoop ==
  \A n \in Servers : running[n] =>
    /\ peer_connections[n] = Peers(n)
    /\ NoExcessClients(n) => \A i \in 1..NumClients[n] :
         \E c \in Local(n) : client_connections[n][i] = c /\ client_id[c] = i

(* The two ends of a stream agree: a server never returns from             *)
(* Network::new, which aborts its listener and closes its channel, while a *)
(* peer still needs either; no connection between servers is ever lost     *)
(* because one of them was done first.                                     *)
PeersMeet ==
  \A n \in Servers :
    /\ \A p \in Lower(n) : connector[n][p] # "lost"
    /\ \A p \in Higher(n) : handler[n][p] # "lost"
    /\ running[n] => \A p \in Lower(n) : handler[p][n] # "none"

(* Every client a server has accepted into client_connections is told when *)
(* the experiment begins: send_client_start_signals addresses the ids      *)
(* 1..num_clients, so these are the ids a server holds.                    *)
StartSignalsReachClients ==
  \A n \in Servers : running[n] =>
    \A i \in ClientIds : client_connections[n][i] # NoClient => i <= NumClients[n]
=============================================================================
