---------------------------- MODULE HttpCluster ----------------------------
(***************************************************************************)
(* The whole system: the gateway of Gateway is a client of the cluster of  *)
(* Server.  What Gateway leaves open of its server, and GatewayStore       *)
(* replaces by the store the cluster promises, is here the server the      *)
(* gateway registered at, with its peers, the log and the other clients.   *)
(*                                                                         *)
(* A command is at_server from the moment writer_task has sent it until    *)
(* the cluster decides it, and executed from then on; its reply is sent    *)
(* when its coordinator has executed it.  What is on the way from          *)
(* writer_task to the server is read in any order, or never.               *)
(***************************************************************************)
EXTENDS Server

CONSTANTS
  Requests, QueueCap, NoRequest, NoResult,  (* of GatewayStore             *)
  GatewayServer,                            (* the server of the gateway   *)
  GatewayClient                             (* and its number there        *)

VARIABLES
  cmd_id_counter, cmd_id, pc, pending, answer, status, body, tcp_tx, writer, reader,
  reader_answer, at_server, executed, replied, from_server,  (* of Gateway *)
  command                                               (* of GatewayStore *)

gatewayVars ==
  <<cmd_id_counter, cmd_id, pc, pending, answer, status, body, tcp_tx, writer, reader,
    reader_answer, at_server, executed, replied, from_server>>

OfGateway(cmd) == cmd.coordinator_id = GatewayServer /\ cmd.client_id = GatewayClient

CommandOf(r) ==
  [client_id |-> GatewayClient, coordinator_id |-> GatewayServer,
   id |-> cmd_id[r], kv_cmd |-> command[r]]

(* The commands of the other clients.                                      *)
OtherCommands ==
  {cmd \in UNION {[client_id : ClientIds, coordinator_id : {n}, id : RequestIds[n],
                   kv_cmd : Workload[n]] : n \in Servers} : ~OfGateway(cmd)}

(* The store as the gateway sees it.                                       *)
GS == INSTANCE GatewayStore WITH
  submitted <- {CommandOf(r) : r \in at_server \cup executed}
                 \cup {cmd \in proposals : ~OfGateway(cmd)},
  history   <- [i \in 1..Len(log) |->
                 [cmd   |-> log[i],
                  reply |-> Answer(ref[i], log[i].id, log[i].kv_cmd)]],
  store     <- ref[Len(ref)],
  delivered <- replies

ASSUME HttpClusterAssumption ==
  /\ QueueCap \in Nat \ {0}
  /\ NoRequest \notin Requests
  /\ Requests \cap {"open", "closed"} = {}
  /\ NoResult \notin GS!Bodies
  /\ GatewayServer \in Servers
  /\ GatewayClient \in LocalClients(GatewayServer)

httpClusterVars == <<vars, gatewayVars, command>>

HttpClusterInit ==
  /\ Init
  /\ GS!GatewayInit
  /\ command \in [Requests -> Workload[GatewayServer]]

-----------------------------------------------------------------------------
(* The gateway by itself.                                                  *)
GatewayAlone ==
  /\ \/ \E r \in Requests : GS!RequestStep(r) \/ GS!Cancel(r) \/ GS!ReceiveReply(r)
     \/ GS!WriteCommand \/ GS!WriterStops \/ GS!PassOn \/ GS!ReaderStops
  /\ UNCHANGED <<vars, command>>

(* The reader task of the server takes a command off the connection of the *)
(* gateway.                                                                *)
ReadCommand(r) ==
  /\ r \in at_server
  /\ cmd_id[r] \in RequestIds[GatewayServer]
  /\ ClientRequest(GatewayServer, GatewayClient, cmd_id[r], command[r])
  /\ UNCHANGED <<gatewayVars, command>>

(* The cluster decides a command of the gateway: it takes effect.          *)
DecideCommand(r) ==
  /\ CommandOf(r) \in proposals
  /\ Decide(CommandOf(r))
  /\ GS!ServerExecutes(r)
  /\ UNCHANGED command

(* The server executes it and answers.                                     *)
AboutToAnswer ==
  /\ decided_commands[GatewayServer] # << >>
  /\ OfGateway(Head(decided_commands[GatewayServer]))
  /\ client_conn[GatewayServer][GatewayClient] = "up"

AnswerCommand(r) ==
  /\ AboutToAnswer
  /\ Head(decided_commands[GatewayServer]) = CommandOf(r)
  /\ ExecuteCommand(GatewayServer)
  /\ GS!ServerReplies(r)
  /\ UNCHANGED command

(* The cluster without the gateway: a step of Server that neither reads,   *)
(* decides nor answers a command of the gateway.                           *)
ClusterAlone ==
  /\ Next
  /\ \A i \in (Len(log) + 1)..Len(log') : ~OfGateway(log'[i])
  /\ requests'[GatewayServer][GatewayClient] = requests[GatewayServer][GatewayClient]
  /\ replies'[GatewayServer][GatewayClient] = replies[GatewayServer][GatewayClient]
  /\ UNCHANGED <<gatewayVars, command>>

HttpClusterNext ==
  \/ GatewayAlone
  \/ \E r \in Requests : ReadCommand(r) \/ DecideCommand(r) \/ AnswerCommand(r)
  \/ ClusterAlone

HttpClusterSpec == HttpClusterInit /\ [][HttpClusterNext]_httpClusterVars

-----------------------------------------------------------------------------
(* Properties.                                                             *)

(* Cluster and gateway agree on what has become of a command, so no server *)
(* is ever kept from a step by the gateway: what the server has proposed   *)
(* for the gateway and is not decided is a command that the gateway sent   *)
(* and holds to be unexecuted, and what it is about to answer is one that  *)
(* the gateway holds to be executed and unanswered.                        *)
InStep ==
  /\ \A cmd \in proposals : OfGateway(cmd) /\ ~Decided(cmd) =>
       \E r \in at_server : cmd = CommandOf(r)
  /\ AboutToAnswer =>
       \E r \in executed \ replied : Head(decided_commands[GatewayServer]) = CommandOf(r)

(* The cluster is the store that GatewayStore puts behind the gateway: a   *)
(* command of the gateway or of anybody else takes effect when it is       *)
(* decided, and each is answered once, in its own session, with the        *)
(* outcome it had then.                                                    *)
ServesGateway == GS!GatewayStoreSpec

(* From the HTTP client to the log and back: the gateway in front of the   *)
(* cluster is a linearizable store over HTTP.                              *)
EndToEnd == GS!HttpLinearizable
=============================================================================
