---------------------------- MODULE GatewayStore ----------------------------
(***************************************************************************)
(* The gateway in front of the replicated store: Gateway, whose server is  *)
(* now the store of LinearizableKV, which Server implements.  What comes   *)
(* out at the HTTP side is HttpKV.                                         *)
(*                                                                         *)
(* The gateway is one session of the store, a client connection of the     *)
(* server it registered at; its requests carry arbitrary commands.  Other  *)
(* sessions use the store at the same time, among them clients with the    *)
(* same number at other servers.                                           *)
(***************************************************************************)
EXTENDS Gateway, KVStore

CONSTANTS
  Servers, ClientIds,             (* the sessions of the store             *)
  GatewayServer, GatewayClient,   (* the one of the gateway                *)
  OtherCommands,                  (* the commands of the others            *)
  NoResult

(* The JSON objects of successes.                                          *)
Bodies == {[ok |-> TRUE]} \cup [ok : {TRUE}, value : Option]

ASSUME GatewayStoreAssumption == NoResult \notin Bodies

VARIABLES
  command,                              (* command[r]: the command of r    *)
  submitted, history, store, delivered  (* of LinearizableKV               *)

storeVars        == <<submitted, history, store, delivered>>
gatewayStoreVars == <<gatewayVars, command, storeVars>>

KV == INSTANCE LinearizableKV

OfGateway(cmd) == cmd.coordinator_id = GatewayServer /\ cmd.client_id = GatewayClient

ASSUME SessionAssumption ==
  /\ GatewayServer \in Servers
  /\ GatewayClient \in ClientIds
  /\ OtherCommands \subseteq KV!Command
  /\ \A cmd \in OtherCommands : ~OfGateway(cmd)

\* Fault: a command is stamped by the server it is forwarded to.
CommandOfForwarded(r) ==
  [client_id |-> GatewayClient,
   coordinator_id |-> CHOOSE n \in Servers : n # GatewayServer,
   id |-> cmd_id[r], kv_cmd |-> command[r]]

(* The server stamps what comes from the gateway with the ids of both.     *)
CommandOf(r) ==
  [client_id |-> GatewayClient, coordinator_id |-> GatewayServer,
   id |-> cmd_id[r], kv_cmd |-> command[r]]

GatewayStoreInit ==
  /\ GatewayInit
  /\ command \in [Requests -> KVCommand]
  /\ KV!KVInit

-----------------------------------------------------------------------------
(* The steps the gateway shares with the store.                            *)

Submits ==
  /\ WriteCommand
  /\ submitted' = submitted \cup {CommandOf(Head(tcp_tx))}
  /\ KV!Submit
  /\ UNCHANGED command

Executes(r) ==
  /\ ServerExecutes(r)
  /\ KV!TakeEffect(CommandOf(r))
  /\ UNCHANGED command

Replies(r) ==
  /\ ServerReplies(r)
  /\ \E i \in 1..Len(history) : history[i].cmd = CommandOf(r) /\ KV!Respond(i)
  /\ UNCHANGED command

(* The other steps.                                                        *)
Own(step) ==
  /\ step
  /\ UNCHANGED <<command, storeVars>>

(* The steps of the other sessions.                                        *)
OtherSession(step) ==
  /\ step
  /\ UNCHANGED <<gatewayVars, command>>

OtherSubmits ==
  /\ \E cmds \in SUBSET OtherCommands : submitted' = submitted \cup cmds
  /\ KV!Submit

OtherTakesEffect == \E cmd \in submitted \cap OtherCommands : KV!TakeEffect(cmd)

OtherIsAnswered ==
  \E i \in 1..Len(history) : ~OfGateway(history[i].cmd) /\ KV!Respond(i)

GatewayStoreNext ==
  \/ \E r \in Requests : Own(RequestStep(r)) \/ Own(Cancel(r)) \/ Own(ReceiveReply(r))
  \/ Own(WriterStops) \/ Own(PassOn) \/ Own(ReaderStops)
  \/ Submits
  \/ \E r \in Requests : Executes(r) \/ Replies(r) \/ Own(ServerLoses(r))
  \/ OtherSession(OtherSubmits) \/ OtherSession(OtherTakesEffect)
  \/ OtherSession(OtherIsAnswered)

GatewayStoreSpec == GatewayStoreInit /\ [][GatewayStoreNext]_gatewayStoreVars

(* Tasks run and the clock goes on.  Submits: the server keeps reading, or *)
(* the connection fails; without it a send into the full channel, which no *)
(* timeout covers, waits forever.  The store need not execute or reply.    *)
GatewayStoreFairSpec ==
  /\ GatewayStoreSpec
  /\ \A r \in Requests : WF_gatewayStoreVars(Own(RequestStep(r)))
  /\ WF_gatewayStoreVars(Submits \/ Own(WriterStops))
  /\ WF_gatewayStoreVars(Own(PassOn))

-----------------------------------------------------------------------------
(* What the HTTP client sees.                                              *)

(* get_handler.                                                            *)
GetBody(reply) ==
  IF reply.type = "Read" THEN [ok |-> TRUE, value |-> reply.value] ELSE [ok |-> TRUE]

(* put_handler and delete_handler, whatever the kind of the reply; the     *)
(* command id in the body is left out.                                     *)
WriteBody(reply) == [ok |-> TRUE]

(* What the handler of r makes of the reply to the command of q.           *)
BodyOf(r, q) ==
  LET at    == {i \in 1..Len(history) : history[i].cmd = CommandOf(q)}
      reply == history[CHOOSE i \in at : TRUE].reply
  IN  IF at = {} THEN NoResult
      ELSE IF command[r].op = "Get" THEN GetBody(reply) ELSE WriteBody(reply)

HTTP == INSTANCE HttpKV WITH
  made     <- {r \in Requests : pc[r] # "idle"},
  effect   <- [r \in Requests |-> BodyOf(r, r)],
  response <- [r \in Requests |->
    [status |-> status[r],
     result |-> IF body[r] = NoRequest THEN NoResult ELSE BodyOf(r, body[r])]]

-----------------------------------------------------------------------------
(* Properties.                                                             *)

(* The gateway in front of a linearizable store is a linearizable store    *)
(* over HTTP: a 200 carries the result its own command had at one moment   *)
(* during the request, a command has at most one effect, and none at all   *)
(* if the request returns 503, however timeouts, cancellations, late       *)
(* replies and the ends of the two tasks fall.                             *)
HttpLinearizable == HTTP!HttpSpec

(* Every HTTP request is answered or cancelled by its client.              *)
RequestsEnd == \A r \in Requests : <>(pc[r] \in {"done", "cancelled"})
=============================================================================
