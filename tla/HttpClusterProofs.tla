------------------------- MODULE HttpClusterProofs -------------------------
(***************************************************************************)
(* The whole system, for every cluster, number of requests, workload and   *)
(* number of failures: the gateway in front of the cluster is a            *)
(* linearizable store over HTTP.  ReplyProofs shows that the cluster is a  *)
(* store, GatewayProofs what a gateway makes of a store; what is shown     *)
(* here is that the cluster is the store that gateway needs                *)
(* (ServesGateway) and that the two stay in step (InStep).                 *)
(***************************************************************************)
EXTENDS HttpCluster, ReplyProofs

(* The commands known for the gateway, and those of the others.            *)
Submitted ==
  {CommandOf(r) : r \in at_server \cup executed} \cup {cmd \in proposals : ~OfGateway(cmd)}

(* What is known of the gateway, for this server.                          *)
G == INSTANCE GatewayProofs WITH
  submitted <- Submitted,
  history   <- Hist,
  store     <- ref[Len(ref)],
  delivered <- replies

(* The gateway is one of the clients of its server.                        *)
LEMMA GatewayIsClient == GatewayServer \in Servers /\ GatewayClient \in ClientIds
  BY HttpClusterAssumption DEF ClientIds

(* What GatewayProofs assumes.                                             *)
LEMMA Assumptions ==
  /\ QueueCap \in Nat \ {0} /\ NoRequest \notin Requests /\ Requests \cap {"open", "closed"} = {}
  /\ NoResult \notin G!Bodies
  /\ GatewayServer \in Servers /\ GatewayClient \in ClientIds
  /\ OtherCommands \subseteq G!KV!Command
  /\ \A cmd \in OtherCommands : ~G!OfGateway(cmd)
  /\ NoValue \notin Values
<1>1. NoResult \notin G!Bodies
  BY HttpClusterAssumption DEF GS!Bodies, G!Bodies, GS!Option, G!Option
<1>2. OtherCommands \subseteq G!KV!Command
  BY ServerAssumption DEF OtherCommands, G!KV!Command, G!KV!KVCommand, G!KV!Put, G!KV!Get,
     G!KV!Delete, KVCommand, Put, Get, Delete
<1>3. \A cmd \in OtherCommands : ~G!OfGateway(cmd)
  BY DEF OtherCommands, G!OfGateway, OfGateway
<1> QED BY <1>1, <1>2, <1>3, GatewayIsClient, HttpClusterAssumption, KVAssumption

-----------------------------------------------------------------------------
(* The steps of the two parts.                                             *)

(* GS and G mean the same gateway.                                         *)
LEMMA SameInit == GS!GatewayInit <=> G!GatewayInit
  BY DEF GS!GatewayInit, G!GatewayInit

LEMMA SameRequestStep == ASSUME NEW r PROVE GS!RequestStep(r) <=> G!RequestStep(r)
  BY DEF GS!RequestStep, GS!DrawId, GS!InsertPending, GS!SendCommand, GS!SendFails,
     GS!Answered, GS!ChannelClosed, GS!TimesOut, GS!CleanUp, GS!ErrorStatus,
     GS!sharedVars, GS!taskVars, GS!serverVars,
     G!RequestStep, G!DrawId, G!InsertPending, G!SendCommand, G!SendFails,
     G!Answered, G!ChannelClosed, G!TimesOut, G!CleanUp, G!ErrorStatus,
     G!sharedVars, G!taskVars, G!serverVars

LEMMA SameSteps ==
  /\ \A r : /\ GS!Cancel(r) <=> G!Cancel(r)
            /\ GS!ReceiveReply(r) <=> G!ReceiveReply(r)
            /\ GS!ServerExecutes(r) <=> G!ServerExecutes(r)
            /\ GS!ServerReplies(r) <=> G!ServerReplies(r)
  /\ GS!WriteCommand <=> G!WriteCommand
  /\ GS!WriterStops <=> G!WriterStops
  /\ GS!PassOn <=> G!PassOn
  /\ GS!ReaderStops <=> G!ReaderStops
<1> USE DEF GS!requestVars, GS!sharedVars, GS!taskVars, GS!serverVars,
            G!requestVars, G!sharedVars, G!taskVars, G!serverVars
<1>1. ASSUME NEW r
      PROVE  /\ GS!Cancel(r) <=> G!Cancel(r)
             /\ GS!ReceiveReply(r) <=> G!ReceiveReply(r)
             /\ GS!ServerExecutes(r) <=> G!ServerExecutes(r)
             /\ GS!ServerReplies(r) <=> G!ServerReplies(r)
  BY DEF GS!Cancel, GS!ReceiveReply, GS!ServerExecutes, GS!ServerReplies,
     G!Cancel, G!ReceiveReply, G!ServerExecutes, G!ServerReplies
<1>2. /\ GS!WriteCommand <=> G!WriteCommand
      /\ GS!WriterStops <=> G!WriterStops
      /\ GS!PassOn <=> G!PassOn
      /\ GS!ReaderStops <=> G!ReaderStops
  BY DEF GS!WriteCommand, GS!WriterStops, GS!PassOn, GS!Waiter, GS!ReaderStops,
     G!WriteCommand, G!WriterStops, G!PassOn, G!Waiter, G!ReaderStops
<1> QED BY <1>1, <1>2

LEMMA SameVars == UNCHANGED gatewayVars <=> UNCHANGED G!gatewayVars
  BY DEF gatewayVars, G!gatewayVars, G!requestVars, G!sharedVars, G!taskVars, G!serverVars

(* The gateway sends what clients of its server may send.                  *)
CommandsAllowed == command \in [Requests -> Workload[GatewayServer]]

(* Projected on the cluster, every step is one of Server ...               *)
LEMMA StepOfCluster ==
  ASSUME CommandsAllowed, [HttpClusterNext]_httpClusterVars
  PROVE  [Next]_vars
<1>1. CASE UNCHANGED httpClusterVars
  BY <1>1 DEF httpClusterVars
<1>2. CASE GatewayAlone \/ ClusterAlone
  BY <1>2 DEF GatewayAlone, ClusterAlone
<1>3. CASE \E r \in Requests : ReadCommand(r)
  BY <1>3, GatewayIsClient DEF CommandsAllowed, ReadCommand, Next, Environment
<1>4. CASE \E r \in Requests : DecideCommand(r)
  BY <1>4 DEF DecideCommand, Next, Environment
<1>5. CASE \E r \in Requests : AnswerCommand(r)
  BY <1>5, HttpClusterAssumption DEF AnswerCommand, Next, ServerStep
<1> QED BY <1>1, <1>2, <1>3, <1>4, <1>5 DEF HttpClusterNext

(* ... and projected on the gateway one of Gateway.                        *)
LEMMA StepOfGateway ==
  ASSUME [HttpClusterNext]_httpClusterVars
  PROVE  [G!GatewayNext]_(G!gatewayVars)
<1>1. CASE UNCHANGED httpClusterVars
  BY <1>1, SameVars DEF httpClusterVars
<1>2. CASE GatewayAlone
  BY <1>2, SameRequestStep, SameSteps DEF GatewayAlone, G!GatewayNext
<1>3. CASE ClusterAlone
  BY <1>3, SameVars DEF ClusterAlone
<1>4. CASE \E r \in Requests : ReadCommand(r)
  BY <1>4, SameVars DEF ReadCommand
<1>5. CASE \E r \in Requests : DecideCommand(r)
  BY <1>5, SameSteps DEF DecideCommand, G!GatewayNext
<1>6. CASE \E r \in Requests : AnswerCommand(r)
  BY <1>6, SameSteps DEF AnswerCommand, G!GatewayNext
<1> QED BY <1>1, <1>2, <1>3, <1>4, <1>5, <1>6 DEF HttpClusterNext

-----------------------------------------------------------------------------
(* What is in flight: proposed, or read and about to be.                   *)

Waiting(n) == {Queued(n, i) : i \in 1..Len(client_messages[n])}

InFlight == proposals \cup UNION {Waiting(n) : n \in Servers}

Stamped(n, c, id, cmd) == [client_id |-> c, coordinator_id |-> n, id |-> id, kv_cmd |-> cmd]

LEMMA InFlightType == ASSUME TypeOK PROVE InFlight \subseteq Command
  BY QueuedType DEF InFlight, Waiting, TypeOK

LEMMA InFlightFrame ==
  ASSUME UNCHANGED <<proposals, client_messages>> PROVE InFlight' = InFlight
  BY DEF InFlight, Waiting, Queued

(* A request that is read is in flight.                                    *)
LEMMA InFlightRequest ==
  ASSUME TypeOK, NEW n \in Servers, NEW c \in ClientIds, NEW id \in Nat, NEW cmd \in KVCommand,
         ClientRequest(n, c, id, cmd)
  PROVE  InFlight' \subseteq InFlight \cup {Stamped(n, c, id, cmd)}
<1> DEFINE queue == client_messages[n]
           msg   == [from |-> c, id |-> id, kv_cmd |-> cmd]
<1>1. /\ UNCHANGED proposals
      /\ client_messages' = [client_messages EXCEPT ![n] = Append(queue, msg)]
  BY DEF ClientRequest, omniVars
<1>2. client_messages \in [Servers -> Seq(ClientMessage)] /\ msg \in ClientMessage
  BY DEF TypeOK, ClientMessage
<1>3. /\ \A m \in Servers \ {n} : client_messages'[m] = client_messages[m]
      /\ client_messages'[n] = Append(queue, msg)
      /\ Len(client_messages'[n]) = Len(queue) + 1 /\ Len(queue) \in Nat
      /\ \A i \in 1..Len(queue) : client_messages'[n][i] = queue[i]
      /\ client_messages'[n][Len(queue) + 1] = msg
  BY <1>1, <1>2
<1>4. Stamp(n, msg) = Stamped(n, c, id, cmd)
  BY DEF Stamp, Stamped
<1> HIDE DEF msg
<1>5. ASSUME NEW m \in Servers, NEW i \in 1..Len(client_messages'[m])
      PROVE  Queued(m, i)' \in Waiting(m) \cup {Stamped(n, c, id, cmd)}
  <2>1. CASE m = n
    <3>1. i \in 1..Len(queue) \/ i = Len(queue) + 1
      BY <1>3, <2>1
    <3> QED BY <1>3, <1>4, <2>1, <3>1 DEF Queued, Waiting
  <2>2. CASE m # n
    BY <1>3, <2>2 DEF Queued, Waiting
  <2> QED BY <2>1, <2>2
<1> QED BY <1>1, <1>5 DEF InFlight, Waiting

(* Nothing else puts anything in flight.                                   *)
LEMMA InFlightPropose ==
  ASSUME TypeOK, NEW n \in Servers, HandleClientMessages(n)
  PROVE  InFlight' \subseteq InFlight
<1> DEFINE queue == client_messages[n]
<1>1. PICK k : /\ k = Taken(queue)
               /\ proposals' = proposals \cup {Queued(n, i) : i \in 1..k}
               /\ client_messages' = [client_messages EXCEPT
                                        ![n] = SubSeq(queue, k + 1, Len(queue))]
  BY DEF HandleClientMessages, Queued
<1>2. client_messages \in [Servers -> Seq(ClientMessage)]
  BY DEF TypeOK
<1>3. queue \in Seq(ClientMessage) /\ Len(queue) \in Nat /\ k \in 0..Len(queue)
  BY <1>1, <1>2, ServerAssumption DEF Taken
<1>4. /\ \A m \in Servers \ {n} : client_messages'[m] = client_messages[m]
      /\ client_messages'[n] = SubSeq(queue, k + 1, Len(queue))
  BY <1>1, <1>2
<1>5. /\ Len(SubSeq(queue, k + 1, Len(queue))) = Len(queue) - k
      /\ \A i \in 1..(Len(queue) - k) :
           SubSeq(queue, k + 1, Len(queue))[i] = queue[k + i] /\ k + i \in 1..Len(queue)
  <2> HIDE DEF queue
  <2> QED BY <1>3
<1>6. proposals' \subseteq InFlight
  BY <1>1, <1>3 DEF InFlight, Waiting
<1>7. ASSUME NEW m \in Servers, NEW i \in 1..Len(client_messages'[m])
      PROVE  Queued(m, i)' \in Waiting(m)
  <2>1. CASE m = n
    BY <1>3, <1>4, <1>5, <2>1 DEF Queued, Waiting
  <2>2. CASE m # n
    BY <1>4, <2>2 DEF Queued, Waiting
  <2> QED BY <2>1, <2>2
<1> QED BY <1>6, <1>7 DEF InFlight, Waiting

LEMMA InFlightNext ==
  ASSUME TypeOK, [Next]_vars
  PROVE  \/ InFlight' \subseteq InFlight
         \/ \E n \in Servers, c \in ClientIds : \E id \in RequestIds[n], cmd \in Workload[n] :
              ClientRequest(n, c, id, cmd)
<1> DEFINE Frame == UNCHANGED <<proposals, client_messages>>
<1> USE DEF omniVars, loopVars, appVars, clusterVars, clientVars, inputVars, ghostVars
<1>1. ASSUME NEW n \in Servers, ServerStep(n) PROVE Frame \/ HandleClientMessages(n)
  BY <1>1 DEF ServerStep, LeaderInitialized, AttemptLeadership, ElectionTick,
     HandleOmniPaxosMessage, OmniHandleIncoming, HandleLeaderStartSignal, ExecuteCommand,
     FinishBatch
<1>2. ASSUME Environment
      PROVE  \/ Frame
             \/ \E n \in Servers, c \in ClientIds : \E id \in RequestIds[n], cmd \in Workload[n] :
                  ClientRequest(n, c, id, cmd)
  <2>1. ASSUME NEW n \in Servers, NEW c \in ClientIds,
               BreakClient(n, c) \/ ClientWriterEnds(n, c)
        PROVE  Frame
    BY <2>1 DEF BreakClient, ClientWriterEnds
  <2>2. ASSUME NEW n \in Servers, NEW p \in Servers,
               BreakPeer(n, p) \/ PeerWriterEnds(n, p) \/ NetworkReady(n) \/ ReadHandshake(n, p)
        PROVE  Frame
    BY <2>2 DEF BreakPeer, PeerWriterEnds, NetworkReady, ReadHandshake
  <2>3. ASSUME NEW cmd, Decide(cmd) PROVE Frame
    BY <2>3 DEF Decide, OmniDecide
  <2> HIDE DEF Frame
  <2> QED BY <1>2, <2>1, <2>2, <2>3 DEF Environment, Peers, Higher
<1>3. CASE UNCHANGED vars
  BY <1>3, InFlightFrame DEF vars
<1>4. Frame => InFlight' = InFlight
  BY InFlightFrame
<1> HIDE DEF Frame
<1> QED BY <1>1, <1>2, <1>3, <1>4, InFlightPropose DEF Next

-----------------------------------------------------------------------------
(* The log grows, and so does what a server has executed of it.            *)
LEMMA LogGrows ==
  ASSUME ReplicaInv, [Next]_vars
  PROVE  /\ Len(log) \in Nat /\ Len(log') \in Nat /\ Len(log) <= Len(log')
         /\ \A i \in 1..Len(log) : log'[i] = log[i]
         /\ \A n \in Servers : /\ Applied(n) \in Nat /\ Applied(n)' \in Nat
                               /\ Applied(n) <= Applied(n)'
<1>1. log \in Seq(Command) /\ Len(log) \in Nat
  BY DEF ReplicaInv, TypeOK
<1>2. \A n \in Servers : Applied(n) \in Nat
  BY AppliedInLog
<1>3. ASSUME NEW n \in Servers, ExecuteCommand(n)
      PROVE  /\ UNCHANGED log
             /\ \A m \in Servers : Applied(m)' \in Nat /\ Applied(m) <= Applied(m)'
  <2>1. UNCHANGED log
    BY <1>3 DEF ExecuteCommand, omniVars
  <2>2. /\ Applied(n)' = Applied(n) + 1
        /\ \A m \in Servers \ {n} : Applied(m)' = Applied(m)
    BY <1>3, ExecuteIsNextEntry
  <2> QED BY <1>2, <2>1, <2>2
<1>4. CASE \A n \in Servers : ~ExecuteCommand(n)
  <2>1. \A n \in Servers : Applied(n)' = Applied(n)
    BY <1>4, OtherStepsKeepReplies DEF RepliesFrame
  <2>2. ASSUME NEW cmd \in proposals, Decide(cmd)
        PROVE  /\ Len(log') = Len(log) + 1
               /\ \A i \in 1..Len(log) : log'[i] = log[i]
    <3>1. log' = Append(log, cmd) /\ cmd \in Command
      BY <2>2 DEF Decide, OmniDecide, ReplicaInv, TypeOK
    <3> QED BY <1>1, <3>1
  <2>3. /\ Len(log') \in Nat /\ Len(log) <= Len(log')
        /\ \A i \in 1..Len(log) : log'[i] = log[i]
    BY <1>1, <1>4, <2>2, KVKinds
  <2> QED BY <1>1, <1>2, <2>1, <2>3
<1> QED BY <1>1, <1>2, <1>3, <1>4

(* A request keeps its command, once it has one.                           *)
LEMMA CommandsKept ==
  ASSUME G!GatewayInv, [HttpClusterNext]_httpClusterVars, NEW r \in Requests, pc[r] # "idle"
  PROVE  CommandOf(r)' = CommandOf(r)
<1>1. UNCHANGED command
  BY DEF HttpClusterNext, GatewayAlone, ReadCommand, DecideCommand, AnswerCommand, ClusterAlone,
     httpClusterVars
<1>2. ASSUME NEW q \in Requests, G!DrawId(q) PROVE cmd_id'[r] = cmd_id[r]
  BY <1>2 DEF G!DrawId, G!GatewayInv, G!GatewayTypeOK
<1>3. [G!GatewayNext]_(G!gatewayVars)
  BY StepOfGateway
<1>4. (\E q \in Requests : G!DrawId(q)) \/ UNCHANGED cmd_id
  BY <1>3 DEF G!GatewayNext, G!RequestStep, G!InsertPending, G!SendCommand, G!SendFails,
     G!Answered, G!ChannelClosed, G!TimesOut, G!CleanUp, G!Cancel, G!ReceiveReply,
     G!WriteCommand, G!WriterStops, G!PassOn, G!ReaderStops, G!ServerExecutes,
     G!ServerReplies, G!ServerLoses, G!gatewayVars, G!requestVars
<1> QED BY <1>1, <1>2, <1>4 DEF CommandOf

(* A command that is downstream of its task is that of a request.          *)
LEMMA SentNotIdle ==
  ASSUME G!GatewayInv, NEW r \in at_server \cup executed
  PROVE  r \in Requests /\ pc[r] # "idle"
  BY DEF G!GatewayInv, G!GatewayTypeOK, G!SentByTask, G!Sent

-----------------------------------------------------------------------------
(* Cluster and gateway agree.                                              *)

(* Clients of a server send what its clients may send.                     *)
Allowed ==
  \A x \in InFlight :
    /\ x.id \in RequestIds[x.coordinator_id]
    /\ x.kv_cmd \in Workload[x.coordinator_id]

(* What is in flight for the gateway, it sent; what is decided for it, it  *)
(* holds to be executed; what it holds to be answered, its server has      *)
(* executed.                                                               *)
KnownInFlight ==
  \A x \in InFlight : OfGateway(x) /\ ~Decided(x) => \E r \in at_server : x = CommandOf(r)

KnownInLog ==
  \A i \in 1..Len(log) : OfGateway(log[i]) => \E r \in executed : log[i] = CommandOf(r)

AnsweredIsApplied ==
  \A r \in replied : \E i \in 1..Len(log) : i <= Applied(GatewayServer) /\ log[i] = CommandOf(r)

KnownToGateway == KnownInFlight /\ KnownInLog /\ AnsweredIsApplied

HttpClusterInv ==
  /\ ReplicaInv /\ RepliesFollowLog /\ IdInv
  /\ G!GatewayInv
  /\ CommandsAllowed /\ Allowed
  /\ KnownToGateway

LEMMA HttpClusterInvInit == HttpClusterInit => HttpClusterInv
<1> SUFFICES ASSUME HttpClusterInit PROVE HttpClusterInv
  OBVIOUS
<1>1. Init /\ G!GatewayInit /\ CommandsAllowed
  BY SameInit DEF HttpClusterInit, CommandsAllowed
<1>2. ReplicaInv /\ RepliesFollowLog /\ IdInv
  BY <1>1, ReplicaInvInit, RepliesInit, IdInvInit
<1>3. G!GatewayInv
  BY <1>1, G!GatewayInvInit, Assumptions
<1>4. InFlight = {}
  BY <1>1 DEF Init, OmniInit, InFlight, Waiting
<1>5. log = << >> /\ replied = {}
  BY <1>1 DEF Init, OmniInit, G!GatewayInit
<1>6. Allowed /\ KnownToGateway
  BY <1>4, <1>5 DEF Allowed, KnownToGateway, KnownInFlight, KnownInLog, AnsweredIsApplied
<1> QED BY <1>1, <1>2, <1>3, <1>6 DEF HttpClusterInv

LEMMA CommandsAllowedNext ==
  ASSUME CommandsAllowed, [HttpClusterNext]_httpClusterVars
  PROVE  CommandsAllowed'
  BY DEF CommandsAllowed, HttpClusterNext, GatewayAlone, ReadCommand, DecideCommand,
     AnswerCommand, ClusterAlone, httpClusterVars

LEMMA AllowedNext ==
  ASSUME TypeOK, Allowed, [Next]_vars
  PROVE  Allowed'
<1>1. CASE InFlight' \subseteq InFlight
  BY <1>1 DEF Allowed
<1>2. ASSUME NEW n \in Servers, NEW c \in ClientIds, NEW id \in RequestIds[n],
             NEW cmd \in Workload[n], ClientRequest(n, c, id, cmd)
      PROVE  Allowed'
  <2>1. id \in Nat /\ cmd \in KVCommand
    BY ServerAssumption
  <2>2. InFlight' \subseteq InFlight \cup {Stamped(n, c, id, cmd)}
    BY <1>2, <2>1, InFlightRequest
  <2> QED BY <2>2 DEF Allowed, Stamped
<1> QED BY <1>1, <1>2, InFlightNext

(* A step without a command of the gateway.                                *)
LEMMA KnownFrame ==
  ASSUME HttpClusterInv, [HttpClusterNext]_httpClusterVars,
         \A x \in InFlight' \ InFlight : ~OfGateway(x),
         \A i \in (Len(log) + 1)..Len(log') : ~OfGateway(log'[i]),
         at_server \subseteq at_server', executed \subseteq executed', UNCHANGED replied
  PROVE  KnownToGateway'
<1>1. [Next]_vars
  BY StepOfCluster DEF HttpClusterInv
<1>2. /\ Len(log) \in Nat /\ Len(log') \in Nat /\ Len(log) <= Len(log')
      /\ \A i \in 1..Len(log) : log'[i] = log[i]
      /\ Applied(GatewayServer) \in Nat /\ Applied(GatewayServer)' \in Nat
      /\ Applied(GatewayServer) <= Applied(GatewayServer)'
  BY <1>1, LogGrows, HttpClusterAssumption DEF HttpClusterInv
<1>3. \A r \in at_server \cup executed : CommandOf(r)' = CommandOf(r)
  BY CommandsKept, SentNotIdle DEF HttpClusterInv
<1>4. ASSUME NEW i \in 1..Len(log) PROVE i \in 1..Len(log')
  BY <1>2
<1>5. KnownInFlight'
  <2> SUFFICES ASSUME NEW x \in InFlight', OfGateway(x), ~Decided(x)'
               PROVE  \E r \in at_server' : x = CommandOf(r)'
    BY DEF KnownInFlight, OfGateway
  <2>1. x \in InFlight
    OBVIOUS
  <2>2. ~Decided(x)
    BY <1>2, <1>4 DEF Decided
  <2> QED BY <1>3, <2>1, <2>2 DEF HttpClusterInv, KnownToGateway, KnownInFlight
<1>6. KnownInLog'
  <2> SUFFICES ASSUME NEW i \in 1..Len(log'), OfGateway(log'[i])
               PROVE  \E r \in executed' : log'[i] = CommandOf(r)'
    BY DEF KnownInLog, OfGateway
  <2>1. i \in 1..Len(log)
    BY <1>2
  <2> QED BY <1>2, <1>3, <2>1 DEF HttpClusterInv, KnownToGateway, KnownInLog
<1>7. AnsweredIsApplied'
  <2> SUFFICES ASSUME NEW r \in replied
               PROVE  \E i \in 1..Len(log') :
                        i <= Applied(GatewayServer)' /\ log'[i] = CommandOf(r)'
    BY DEF AnsweredIsApplied
  <2>1. PICK i \in 1..Len(log) : i <= Applied(GatewayServer) /\ log[i] = CommandOf(r)
    BY DEF HttpClusterInv, KnownToGateway, AnsweredIsApplied
  <2>2. r \in executed
    BY DEF HttpClusterInv, G!GatewayInv, G!ReplyPath
  <2> QED BY <1>2, <1>3, <1>4, <2>1, <2>2
<1> QED BY <1>5, <1>6, <1>7 DEF KnownToGateway

LEMMA KnownRead ==
  ASSUME HttpClusterInv, NEW r \in Requests, ReadCommand(r)
  PROVE  KnownToGateway'
<1>1. /\ r \in at_server
      /\ UNCHANGED <<log, gatewayVars, command>>
      /\ ClientRequest(GatewayServer, GatewayClient, cmd_id[r], command[r])
  BY DEF ReadCommand, ClientRequest, omniVars
<1>2. cmd_id[r] \in Nat /\ command[r] \in KVCommand
  BY ServerAssumption, HttpClusterAssumption
     DEF ReadCommand, HttpClusterInv, CommandsAllowed
<1>3. InFlight' \subseteq InFlight \cup {CommandOf(r)}
  <2>1. Stamped(GatewayServer, GatewayClient, cmd_id[r], command[r]) = CommandOf(r)
    BY DEF Stamped, CommandOf
  <2> QED BY <1>1, <1>2, <2>1, InFlightRequest, GatewayIsClient DEF HttpClusterInv, ReplicaInv
<1>4. /\ \A q : CommandOf(q)' = CommandOf(q)
      /\ \A n : Applied(n)' = Applied(n)
      /\ UNCHANGED <<at_server, executed, replied>>
  BY <1>1 DEF gatewayVars, CommandOf, ClientRequest, appVars, Applied
<1>5. KnownInFlight'
  BY <1>1, <1>3, <1>4
     DEF HttpClusterInv, KnownToGateway, KnownInFlight, Decided, OfGateway
<1>6. KnownInLog' /\ AnsweredIsApplied'
  BY <1>1, <1>4
     DEF HttpClusterInv, KnownToGateway, KnownInLog, AnsweredIsApplied, OfGateway
<1> QED BY <1>5, <1>6 DEF KnownToGateway

LEMMA KnownDecide ==
  ASSUME HttpClusterInv, NEW r \in Requests, DecideCommand(r)
  PROVE  KnownToGateway'
<1>1. /\ log' = Append(log, CommandOf(r))
      /\ UNCHANGED <<proposals, client_messages, cmd_id, command, replied>>
      /\ at_server' = at_server \ {r} /\ executed' = executed \cup {r}
  BY DEF DecideCommand, Decide, OmniDecide, inputVars, GS!ServerExecutes, GS!requestVars
<1>2. log \in Seq(Command) /\ CommandOf(r) \in Command
  BY DEF HttpClusterInv, ReplicaInv, TypeOK, DecideCommand
<1>3. /\ Len(log') = Len(log) + 1 /\ Len(log) \in Nat
      /\ \A i \in 1..Len(log) : log'[i] = log[i]
      /\ log'[Len(log) + 1] = CommandOf(r)
  BY <1>1, <1>2
<1>4. /\ \A q : CommandOf(q)' = CommandOf(q)
      /\ \A n : Applied(n)' = Applied(n)
      /\ InFlight' = InFlight
  BY <1>1, InFlightFrame DEF CommandOf, DecideCommand, Decide, appVars, Applied
<1>5. \A i \in 1..Len(log') : i \in 1..Len(log) \/ i = Len(log) + 1
  BY <1>3
<1>6. \A i \in 1..Len(log) : i \in 1..Len(log')
  BY <1>3
<1>7. \A x : Decided(x)' <=> Decided(x) \/ x = CommandOf(r)
  BY <1>3, <1>5, <1>6 DEF Decided
<1>8. KnownInFlight'
  BY <1>1, <1>4, <1>7 DEF HttpClusterInv, KnownToGateway, KnownInFlight, OfGateway
<1>9. KnownInLog'
  BY <1>1, <1>3, <1>4, <1>5 DEF HttpClusterInv, KnownToGateway, KnownInLog, OfGateway
<1>10. AnsweredIsApplied'
  BY <1>1, <1>3, <1>4, <1>6 DEF HttpClusterInv, KnownToGateway, AnsweredIsApplied
<1> QED BY <1>8, <1>9, <1>10 DEF KnownToGateway

LEMMA KnownAnswer ==
  ASSUME HttpClusterInv, NEW r \in Requests, AnswerCommand(r)
  PROVE  KnownToGateway'
<1>1. /\ UNCHANGED <<log, proposals, client_messages, cmd_id, command, at_server, executed>>
      /\ replied' = replied \cup {r}
  BY DEF AnswerCommand, ExecuteCommand, omniVars, inputVars, GS!ServerReplies, GS!requestVars
<1>2. /\ \A q : CommandOf(q)' = CommandOf(q)
      /\ InFlight' = InFlight
  BY <1>1, InFlightFrame DEF CommandOf
<1>3. PICK a \in Nat, next \in 1..Len(log) :
        /\ a = Applied(GatewayServer) /\ next = a + 1 /\ next = Applied(GatewayServer)'
        /\ log[next] = CommandOf(r)
  BY ExecuteIsNextEntry, HttpClusterAssumption DEF HttpClusterInv, AnswerCommand
<1>4. KnownInFlight' /\ KnownInLog'
  BY <1>1, <1>2
     DEF HttpClusterInv, KnownToGateway, KnownInFlight, KnownInLog, Decided, OfGateway
<1>5. AnsweredIsApplied'
  <2> SUFFICES ASSUME NEW q \in replied'
               PROVE  \E i \in 1..Len(log) : i <= next /\ log[i] = CommandOf(q)
    BY <1>1, <1>2, <1>3 DEF AnsweredIsApplied
  <2>1. CASE q = r
    BY <1>3, <2>1
  <2>2. CASE q \in replied
    <3>1. PICK i \in 1..Len(log) : i <= a /\ log[i] = CommandOf(q)
      BY <1>3, <2>2 DEF HttpClusterInv, KnownToGateway, AnsweredIsApplied
    <3> QED BY <1>3, <3>1
  <2> QED BY <1>1, <2>1, <2>2
<1> QED BY <1>4, <1>5 DEF KnownToGateway

LEMMA KnownCluster ==
  ASSUME HttpClusterInv, ClusterAlone
  PROVE  KnownToGateway'
<1>1. ASSUME NEW x \in InFlight' \ InFlight PROVE ~OfGateway(x)
  <2>1. PICK n \in Servers, c \in ClientIds : \E id \in RequestIds[n], cmd \in Workload[n] :
          ClientRequest(n, c, id, cmd)
    BY InFlightNext DEF ClusterAlone, HttpClusterInv, ReplicaInv
  <2>2. PICK id \in RequestIds[n], cmd \in Workload[n] : ClientRequest(n, c, id, cmd)
    BY <2>1
  <2>3. id \in Nat /\ cmd \in KVCommand
    BY ServerAssumption
  <2>4. x = Stamped(n, c, id, cmd)
    BY <2>2, <2>3, InFlightRequest DEF HttpClusterInv, ReplicaInv
  <2>5. /\ id \notin requests[n][c]
        /\ requests' = [requests EXCEPT ![n][c] = @ \cup {id}]
        /\ requests \in [Servers -> [ClientIds -> SUBSET Nat]]
    BY <2>2 DEF ClientRequest, HttpClusterInv, ReplicaInv, TypeOK
  <2>6. id \in requests'[n][c]
    BY <2>5
  <2>7. ~(n = GatewayServer /\ c = GatewayClient)
    BY <2>5, <2>6 DEF ClusterAlone
  <2> QED BY <2>4, <2>7 DEF Stamped, OfGateway
<1>2. UNCHANGED <<at_server, executed, replied>>
  BY DEF ClusterAlone, gatewayVars
<1> QED BY <1>1, <1>2, KnownFrame DEF ClusterAlone, HttpClusterNext

LEMMA KnownGateway ==
  ASSUME HttpClusterInv, GatewayAlone \/ UNCHANGED httpClusterVars
  PROVE  KnownToGateway'
<1>1. UNCHANGED <<proposals, client_messages, log>>
  BY DEF GatewayAlone, httpClusterVars, vars, omniVars, inputVars
<1>2. at_server \subseteq at_server' /\ executed \subseteq executed' /\ UNCHANGED replied
  BY DEF GatewayAlone, httpClusterVars, gatewayVars, GS!RequestStep, GS!DrawId, GS!InsertPending,
     GS!SendCommand, GS!SendFails, GS!Answered, GS!ChannelClosed, GS!TimesOut, GS!CleanUp,
     GS!Cancel, GS!ReceiveReply, GS!WriteCommand, GS!WriterStops, GS!PassOn, GS!ReaderStops,
     GS!serverVars
<1>3. InFlight' = InFlight
  BY <1>1, InFlightFrame
<1>4. Len(log) \in Nat
  BY DEF HttpClusterInv, ReplicaInv, TypeOK
<1> QED BY <1>1, <1>2, <1>3, <1>4, KnownFrame DEF HttpClusterNext

LEMMA HttpClusterInvNext ==
  HttpClusterInv /\ [HttpClusterNext]_httpClusterVars => HttpClusterInv'
<1> SUFFICES ASSUME HttpClusterInv, [HttpClusterNext]_httpClusterVars PROVE HttpClusterInv'
  OBVIOUS
<1>1. [Next]_vars
  BY StepOfCluster DEF HttpClusterInv
<1>2. ReplicaInv' /\ RepliesFollowLog' /\ IdInv' /\ Allowed'
  BY <1>1, ReplicaInvNext, RepliesNext, IdInvNext, AllowedNext DEF HttpClusterInv, ReplicaInv
<1>3. G!GatewayInv'
  BY StepOfGateway, G!GatewayInvNext, Assumptions DEF HttpClusterInv
<1>4. CommandsAllowed'
  BY CommandsAllowedNext DEF HttpClusterInv
<1>5. KnownToGateway'
  BY KnownRead, KnownDecide, KnownAnswer, KnownCluster, KnownGateway DEF HttpClusterNext
<1> QED BY <1>2, <1>3, <1>4, <1>5 DEF HttpClusterInv

LEMMA HttpClusterInvImplies == HttpClusterInv => InStep
<1> SUFFICES ASSUME HttpClusterInv PROVE InStep
  OBVIOUS
<1>1. ASSUME NEW cmd \in proposals, OfGateway(cmd), ~Decided(cmd)
      PROVE  \E r \in at_server : cmd = CommandOf(r)
  BY <1>1 DEF HttpClusterInv, KnownToGateway, KnownInFlight, InFlight
<1>2. ASSUME AboutToAnswer
      PROVE  \E r \in executed \ replied : Head(decided_commands[GatewayServer]) = CommandOf(r)
  <2> DEFINE todo == decided_commands[GatewayServer]
  <2>1. PICK a \in Nat, next \in 1..Len(log) :
          a = Applied(GatewayServer) /\ next = a + 1 /\ Head(todo) = log[next]
    <3>1. /\ todo \in Seq(Command) /\ todo # << >>
          /\ current_decided_idx[GatewayServer] \in Nat
      BY <1>2, HttpClusterAssumption DEF AboutToAnswer, HttpClusterInv, ReplicaInv, TypeOK
    <3>2. /\ \A j \in 1..Len(todo) : todo[j] = log[Applied(GatewayServer) + j]
          /\ Applied(GatewayServer) = current_decided_idx[GatewayServer] - Len(todo)
      BY HttpClusterAssumption DEF HttpClusterInv, ReplicaInv, PendingSegment, Applied
    <3>3. /\ Applied(GatewayServer) \in Nat /\ Len(log) \in Nat
          /\ current_decided_idx[GatewayServer] <= Len(log)
      BY AppliedInLog, HttpClusterAssumption DEF HttpClusterInv, ReplicaInv, PickedUp
    <3> HIDE DEF todo
    <3>4. Len(todo) \in Nat \ {0} /\ Head(todo) = todo[1]
      BY <3>1
    <3>5. Applied(GatewayServer) + 1 \in 1..Len(log)
      BY <3>1, <3>2, <3>3, <3>4
    <3>6. Head(todo) = log[Applied(GatewayServer) + 1]
      BY <3>2, <3>4
    <3> QED BY <3>3, <3>5, <3>6
  <2>2. PICK r \in executed : log[next] = CommandOf(r)
    BY <1>2, <2>1 DEF AboutToAnswer, HttpClusterInv, KnownToGateway, KnownInLog
  <2>3. ASSUME r \in replied PROVE FALSE
    <3>1. PICK i \in 1..Len(log) : i <= a /\ log[i] = CommandOf(r)
      BY <2>1, <2>3 DEF HttpClusterInv, KnownToGateway, AnsweredIsApplied
    <3>2. i = next
      BY <2>2, <3>1 DEF HttpClusterInv, IdInv, LogOfProposals
    <3> QED BY <2>1, <3>1, <3>2
  <2> QED BY <2>1, <2>2, <2>3
<1> QED BY <1>1, <1>2 DEF InStep

(* Cluster and gateway stay in step, whatever connections break and        *)
(* however commands are lost, batched, decided in another order and        *)
(* answered late: the cluster never takes for a command of the gateway     *)
(* what the gateway has not sent, and never answers it twice               *)
(* (writer_task, handle_client_messages, update_database_and_respond).     *)
THEOREM NeverOutOfStep == HttpClusterSpec => []InStep
  BY HttpClusterInvInit, HttpClusterInvNext, HttpClusterInvImplies, PTL DEF HttpClusterSpec

-----------------------------------------------------------------------------
(* The cluster is the store that the gateway needs.                        *)

(* The store of the cluster and that of the gateway differ only in what is *)
(* held to be submitted.                                                   *)
LEMMA SameEffect ==
  ASSUME NEW cmd, KV!TakeEffect(cmd), UNCHANGED Submitted
  PROVE  G!KV!TakeEffect(cmd)
  BY DEF KV!TakeEffect, G!KV!TakeEffect, Hist, KV!Answer, G!KV!Answer, KV!Effect, G!KV!Effect,
     KV!WriteReply, G!KV!WriteReply, KV!ReadReply, G!KV!ReadReply

LEMMA SameRespond ==
  ASSUME NEW i, KV!Respond(i), UNCHANGED Submitted
  PROVE  G!KV!Respond(i)
  BY DEF KV!Respond, G!KV!Respond, Hist

LEMMA HistCommand == \A i \in 1..Len(log) : Hist[i].cmd = log[i]
  BY DEF Hist

LEMMA SameCommandOf == \A r : G!CommandOf(r) = CommandOf(r)
  BY DEF G!CommandOf, CommandOf

(* A step of the gateway.                                                  *)
LEMMA StoreGateway ==
  ASSUME HttpClusterInv, GatewayAlone
  PROVE  G!GatewayStoreNext
<1>1. UNCHANGED <<proposals, log, ref, replies, command>>
  BY DEF GatewayAlone, vars, omniVars, clientVars, ghostVars
<1>2. UNCHANGED <<Hist, ref[Len(ref)], replies>>
  BY <1>1 DEF Hist
<1>3. \A r \in at_server \cup executed : CommandOf(r)' = CommandOf(r)
  BY CommandsKept, SentNotIdle DEF HttpClusterInv, HttpClusterNext
<1>4. CASE GS!WriteCommand
  <2> DEFINE r == Head(tcp_tx)
  <2>1. /\ at_server' = at_server \cup {r} /\ UNCHANGED executed
        /\ UNCHANGED cmd_id
    BY <1>4 DEF GS!WriteCommand, GS!requestVars
  <2>2. \A q : CommandOf(q)' = CommandOf(q)
    BY <1>1, <2>1 DEF CommandOf
  <2>3. Submitted' = Submitted \cup {CommandOf(r)}
    BY <1>1, <2>1, <2>2 DEF Submitted, OfGateway
  <2>4. G!Submits
    BY <1>1, <1>2, <1>4, <2>3, SameSteps, SameCommandOf DEF G!Submits, G!KV!Submit
  <2> QED BY <2>4 DEF G!GatewayStoreNext
<1>5. CASE ~GS!WriteCommand
  <2>1. UNCHANGED <<at_server, executed>>
    BY <1>5 DEF GatewayAlone, GS!RequestStep, GS!DrawId, GS!InsertPending,
       GS!SendCommand, GS!SendFails, GS!Answered, GS!ChannelClosed, GS!TimesOut, GS!CleanUp,
       GS!Cancel, GS!ReceiveReply, GS!WriterStops, GS!PassOn, GS!ReaderStops,
       GS!serverVars
  <2>2. UNCHANGED Submitted
    BY <1>1, <1>3, <2>1 DEF Submitted, OfGateway
  <2>3. UNCHANGED <<command, G!storeVars>>
    BY <1>1, <1>2, <2>2 DEF G!storeVars
  <2> QED
    BY <1>5, <2>3, SameRequestStep, SameSteps DEF GatewayAlone, G!GatewayStoreNext, G!Own
<1> QED BY <1>4, <1>5

(* A command of the gateway is read: the store has it since it was sent.   *)
LEMMA StoreRead ==
  ASSUME NEW r \in Requests, ReadCommand(r)
  PROVE  UNCHANGED G!gatewayStoreVars
<1>1. UNCHANGED <<proposals, log, ref, replies, command, gatewayVars>>
  BY DEF ReadCommand, ClientRequest, omniVars, clientVars, ghostVars
<1>2. UNCHANGED <<Submitted, Hist, ref[Len(ref)], replies>>
  BY <1>1 DEF Hist, Submitted, OfGateway, CommandOf, gatewayVars
<1> QED BY <1>1, <1>2, SameVars DEF G!gatewayStoreVars, G!storeVars

(* It is decided: it takes effect.                                         *)
LEMMA StoreDecide ==
  ASSUME HttpClusterInv, NEW r \in Requests, DecideCommand(r)
  PROVE  G!GatewayStoreNext
<1>1. /\ UNCHANGED <<proposals, cmd_id, command>>
      /\ r \in at_server /\ at_server' = at_server \ {r} /\ executed' = executed \cup {r}
  BY DEF DecideCommand, Decide, OmniDecide, GS!ServerExecutes, GS!requestVars
<1>2. UNCHANGED Submitted
  BY <1>1 DEF Submitted, OfGateway, CommandOf
<1>3. PICK cmd \in proposals : cmd = CommandOf(r) /\ Decide(cmd)
  BY DEF DecideCommand
<1>4. KV!TakeEffect(cmd)
  BY <1>3, KVTakeEffect DEF HttpClusterInv
<1>5. G!KV!TakeEffect(cmd)
  BY <1>2, <1>4, SameEffect
<1>6. G!ServerExecutes(r) /\ G!CommandOf(r) = cmd
  BY <1>3, SameSteps, SameCommandOf DEF DecideCommand
<1>7. G!Executes(r)
  BY <1>1, <1>5, <1>6 DEF G!Executes
<1> QED BY <1>7 DEF G!GatewayStoreNext

(* It is answered, with the outcome it had.                                *)
LEMMA StoreAnswer ==
  ASSUME HttpClusterInv, NEW r \in Requests, AnswerCommand(r)
  PROVE  G!GatewayStoreNext
<1>1. UNCHANGED <<proposals, cmd_id, command, at_server, executed>>
  BY DEF AnswerCommand, ExecuteCommand, omniVars, GS!ServerReplies, GS!requestVars
<1>2. UNCHANGED Submitted
  BY <1>1 DEF Submitted, OfGateway, CommandOf
<1>3. replies' # replies
  <2>1. PICK next \in 1..Len(log) :
          /\ Head(decided_commands[GatewayServer]) = log[next]
          /\ log[next] \in Command
          /\ ReplyTo(database[GatewayServer], log[next].id, log[next].kv_cmd) \in Reply
    <3>1. PICK next \in 1..Len(log) :
            Head(decided_commands[GatewayServer]) = log[next] /\ log[next] \in Command
      BY ExecuteIsNextEntry, HttpClusterAssumption DEF AnswerCommand, HttpClusterInv
    <3>2. /\ log[next].kv_cmd \in KVCommand /\ log[next].id \in Nat
          /\ database[GatewayServer] \in Database
      BY <3>1, HttpClusterAssumption DEF Command, HttpClusterInv, ReplicaInv, TypeOK
    <3> QED BY <3>1, <3>2, ReplyType
  <2> DEFINE reply == ReplyTo(database[GatewayServer], log[next].id, log[next].kv_cmd)
             got   == replies[GatewayServer][GatewayClient]
  <2>2. log[next].coordinator_id = GatewayServer /\ log[next].client_id = GatewayClient
    BY <2>1 DEF AnswerCommand, AboutToAnswer, OfGateway
  <2>3. replies' = [replies EXCEPT ![GatewayServer][GatewayClient] = Append(@, reply)]
    BY <2>1, <2>2 DEF AnswerCommand, AboutToAnswer, ExecuteCommand, SendToClient
  <2>4. replies \in [Servers -> [ClientIds -> Seq(Reply)]] /\ got \in Seq(Reply)
    BY GatewayIsClient DEF HttpClusterInv, ReplicaInv, TypeOK
  <2> HIDE DEF reply
  <2>5. replies'[GatewayServer][GatewayClient] = Append(got, reply)
    BY <2>3, <2>4, GatewayIsClient
  <2>6. Len(Append(got, reply)) # Len(got)
    BY <2>4
  <2> QED BY <2>5, <2>6
<1>4. PICK i \in 1..Len(log) : CommandOf(r) = log[i] /\ KV!Respond(i)
  BY <1>3, KVRespond, HttpClusterAssumption DEF AnswerCommand, HttpClusterInv
<1>5. i \in 1..Len(Hist) /\ Hist[i].cmd = CommandOf(r)
  BY <1>4, HistType, HistCommand DEF HttpClusterInv
<1>6. G!Replies(r)
  BY <1>1, <1>2, <1>4, <1>5, SameRespond, SameSteps, SameCommandOf DEF G!Replies, AnswerCommand
<1> QED BY <1>6 DEF G!GatewayStoreNext

(* The commands of the others.                                             *)
LEMMA OthersAllowed ==
  ASSUME NEW cmd \in Command, ~OfGateway(cmd),
         cmd.id \in RequestIds[cmd.coordinator_id],
         cmd.kv_cmd \in Workload[cmd.coordinator_id]
  PROVE  cmd \in OtherCommands
<1>1. cmd \in [client_id : ClientIds, coordinator_id : {cmd.coordinator_id},
               id : RequestIds[cmd.coordinator_id], kv_cmd : Workload[cmd.coordinator_id]]
  BY DEF Command
<1>2. cmd.coordinator_id \in Servers
  BY DEF Command
<1> QED BY <1>1, <1>2 DEF OtherCommands

LEMMA StoreCluster ==
  ASSUME HttpClusterInv, HttpClusterInv', ClusterAlone
  PROVE  [G!GatewayStoreNext]_(G!gatewayStoreVars)
<1>0. TypeOK
  BY DEF HttpClusterInv, ReplicaInv
<1>1. /\ UNCHANGED <<gatewayVars, command, cmd_id, at_server, executed>>
      /\ \A r : CommandOf(r)' = CommandOf(r)
  BY DEF ClusterAlone, gatewayVars, CommandOf
<1>2. UNCHANGED <<G!gatewayVars, command>>
  BY <1>1, SameVars
<1>3. CASE proposals \subseteq proposals' /\ UNCHANGED <<log, ref, replies>>
  <2> DEFINE cmds == {cmd \in proposals' : ~OfGateway(cmd)}
  <2>1. cmds \subseteq OtherCommands
    <3>1. TypeOK' /\ Allowed'
      BY DEF HttpClusterInv, ReplicaInv
    <3>2. ASSUME NEW cmd \in proposals', ~OfGateway(cmd) PROVE cmd \in OtherCommands
      BY <3>1, <3>2, OthersAllowed DEF TypeOK, Allowed, InFlight
    <3> QED BY <3>2
  <2>2. Submitted' = Submitted \cup cmds
    BY <1>1, <1>3 DEF Submitted, OfGateway
  <2>3. UNCHANGED <<Hist, ref[Len(ref)], replies>>
    BY <1>3 DEF Hist
  <2> HIDE DEF cmds
  <2>4. G!OtherSubmits
    BY <2>1, <2>2, <2>3 DEF G!OtherSubmits, G!KV!Submit
  <2> QED BY <1>2, <2>4 DEF G!OtherSession, G!GatewayStoreNext
<1>4. ASSUME NEW cmd \in proposals, Decide(cmd) PROVE G!GatewayStoreNext
  <2>1. log' = Append(log, cmd) /\ UNCHANGED proposals /\ log \in Seq(Command) /\ cmd \in Command
    BY <1>4 DEF Decide, OmniDecide, HttpClusterInv, ReplicaInv, TypeOK
  <2>2. ~OfGateway(cmd)
    <3>1. Len(log') = Len(log) + 1 /\ Len(log) \in Nat /\ log'[Len(log) + 1] = cmd
      BY <2>1
    <3>2. Len(log) + 1 \in (Len(log) + 1)..Len(log')
      BY <3>1
    <3> QED BY <3>1, <3>2 DEF ClusterAlone
  <2>3. UNCHANGED Submitted
    BY <1>1, <2>1 DEF Submitted, OfGateway
  <2>4. cmd \in Submitted \cap OtherCommands
    BY <2>2, OthersAllowed
       DEF Submitted, HttpClusterInv, ReplicaInv, TypeOK, Allowed, InFlight
  <2>5. G!KV!TakeEffect(cmd)
    BY <1>4, <2>3, KVTakeEffect, SameEffect DEF HttpClusterInv
  <2>6. G!OtherTakesEffect
    BY <2>4, <2>5 DEF G!OtherTakesEffect
  <2> QED BY <1>2, <2>6 DEF G!OtherSession, G!GatewayStoreNext
<1>5. ASSUME NEW n \in Servers, ExecuteCommand(n)
      PROVE  [G!GatewayStoreNext]_(G!gatewayStoreVars)
  <2>1. UNCHANGED <<log, ref, proposals>>
    BY <1>5, KVRespond DEF HttpClusterInv
  <2>2. UNCHANGED <<Submitted, Hist, ref[Len(ref)]>>
    BY <1>1, <2>1 DEF Submitted, Hist, OfGateway
  <2>3. CASE UNCHANGED replies
    BY <1>2, <2>2, <2>3 DEF G!gatewayStoreVars, G!storeVars
  <2>4. CASE ~UNCHANGED replies
    <3>1. PICK i \in 1..Len(log) : KV!Respond(i)
      BY <1>5, <2>4, KVRespond DEF HttpClusterInv
    <3>2. /\ i \in 1..Len(Hist) /\ Hist \in Seq([cmd : Command, reply : Reply])
          /\ Hist[i].cmd = log[i]
      BY <3>1, HistType, HistCommand DEF HttpClusterInv
    <3>3. ASSUME OfGateway(log[i]) PROVE FALSE
      <4> DEFINE got   == replies[GatewayServer][GatewayClient]
                 reply == Hist[i].reply
      <4>1. replies' = [replies EXCEPT ![log[i].coordinator_id][log[i].client_id] =
                          Append(@, reply)]
        BY <3>1, <3>2 DEF KV!Respond, Hist
      <4>2. replies \in [Servers -> [ClientIds -> Seq(Reply)]] /\ got \in Seq(Reply)
        BY <1>0, GatewayIsClient DEF TypeOK
      <4>3. reply \in Reply
        <5> DEFINE E == [cmd : Command, reply : Reply]
        <5>1. Hist[i] \in E
          <6>1. Hist \in Seq(E) /\ i \in 1..Len(Hist)
            BY <3>2
          <6> HIDE DEF E
          <6> QED BY <6>1
        <5> QED BY <5>1
      <4> HIDE DEF reply
      <4>4. replies'[GatewayServer][GatewayClient] = Append(got, reply)
        BY <3>3, <4>1, <4>2, GatewayIsClient DEF OfGateway
      <4>5. Len(Append(got, reply)) # Len(got)
        BY <4>2, <4>3
      <4> QED BY <4>4, <4>5 DEF ClusterAlone
    <3>4. ~G!OfGateway(Hist[i].cmd)
      BY <3>2, <3>3 DEF G!OfGateway, OfGateway
    <3>5. G!OtherIsAnswered
      BY <2>2, <3>1, <3>2, <3>4, SameRespond DEF G!OtherIsAnswered
    <3> QED BY <1>2, <3>5 DEF G!OtherSession, G!GatewayStoreNext
  <2> QED BY <2>3, <2>4
<1> QED BY <1>3, <1>4, <1>5, KVKinds DEF ClusterAlone

LEMMA StoreInit ==
  ASSUME HttpClusterInit
  PROVE  G!GatewayStoreInit
<1>1. Init /\ G!GatewayInit /\ command \in [Requests -> Workload[GatewayServer]]
  BY SameInit DEF HttpClusterInit
<1>2. command \in [Requests -> G!KVCommand]
  <2>1. Workload[GatewayServer] \subseteq KVCommand
    BY ServerAssumption, HttpClusterAssumption
  <2>2. G!KVCommand = KVCommand
    BY DEF G!KVCommand, KVCommand, G!Put, Put, G!Get, Get, G!Delete, Delete
  <2> QED BY <1>1, <2>1, <2>2
<1>3. Submitted = {}
  BY <1>1 DEF Init, OmniInit, G!GatewayInit, Submitted
<1>4. Hist = << >> /\ ref[Len(ref)] = NewDatabase
  BY <1>1 DEF Init, OmniInit, Hist
<1>5. replies = [n \in Servers |-> [c \in ClientIds |-> << >>]]
  BY <1>1 DEF Init
<1>6. G!KV!KVInit
  BY <1>3, <1>4, <1>5 DEF G!KV!KVInit, G!KV!NewDatabase, NewDatabase
<1> QED BY <1>1, <1>2, <1>6 DEF G!GatewayStoreInit

LEMMA StoreStep ==
  ASSUME HttpClusterInv, HttpClusterInv', [HttpClusterNext]_httpClusterVars
  PROVE  [G!GatewayStoreNext]_(G!gatewayStoreVars)
<1>1. CASE UNCHANGED httpClusterVars
  <2>1. UNCHANGED <<proposals, log, ref, replies, command, gatewayVars>>
    BY <1>1 DEF httpClusterVars, vars, omniVars, clientVars, ghostVars
  <2>2. UNCHANGED <<Submitted, Hist, ref[Len(ref)], replies>>
    BY <2>1 DEF Hist, Submitted, OfGateway, CommandOf, gatewayVars
  <2> QED BY <2>1, <2>2, SameVars DEF G!gatewayStoreVars, G!storeVars
<1>2. CASE HttpClusterNext
  BY <1>2, StoreGateway, StoreRead, StoreDecide, StoreAnswer, StoreCluster DEF HttpClusterNext
<1> QED BY <1>1, <1>2

LEMMA ClusterIsStore == HttpClusterSpec => G!GatewayStoreSpec
<1>1. HttpClusterInit => HttpClusterInv /\ G!GatewayStoreInit
  BY HttpClusterInvInit, StoreInit
<1>2. HttpClusterInv /\ [HttpClusterNext]_httpClusterVars => HttpClusterInv'
  BY HttpClusterInvNext
<1>3. HttpClusterInv /\ HttpClusterInv' /\ [HttpClusterNext]_httpClusterVars
        => [G!GatewayStoreNext]_(G!gatewayStoreVars)
  BY StoreStep
<1> QED BY <1>1, <1>2, <1>3, PTL DEF HttpClusterSpec, G!GatewayStoreSpec

-----------------------------------------------------------------------------
(* What GS and G say of the store is the same.                             *)

LEMMA SameKV ==
  /\ GS!KV!KVInit <=> G!KV!KVInit
  /\ GS!KV!Submit <=> G!KV!Submit
  /\ \A cmd : GS!KV!TakeEffect(cmd) <=> G!KV!TakeEffect(cmd)
  /\ \A i : GS!KV!Respond(i) <=> G!KV!Respond(i)
<1> USE DEF Submitted, Hist
<1>1. GS!KV!KVInit <=> G!KV!KVInit
  BY DEF GS!KV!KVInit, G!KV!KVInit, GS!KV!NewDatabase, G!KV!NewDatabase
<1>2. GS!KV!Submit <=> G!KV!Submit
  BY DEF GS!KV!Submit, G!KV!Submit
<1>3. ASSUME NEW cmd PROVE GS!KV!TakeEffect(cmd) <=> G!KV!TakeEffect(cmd)
  BY DEF GS!KV!TakeEffect, G!KV!TakeEffect, GS!KV!Answer, G!KV!Answer, GS!KV!Effect,
     G!KV!Effect, GS!KV!WriteReply, G!KV!WriteReply, GS!KV!ReadReply, G!KV!ReadReply
<1>4. ASSUME NEW i PROVE GS!KV!Respond(i) <=> G!KV!Respond(i)
  BY DEF GS!KV!Respond, G!KV!Respond
<1> QED BY <1>1, <1>2, <1>3, <1>4

LEMMA SameStoreInit == G!GatewayStoreInit => GS!GatewayStoreInit
<1>1. G!KVCommand = GS!KVCommand
  BY DEF G!KVCommand, GS!KVCommand, G!Put, GS!Put, G!Get, GS!Get, G!Delete, GS!Delete
<1> QED BY <1>1, SameInit, SameKV DEF G!GatewayStoreInit, GS!GatewayStoreInit

LEMMA SameStoreStep ==
  [G!GatewayStoreNext]_(G!gatewayStoreVars) => [GS!GatewayStoreNext]_(GS!gatewayStoreVars)
<1> USE DEF Submitted, Hist
<1>1. UNCHANGED G!storeVars <=> UNCHANGED GS!storeVars
  BY DEF G!storeVars, GS!storeVars
<1>2. UNCHANGED G!gatewayVars <=> UNCHANGED GS!gatewayVars
  BY DEF G!gatewayVars, G!requestVars, G!sharedVars, G!taskVars, G!serverVars,
     GS!gatewayVars, GS!requestVars, GS!sharedVars, GS!taskVars, GS!serverVars
<1>3. UNCHANGED G!gatewayStoreVars <=> UNCHANGED GS!gatewayStoreVars
  BY <1>1, <1>2 DEF G!gatewayStoreVars, GS!gatewayStoreVars
<1>4. \A r : /\ G!CommandOf(r) = GS!CommandOf(r)
             /\ G!ServerLoses(r) <=> GS!ServerLoses(r)
  BY DEF G!CommandOf, GS!CommandOf, G!ServerLoses, GS!ServerLoses, G!requestVars, G!sharedVars,
     G!taskVars, GS!requestVars, GS!sharedVars, GS!taskVars
<1>5. /\ G!Submits <=> GS!Submits
      /\ \A r : G!Executes(r) <=> GS!Executes(r)
      /\ \A r : G!Replies(r) <=> GS!Replies(r)
  <2>1. G!Submits <=> GS!Submits
    BY <1>4, SameSteps, SameKV DEF G!Submits, GS!Submits
  <2>2. ASSUME NEW r PROVE G!Executes(r) <=> GS!Executes(r)
    <3>1. G!KV!TakeEffect(G!CommandOf(r)) <=> GS!KV!TakeEffect(GS!CommandOf(r))
      BY DEF GS!KV!TakeEffect, G!KV!TakeEffect, GS!KV!Answer, G!KV!Answer, GS!KV!Effect,
         G!KV!Effect, GS!KV!WriteReply, G!KV!WriteReply, GS!KV!ReadReply, G!KV!ReadReply,
         G!CommandOf, GS!CommandOf
    <3> QED BY <3>1, SameSteps DEF G!Executes, GS!Executes
  <2>3. ASSUME NEW r PROVE G!Replies(r) <=> GS!Replies(r)
    BY <1>4, SameSteps, SameKV DEF G!Replies, GS!Replies
  <2> QED BY <2>1, <2>2, <2>3
<1>6. /\ G!OtherSubmits <=> GS!OtherSubmits
      /\ G!OtherTakesEffect <=> GS!OtherTakesEffect
      /\ G!OtherIsAnswered <=> GS!OtherIsAnswered
  BY SameKV DEF G!OtherSubmits, GS!OtherSubmits, G!OtherTakesEffect, GS!OtherTakesEffect,
     G!OtherIsAnswered, GS!OtherIsAnswered, G!OfGateway, GS!OfGateway
<1>7. G!GatewayStoreNext => GS!GatewayStoreNext
  BY <1>1, <1>2, <1>4, <1>5, <1>6, SameRequestStep, SameSteps
     DEF G!GatewayStoreNext, GS!GatewayStoreNext, G!Own, GS!Own, G!OtherSession,
         GS!OtherSession
<1> QED BY <1>3, <1>7

(* And so is what they say of the HTTP side.                               *)
LEMMA SameHttp ==
  /\ G!HTTP!HttpInit => GS!HTTP!HttpInit
  /\ [G!HTTP!HttpNext]_(G!HTTP!httpVars) => [GS!HTTP!HttpNext]_(GS!HTTP!httpVars)
<1> DEFINE EffectsG   == [r \in Requests |-> G!BodyOf(r, r)]
           EffectsGS  == [r \in Requests |-> GS!BodyOf(r, r)]
           ResponseG  == [r \in Requests |->
                            [status |-> status[r],
                             result |-> IF body[r] = NoRequest THEN NoResult
                                        ELSE G!BodyOf(r, body[r])]]
           ResponseGS == [r \in Requests |->
                            [status |-> status[r],
                             result |-> IF body[r] = NoRequest THEN NoResult
                                        ELSE GS!BodyOf(r, body[r])]]
<1>1. EffectsG = EffectsGS /\ ResponseG = ResponseGS
  BY DEF G!BodyOf, GS!BodyOf, G!CommandOf, GS!CommandOf, G!GetBody, GS!GetBody, G!WriteBody,
     GS!WriteBody, Hist
<1>2. EffectsG' = EffectsGS' /\ ResponseG' = ResponseGS'
  BY DEF G!BodyOf, GS!BodyOf, G!CommandOf, GS!CommandOf, G!GetBody, GS!GetBody, G!WriteBody,
     GS!WriteBody, Hist
<1>3. /\ G!HTTP!KVCommand = GS!HTTP!KVCommand
      /\ G!HTTP!NewDatabase = GS!HTTP!NewDatabase
      /\ \A db, cmd : G!HTTP!Effect(db, cmd) = GS!HTTP!Effect(db, cmd)
      /\ \A db, cmd : G!HTTP!Result(db, cmd) = GS!HTTP!Result(db, cmd)
  BY DEF G!HTTP!KVCommand, GS!HTTP!KVCommand, G!HTTP!Put, GS!HTTP!Put, G!HTTP!Get, GS!HTTP!Get,
     G!HTTP!Delete, GS!HTTP!Delete, G!HTTP!NewDatabase, GS!HTTP!NewDatabase, G!HTTP!Effect,
     GS!HTTP!Effect, G!HTTP!Result, GS!HTTP!Result
<1>4. G!HTTP!HttpInit => GS!HTTP!HttpInit
  BY <1>1, <1>3 DEF G!HTTP!HttpInit, GS!HTTP!HttpInit
<1>5. UNCHANGED G!HTTP!httpVars => UNCHANGED GS!HTTP!httpVars
  BY <1>1, <1>2 DEF G!HTTP!httpVars, GS!HTTP!httpVars
<1>6. ASSUME NEW r PROVE G!HTTP!Make(r) => GS!HTTP!Make(r)
  BY <1>1, <1>2 DEF G!HTTP!Make, GS!HTTP!Make
<1> DEFINE made == {q \in Requests : pc[q] # "idle"}
<1> HIDE DEF EffectsG, EffectsGS, ResponseG, ResponseGS, made
<1>7. ASSUME NEW r, G!HTTP!TakeEffect(r) PROVE GS!HTTP!TakeEffect(r)
  <2>1. /\ r \in made /\ EffectsG[r] = NoResult /\ ResponseG[r].status # 503
        /\ EffectsG' = [EffectsG EXCEPT ![r] = G!HTTP!Result(ref[Len(ref)], command[r])]
        /\ (ref[Len(ref)])' = G!HTTP!Effect(ref[Len(ref)], command[r])
        /\ UNCHANGED <<command, made, ResponseG>>
    BY <1>7, Zenon DEF G!HTTP!TakeEffect, EffectsG, ResponseG, made
  <2>2. /\ r \in made /\ EffectsGS[r] = NoResult /\ ResponseGS[r].status # 503
        /\ EffectsGS' = [EffectsGS EXCEPT ![r] = GS!HTTP!Result(ref[Len(ref)], command[r])]
        /\ (ref[Len(ref)])' = GS!HTTP!Effect(ref[Len(ref)], command[r])
        /\ UNCHANGED <<command, made, ResponseGS>>
    BY <1>1, <1>2, <1>3, <2>1
  <2> QED BY <2>2, Zenon DEF GS!HTTP!TakeEffect, EffectsGS, ResponseGS, made
<1>8. ASSUME NEW r, G!HTTP!Return(r) PROVE GS!HTTP!Return(r)
  <2>1. /\ r \in made /\ ResponseG[r].status = 0
        /\ UNCHANGED <<command, made, ref[Len(ref)], EffectsG>>
        /\ \/ /\ EffectsG[r] # NoResult
              /\ ResponseG' = [ResponseG EXCEPT
                                ![r] = [status |-> 200, result |-> EffectsG[r]]]
           \/ \E s \in {500, 503, 504} :
                /\ s = 503 => EffectsG[r] = NoResult
                /\ ResponseG' = [ResponseG EXCEPT ![r] = [status |-> s, result |-> NoResult]]
    BY <1>8, Zenon DEF G!HTTP!Return, EffectsG, ResponseG, made
  <2>2. /\ r \in made /\ ResponseGS[r].status = 0
        /\ UNCHANGED <<command, made, ref[Len(ref)], EffectsGS>>
        /\ \/ /\ EffectsGS[r] # NoResult
              /\ ResponseGS' = [ResponseGS EXCEPT
                                ![r] = [status |-> 200, result |-> EffectsGS[r]]]
           \/ \E s \in {500, 503, 504} :
                /\ s = 503 => EffectsGS[r] = NoResult
                /\ ResponseGS' = [ResponseGS EXCEPT ![r] = [status |-> s, result |-> NoResult]]
    BY <1>1, <1>2, <2>1
  <2> QED BY <2>2, Zenon DEF GS!HTTP!Return, EffectsGS, ResponseGS, made
<1>9. G!HTTP!OtherEffect => GS!HTTP!OtherEffect
  BY <1>1, <1>2, <1>3
     DEF G!HTTP!OtherEffect, GS!HTTP!OtherEffect, EffectsG, EffectsGS, ResponseG, ResponseGS
<1> QED BY <1>4, <1>5, <1>6, <1>7, <1>8, <1>9 DEF G!HTTP!HttpNext, GS!HTTP!HttpNext

-----------------------------------------------------------------------------
(* Nothing is lost by putting the two together: the cluster behaves as     *)
(* Server says and the gateway as Gateway says, so all that is shown of    *)
(* them by themselves holds of them here.                                  *)
THEOREM KeepsBothParts == HttpClusterSpec => Spec /\ GS!GatewaySpec
<1>1. HttpClusterInit => HttpClusterInv /\ Init /\ GS!GatewayInit
  BY HttpClusterInvInit DEF HttpClusterInit
<1>2. HttpClusterInv /\ [HttpClusterNext]_httpClusterVars
        => HttpClusterInv' /\ [Next]_vars /\ [G!GatewayNext]_(G!gatewayVars)
  BY HttpClusterInvNext, StepOfCluster, StepOfGateway DEF HttpClusterInv
<1>3. [G!GatewayNext]_(G!gatewayVars) => [GS!GatewayNext]_(GS!gatewayVars)
  <2>1. \A r : G!ServerLoses(r) <=> GS!ServerLoses(r)
    BY DEF G!ServerLoses, GS!ServerLoses, G!requestVars, G!sharedVars, G!taskVars,
       GS!requestVars, GS!sharedVars, GS!taskVars
  <2>2. UNCHANGED G!gatewayVars <=> UNCHANGED GS!gatewayVars
    BY DEF G!gatewayVars, G!requestVars, G!sharedVars, G!taskVars, G!serverVars,
       GS!gatewayVars, GS!requestVars, GS!sharedVars, GS!taskVars, GS!serverVars
  <2> QED BY <2>1, <2>2, SameRequestStep, SameSteps DEF G!GatewayNext, GS!GatewayNext
<1> QED BY <1>1, <1>2, <1>3, PTL DEF HttpClusterSpec, Spec, GS!GatewaySpec

(* For the gateway the cluster is the linearizable store it needs: its     *)
(* commands and those of everybody else take effect when they are decided, *)
(* each at most once, and each is answered at most once, in its session    *)
(* and with the outcome it had then (handle_client_messages,               *)
(* update_database_and_respond).                                           *)
THEOREM ClusterServesGateway == HttpClusterSpec => ServesGateway
  BY ClusterIsStore, SameStoreInit, SameStoreStep, PTL
     DEF ServesGateway, G!GatewayStoreSpec, GS!GatewayStoreSpec

(* From the HTTP client to the log and back: a 200 carries the result its  *)
(* own command had at the moment the cluster decided it, within the        *)
(* request, a command takes effect at most once, and never if the request  *)
(* returns 503, whatever connections break inside the cluster, and however *)
(* the tasks of the gateway end and its requests time out or are cancelled *)
(* (submit_command, handle_client_messages, update_database_and_respond,   *)
(* handle_command).                                                        *)
THEOREM LinearizableOverHttp == HttpClusterSpec => EndToEnd
<1>1. G!GatewayStoreSpec => G!HttpLinearizable
  BY G!ImplementsHttpKV, Assumptions
<1> QED BY <1>1, ClusterIsStore, SameHttp, PTL
        DEF EndToEnd, G!HttpLinearizable, G!HTTP!HttpSpec, GS!HttpLinearizable,
            GS!HTTP!HttpSpec
=============================================================================
