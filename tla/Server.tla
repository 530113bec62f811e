------------------------------- MODULE Server -------------------------------
(***************************************************************************)
(* The servers of the cluster: the event loop of server.rs, the database   *)
(* it feeds, and the connections of network.rs it sends through.           *)
(*                                                                         *)
(* Each server is one task that runs a select loop.  A batch of cluster    *)
(* messages is handled message by message, and the commands one message    *)
(* decides are executed one by one, each a step of its own; in between,    *)
(* other servers and the clients take their steps.                         *)
(*                                                                         *)
(* link[n][p] is the whole way of a cluster message from n to the loop of  *)
(* p: the unbounded queue of n's writer task, the TCP stream, p's reader   *)
(* task and the channel cluster_messages, which merges the peers in any    *)
(* order.  Where a batch ends (recv_many: what the channel holds, at most  *)
(* NETWORK_BATCH_SIZE) is left open; it has at least one message.          *)
(*                                                                         *)
(* Each server sets up its connections (Network::new) and enters its loop  *)
(* when it is done, by itself.  ConnectionSetup has the details; here a    *)
(* server waits in the phase "setup" while its peers may already send to   *)
(* it and its clients too.  When it reads the handshake of a peer that     *)
(* connected to it, it may lose what that peer has sent behind it.  It     *)
(* enters its loop connected to every peer, with clients 1..num_clients.   *)
(***************************************************************************)
EXTENDS KVStore, OmniPaxos, Integers, FiniteSets

CONSTANTS
  NumClients,    (* NumClients[n]: local.num_clients of server n           *)
  BatchSize,     (* NETWORK_BATCH_SIZE for clients: capacity of the        *)
                 (* channel client_messages and limit of recv_many on it   *)
  Workload,      (* Workload[n]: the commands clients of n send            *)
  RequestIds,    (* RequestIds[n]: the ids a client of n uses for them     *)
  MaxFailures    (* bound on the connections that break                    *)

ASSUME ServerAssumption ==
  /\ Servers \subseteq Nat
  /\ NumClients \in [Servers -> Nat]
  /\ BatchSize \in Nat \ {0}
  /\ Workload \in [Servers -> SUBSET KVCommand]
  /\ RequestIds \in [Servers -> SUBSET Nat]
  /\ MaxFailures \in Nat

(* The ids under which n knows its clients, and those of all servers.      *)
LocalClients(n) == 1..NumClients[n]
ClientIds == UNION {LocalClients(n) : n \in Servers}

(* Servers connect to those with a smaller number.                         *)
Higher(n) == {p \in Servers : p > n}

(* A log entry: a client's command stamped by its coordinator.             *)
Command ==
  [client_id : ClientIds, coordinator_id : Servers, id : Nat, kv_cmd : KVCommand]

ClusterMessage == {"OmniPaxosMessage", "LeaderStartSignal"}

ClientMessage == [from : ClientIds, id : Nat, kv_cmd : KVCommand]

(* A connection works until its TCP stream fails.  From then on messages   *)
(* are still queued, and lost, until the writer task ends and drops its    *)
(* receiver; the next send sees the error and the slot is emptied for      *)
(* good.                                                                   *)
ConnState == {"up", "failing", "closed", "none"}

VARIABLES
  phase,                (* "setup", or which loop n runs: "establish" (the *)
                        (* one of establish_initial_leader), "main"        *)
  in_batch,             (* n is inside handle_cluster_messages             *)
  received_start,       (* received_start_signal of the current batch      *)
  client_messages,      (* channel from the clients' reader tasks          *)
  current_decided_idx,  (* what handle_decided_entries has picked up       *)
  decided_commands,     (* picked up, still to be executed                 *)
  database,             (* the HashMap                                     *)
  peer_conn,            (* peer_conn[n][p]: n's connection to p            *)
  link,                 (* link[n][p]: cluster messages from n to p        *)
  client_conn,          (* client_conn[n][c]: n's connection to client c   *)
  replies,              (* replies[n][c]: replies delivered to client c    *)
  starts,               (* starts[n][c]: start signals delivered to it     *)
  requests,             (* requests[n][c]: ids of the requests received    *)
  failures,             (* connections broken so far                       *)
  ref                   (* history: ref[i+1] is the store after i entries  *)

loopVars    == <<phase, in_batch, received_start>>
appVars     == <<current_decided_idx, decided_commands, database>>
clusterVars == <<peer_conn, link>>
clientVars  == <<client_conn, replies, starts>>
inputVars   == <<client_messages, requests>>
ghostVars   == <<failures, ref>>

vars == <<omniVars, loopVars, appVars, clusterVars, clientVars, inputVars, ghostVars>>

Init ==
  /\ OmniInit
  /\ phase = [n \in Servers |-> "setup"]
  /\ in_batch = [n \in Servers |-> FALSE]
  /\ received_start = [n \in Servers |-> FALSE]
  /\ client_messages = [n \in Servers |-> << >>]
  /\ current_decided_idx = [n \in Servers |-> 0]
  /\ decided_commands = [n \in Servers |-> << >>]
  /\ database = [n \in Servers |-> NewDatabase]
  /\ peer_conn = [n \in Servers |-> [p \in Servers |-> "up"]]
  /\ link = [n \in Servers |-> [p \in Servers |-> << >>]]
  /\ client_conn = [n \in Servers |-> [c \in ClientIds |->
       IF c \in LocalClients(n) THEN "up" ELSE "none"]]
  /\ replies = [n \in Servers |-> [c \in ClientIds |-> << >>]]
  /\ starts = [n \in Servers |-> [c \in ClientIds |-> 0]]
  /\ requests = [n \in Servers |-> [c \in ClientIds |-> {}]]
  /\ failures = 0
  /\ ref = << NewDatabase >>

-----------------------------------------------------------------------------
(* Sending through network.rs.                                             *)

(* The slot after a send: an error empties it.                             *)
AfterSend(conn) == IF conn = "closed" THEN "none" ELSE conn

(* A burst of consecutive protocol messages is represented by one element. *)
Enqueue(queue, msg) ==
  IF msg = "OmniPaxosMessage" /\ queue # << >> /\ queue[Len(queue)] = msg
  THEN queue
  ELSE Append(queue, msg)

SendToCluster(n, to, msg) ==
  /\ link' = [link EXCEPT ![n] = [p \in Servers |->
       IF p \in to /\ peer_conn[n][p] = "up" THEN Enqueue(link[n][p], msg) ELSE link[n][p]]]
  /\ peer_conn' = [peer_conn EXCEPT ![n] = [p \in Servers |->
       IF p \in to THEN AfterSend(peer_conn[n][p]) ELSE peer_conn[n][p]]]

(* Empties the library's buffer into the connections, together with the    *)
(* messages the last call produced.                                        *)
SendOutgoingMsgs(n, produced) ==
  /\ SendToCluster(n, outgoing[n] \cup produced, "OmniPaxosMessage")
  /\ outgoing' = [outgoing EXCEPT ![n] = {}]

SendClientStartSignals(n) ==
  /\ starts' = [starts EXCEPT ![n] = [c \in ClientIds |->
       IF client_conn[n][c] = "up" THEN starts[n][c] + 1 ELSE starts[n][c]]]
  /\ client_conn' = [client_conn EXCEPT ![n] = [c \in ClientIds |->
       AfterSend(client_conn[n][c])]]

SendToClient(n, c, msg) ==
  /\ replies' = IF client_conn[n][c] = "up"
                THEN [replies EXCEPT ![n][c] = Append(@, msg)]
                ELSE replies
  /\ client_conn' = [client_conn EXCEPT ![n][c] = AfterSend(@)]

-----------------------------------------------------------------------------
(* The two select loops.  A branch is taken when the task is not inside a  *)
(* handler.                                                                *)

Selecting(n) == phase[n] # "setup" /\ ~in_batch[n]

\* Fault: only the own clients are started.
LeaderInitializedAlone(n) ==
  /\ Selecting(n) /\ phase[n] = "establish" /\ n = InitialLeader
  /\ role = "accept"
  /\ SendClientStartSignals(n)
  /\ phase' = [phase EXCEPT ![n] = "main"]
  /\ UNCHANGED <<omniVars, in_batch, received_start, appVars, clusterVars, replies,
                 inputVars, ghostVars>>

(* establish_initial_leader, takeover tick: leader in the accept phase.    *)
LeaderInitialized(n) ==
  /\ Selecting(n) /\ phase[n] = "establish" /\ n = InitialLeader
  /\ role = "accept"
  /\ SendToCluster(n, Peers(n), "LeaderStartSignal")
  /\ SendClientStartSignals(n)
  /\ phase' = [phase EXCEPT ![n] = "main"]
  /\ UNCHANGED <<omniVars, in_batch, received_start, appVars, replies,
                 inputVars, ghostVars>>

(* establish_initial_leader, takeover tick: not there yet.                 *)
AttemptLeadership(n, produced) ==
  /\ Selecting(n) /\ phase[n] = "establish" /\ n = InitialLeader
  /\ role # "accept"
  /\ role' = "prepare"
  /\ SendOutgoingMsgs(n, produced)
  /\ UNCHANGED <<log, proposals, decided_idx, loopVars, appVars,
                 clientVars, inputVars, ghostVars>>

(* run, election tick.                                                     *)
ElectionTick(n, produced) ==
  /\ Selecting(n) /\ phase[n] = "main"
  /\ SendOutgoingMsgs(n, produced)
  /\ UNCHANGED <<log, proposals, decided_idx, role, loopVars, appVars,
                 clientVars, inputVars, ghostVars>>

(* Either loop: a batch of client messages.  Each is stamped and appended  *)
(* to the log; nothing else can happen in between, so the batch is a step. *)
Taken(queue) == IF Len(queue) < BatchSize THEN Len(queue) ELSE BatchSize

Stamp(n, m) ==
  [client_id |-> m.from, coordinator_id |-> n, id |-> m.id, kv_cmd |-> m.kv_cmd]

HandleClientMessages(n) ==
  /\ Selecting(n)
  /\ client_messages[n] # << >>
  /\ LET k == Taken(client_messages[n]) IN
       /\ proposals' = proposals \cup {Stamp(n, client_messages[n][i]) : i \in 1..k}
       /\ client_messages' = [client_messages EXCEPT ![n] = SubSeq(@, k + 1, Len(@))]
  /\ \E produced \in SUBSET Peers(n) : SendOutgoingMsgs(n, produced)
  /\ UNCHANGED <<log, decided_idx, role, loopVars, appVars,
                 clientVars, requests, ghostVars>>

-----------------------------------------------------------------------------
(* Inside handle_cluster_messages.                                         *)

(* The next message of the batch, or of a new one, comes from p.           *)
NextMessage(n, p, msg) ==
  /\ phase[n] # "setup"
  /\ decided_commands[n] = << >>
  /\ link[p][n] # << >>
  /\ Head(link[p][n]) = msg
  /\ in_batch' = [in_batch EXCEPT ![n] = TRUE]

\* Fault: off by one, a single new decision is not noticed.
HandleDecidedEntriesOffByOne(n, newIdx) ==
  IF current_decided_idx[n] + 1 < newIdx
  THEN /\ decided_commands' = [decided_commands EXCEPT
            ![n] = ReadDecidedSuffix(current_decided_idx[n], newIdx)]
       /\ current_decided_idx' = [current_decided_idx EXCEPT ![n] = newIdx]
  ELSE UNCHANGED <<decided_commands, current_decided_idx>>

\* Fault: the new index is not remembered, the decisions are picked up again.
HandleDecidedEntriesForgetful(n, newIdx) ==
  IF current_decided_idx[n] < newIdx
  THEN /\ decided_commands' = [decided_commands EXCEPT
            ![n] = ReadDecidedSuffix(current_decided_idx[n], newIdx)]
       /\ UNCHANGED current_decided_idx
  ELSE UNCHANGED <<decided_commands, current_decided_idx>>

(* handle_decided_entries: pick up what the library has newly decided.     *)
HandleDecidedEntries(n, newIdx) ==
  IF current_decided_idx[n] < newIdx
  THEN /\ decided_commands' = [decided_commands EXCEPT
            ![n] = ReadDecidedSuffix(current_decided_idx[n], newIdx)]
       /\ current_decided_idx' = [current_decided_idx EXCEPT ![n] = newIdx]
  ELSE UNCHANGED <<decided_commands, current_decided_idx>>

(* One protocol message, and whether it is the last of its burst.          *)
HandleOmniPaxosMessage(n, p, newIdx, last) ==
  /\ NextMessage(n, p, "OmniPaxosMessage")
  /\ OmniHandleIncoming(n, newIdx)
  /\ HandleDecidedEntries(n, newIdx)
  /\ link' = [link EXCEPT ![p][n] = IF last THEN Tail(@) ELSE @]
  /\ UNCHANGED <<phase, received_start, database, peer_conn, clientVars, inputVars, ghostVars>>

HandleLeaderStartSignal(n, p) ==
  /\ NextMessage(n, p, "LeaderStartSignal")
  /\ received_start' = [received_start EXCEPT ![n] = TRUE]
  /\ SendClientStartSignals(n)
  /\ link' = [link EXCEPT ![p][n] = Tail(@)]
  /\ UNCHANGED <<omniVars, phase, appVars, peer_conn, replies, inputVars, ghostVars>>

\* Fault: every replica answers, not only the coordinator.
ExecuteCommandAnyone(n) ==
  /\ decided_commands[n] # << >>
  /\ LET command == Head(decided_commands[n]) IN
       /\ database' = [database EXCEPT ![n] = HandleCommand(@, command.kv_cmd)]
       /\ SendToClient(n, command.client_id,
                       ReplyTo(database[n], command.id, command.kv_cmd))
  /\ decided_commands' = [decided_commands EXCEPT ![n] = Tail(@)]
  /\ UNCHANGED <<omniVars, loopVars, current_decided_idx, clusterVars, starts,
                 inputVars, ghostVars>>

(* One round of the loop of update_database_and_respond.                   *)
ExecuteCommand(n) ==
  /\ decided_commands[n] # << >>
  /\ LET command == Head(decided_commands[n]) IN
       /\ database' = [database EXCEPT ![n] = HandleCommand(@, command.kv_cmd)]
       /\ IF command.coordinator_id = n
          THEN SendToClient(n, command.client_id,
                            ReplyTo(database[n], command.id, command.kv_cmd))
          ELSE UNCHANGED <<replies, client_conn>>
  /\ decided_commands' = [decided_commands EXCEPT ![n] = Tail(@)]
  /\ UNCHANGED <<omniVars, loopVars, current_decided_idx, clusterVars, starts,
                 inputVars, ghostVars>>

\* Fault: any batch of cluster messages ends establish_initial_leader.
FinishBatchAlwaysStarts(n) ==
  /\ in_batch[n]
  /\ decided_commands[n] = << >>
  /\ SendOutgoingMsgs(n, {})
  /\ phase' = [phase EXCEPT ![n] = "main"]
  /\ received_start' = [received_start EXCEPT ![n] = FALSE]
  /\ in_batch' = [in_batch EXCEPT ![n] = FALSE]
  /\ UNCHANGED <<log, proposals, decided_idx, role, appVars, clientVars, inputVars, ghostVars>>

(* The batch is done; a start signal in it ends establish_initial_leader.  *)
FinishBatch(n) ==
  /\ in_batch[n]
  /\ decided_commands[n] = << >>
  /\ SendOutgoingMsgs(n, {})
  /\ phase' = [phase EXCEPT ![n] = IF received_start[n] THEN "main" ELSE @]
  /\ received_start' = [received_start EXCEPT ![n] = FALSE]
  /\ in_batch' = [in_batch EXCEPT ![n] = FALSE]
  /\ UNCHANGED <<log, proposals, decided_idx, role, appVars, clientVars, inputVars, ghostVars>>

-----------------------------------------------------------------------------
(* The rest of the system: readers, clients, the library, failures.        *)

(* Network::new of n returns.                                              *)
NetworkReady(n) ==
  /\ phase[n] = "setup"
  /\ phase' = [phase EXCEPT ![n] = "establish"]
  /\ UNCHANGED <<omniVars, in_batch, received_start, appVars, clusterVars, clientVars,
                 inputVars, ghostVars>>

(* handle_incoming_connection: n reads the handshake of p, and what its    *)
(* registration framing has read behind it is dropped with the framing.    *)
ReadHandshake(n, p) ==
  /\ phase[n] = "setup"
  /\ \E k \in 1..Len(link[p][n]) :
       link' = [link EXCEPT ![p][n] = SubSeq(link[p][n], k + 1, Len(link[p][n]))]
  /\ UNCHANGED <<omniVars, loopVars, appVars, peer_conn, clientVars, inputVars, ghostVars>>

(* Client c of n sends a request, and n's reader task for c moves it into  *)
(* the channel, when there is room.  The reader task does not know what    *)
(* has become of the writing half of the connection, nor of its slot.  A   *)
(* client counts its requests, but the concurrent requests of a gateway    *)
(* may be sent in another order.                                           *)
ClientRequest(n, c, id, cmd) ==
  /\ c \in LocalClients(n)
  /\ id \notin requests[n][c]
  /\ Len(client_messages[n]) < BatchSize
  /\ client_messages' = [client_messages EXCEPT
       ![n] = Append(@, [from |-> c, id |-> id, kv_cmd |-> cmd])]
  /\ requests' = [requests EXCEPT ![n][c] = @ \cup {id}]
  /\ UNCHANGED <<omniVars, loopVars, appVars, clusterVars, clientVars, ghostVars>>

(* The library decides a proposal, once it has had a leader.               *)
Decide(cmd) ==
  /\ role = "accept" \/ phase[InitialLeader] = "main"
  /\ OmniDecide(cmd)
  /\ ref' = Append(ref, Effect(ref[Len(ref)], cmd.kv_cmd))
  /\ UNCHANGED <<loopVars, appVars, clusterVars, clientVars, inputVars, failures>>

(* The TCP stream between n and p fails: any suffix of what is on the way  *)
(* is lost, in both directions.                                            *)
BreakPeer(n, p) ==
  /\ failures < MaxFailures
  /\ peer_conn[n][p] = "up" /\ peer_conn[p][n] = "up"
  /\ peer_conn' = [peer_conn EXCEPT ![n][p] = "failing", ![p][n] = "failing"]
  /\ \E i \in 0..Len(link[n][p]), j \in 0..Len(link[p][n]) :
       link' = [link EXCEPT ![n][p] = SubSeq(link[n][p], 1, i),
                            ![p][n] = SubSeq(link[p][n], 1, j)]
  /\ failures' = failures + 1
  /\ UNCHANGED <<omniVars, loopVars, appVars, clientVars, inputVars, ref>>

BreakClient(n, c) ==
  /\ failures < MaxFailures
  /\ client_conn[n][c] = "up"
  /\ client_conn' = [client_conn EXCEPT ![n][c] = "failing"]
  /\ failures' = failures + 1
  /\ UNCHANGED <<omniVars, loopVars, appVars, clusterVars, replies, starts, inputVars, ref>>

(* A writer task meets the error and ends.                                 *)
PeerWriterEnds(n, p) ==
  /\ peer_conn[n][p] = "failing"
  /\ peer_conn' = [peer_conn EXCEPT ![n][p] = "closed"]
  /\ UNCHANGED <<omniVars, loopVars, appVars, link, clientVars,
                 inputVars, ghostVars>>

\* Fault: the broken connection is replaced by a new one, without the replies
\* that were lost.
ClientWriterReconnects(n, c) ==
  /\ client_conn[n][c] = "failing"
  /\ client_conn' = [client_conn EXCEPT ![n][c] = "up"]
  /\ UNCHANGED <<omniVars, loopVars, appVars, clusterVars, replies, starts,
                 inputVars, ghostVars>>

ClientWriterEnds(n, c) ==
  /\ client_conn[n][c] = "failing"
  /\ client_conn' = [client_conn EXCEPT ![n][c] = "closed"]
  /\ UNCHANGED <<omniVars, loopVars, appVars, clusterVars, replies, starts,
                 inputVars, ghostVars>>

-----------------------------------------------------------------------------
ServerStep(n) ==
  \/ LeaderInitialized(n)
  \/ \E produced \in SUBSET Peers(n) :
       AttemptLeadership(n, produced) \/ ElectionTick(n, produced)
  \/ HandleClientMessages(n)
  \/ \E p \in Peers(n), newIdx \in decided_idx[n]..Len(log), last \in BOOLEAN :
       HandleOmniPaxosMessage(n, p, newIdx, last)
  \/ \E p \in Peers(n) : HandleLeaderStartSignal(n, p)
  \/ ExecuteCommand(n)
  \/ FinishBatch(n)

Environment ==
  \/ \E n \in Servers : NetworkReady(n) \/ \E p \in Higher(n) : ReadHandshake(n, p)
  \/ \E n \in Servers, c \in ClientIds : \E id \in RequestIds[n], cmd \in Workload[n] :
       ClientRequest(n, c, id, cmd)
  \/ \E cmd \in proposals : Decide(cmd)
  \/ \E n \in Servers : \E p \in Peers(n) : BreakPeer(n, p) \/ PeerWriterEnds(n, p)
  \/ \E n \in Servers, c \in ClientIds : BreakClient(n, c) \/ ClientWriterEnds(n, c)

Next == (\E n \in Servers : ServerStep(n)) \/ Environment

Spec == Init /\ [][Next]_vars

(* Fairness.  tokio::select! chooses at random among the branches that are *)
(* ready, so a branch that keeps becoming ready is taken (strong fairness: *)
(* it is not ready while the task is inside a handler); timers keep        *)
(* firing; a handler that has begun goes on, and a batch ends (weak        *)
(* fairness).  The set-up of every server ends (ClusterBegins of Takeover  *)
(* says when).  Of the library it is assumed that an attempt to lead and a *)
(* tick send messages to all peers, that handling messages elects the      *)
(* candidate and informs a server of all decisions in the end, and that    *)
(* proposals are decided.                                                  *)
TakeoverTick(n) == LeaderInitialized(n) \/ AttemptLeadership(n, Peers(n))

IncomingMakesProgress(n, p) ==
  /\ HandleOmniPaxosMessage(n, p, Len(log), TRUE)
  /\ outgoing'[n] = Peers(n)
  /\ n = InitialLeader /\ role = "prepare" => role' = "accept"

Fairness ==
  /\ \A n \in Servers : WF_vars(NetworkReady(n))
  /\ SF_vars(TakeoverTick(InitialLeader))
  /\ \A n \in Servers :
       /\ SF_vars(ElectionTick(n, Peers(n)))
       /\ SF_vars(HandleClientMessages(n))
       /\ WF_vars(ExecuteCommand(n))
       /\ WF_vars(FinishBatch(n))
       /\ \A p \in Peers(n) :
            /\ SF_vars(IncomingMakesProgress(n, p))
            /\ WF_vars(HandleLeaderStartSignal(n, p))
  /\ WF_vars(\E cmd \in proposals : Decide(cmd))

FairSpec == Spec /\ Fairness

-----------------------------------------------------------------------------
(* Properties.                                                             *)

(* How many log entries the database of n reflects.                        *)
Applied(n) == current_decided_idx[n] - Len(decided_commands[n])

(* Every variable holds a value of the kind the code keeps in it.          *)
TypeOK ==
  /\ log \in Seq(Command)
  /\ proposals \subseteq Command
  /\ decided_idx \in [Servers -> Nat]
  /\ role \in {"follower", "prepare", "accept"}
  /\ outgoing \in [Servers -> SUBSET Servers]
  /\ phase \in [Servers -> {"setup", "establish", "main"}]
  /\ in_batch \in [Servers -> BOOLEAN]
  /\ received_start \in [Servers -> BOOLEAN]
  /\ client_messages \in [Servers -> Seq(ClientMessage)]
  /\ current_decided_idx \in [Servers -> Nat]
  /\ decided_commands \in [Servers -> Seq(Command)]
  /\ database \in [Servers -> Database]
  /\ peer_conn \in [Servers -> [Servers -> ConnState]]
  /\ link \in [Servers -> [Servers -> Seq(ClusterMessage)]]
  /\ client_conn \in [Servers -> [ClientIds -> ConnState]]
  /\ replies \in [Servers -> [ClientIds -> Seq(Reply)]]
  /\ starts \in [Servers -> [ClientIds -> Nat]]
  /\ requests \in [Servers -> [ClientIds -> SUBSET Nat]]
  /\ failures \in Nat
  /\ ref \in Seq(Database) \ { << >> }

(* State machine safety: whatever the batching, the order of messages and  *)
(* the moment another server looks, the database of a server is the one    *)
(* obtained by executing exactly the first Applied(n) log entries in       *)
(* order, each once (handle_decided_entries and the loop of                *)
(* update_database_and_respond).                                           *)
ReplicaState == \A n \in Servers : database[n] = ref[Applied(n) + 1]

(* No decision is forgotten: whenever a server waits in its select loop,   *)
(* it has executed everything its OmniPaxos instance has decided, although *)
(* no timer polls for decisions and only one handler looks for them.       *)
NothingForgotten ==
  \A n \in Servers : Selecting(n) => Applied(n) = decided_idx[n]

(* Among the first m log entries, those n coordinates for its client c.    *)
Session(n, c, m) == {i \in 1..m : log[i].coordinator_id = n /\ log[i].client_id = c}

(* at[1], ..., at[k] are the numbers in S in increasing order.             *)
Enumerates(at, k, S) ==
  /\ \A i \in S : \E j \in 1..k : at[j] = i
  /\ \A i, j \in 1..k : i < j => at[i] < at[j]

(* Client c of n has been given one reply to each of them, in log order,   *)
(* each answered from the state in which the log puts the command.         *)
AnsweredUpTo(n, c, m) ==
  LET got == replies[n][c] IN
  \E at \in [1..Len(got) -> Session(n, c, m)] :
    /\ Enumerates(at, Len(got), Session(n, c, m))
    /\ \A j \in 1..Len(got) :
         got[j] = Answer(ref[at[j]], log[at[j]].id, log[at[j]].kv_cmd)

(* A client is given one reply for each executed log entry its server      *)
(* coordinates for it, in log order, while its connection works, and those *)
(* up to some entry, without a gap, if the connection breaks; never a      *)
(* reply that belongs to the client with the same number at another        *)
(* server.                                                                 *)
RepliesFollowLog ==
  \A n \in Servers, c \in ClientIds : \E m \in 0..Applied(n) :
    /\ AnsweredUpTo(n, c, m)
    /\ client_conn[n][c] = "up" => m = Applied(n)

(* The experiment starts once: a client is sent at most one start signal,  *)
(* and none before the initial leader has finished taking over; a server   *)
(* leaves establish_initial_leader only after its connected clients have   *)
(* been sent theirs.                                                       *)
StartDiscipline ==
  \A n \in Servers, c \in ClientIds :
    /\ starts[n][c] <= 1
    /\ starts[n][c] = 1 => phase[InitialLeader] = "main" /\ role = "accept"
    /\ phase[n] = "main" /\ client_conn[n][c] = "up" => starts[n][c] = 1

(* The store the cluster implements.                                       *)
KV == INSTANCE LinearizableKV WITH
  submitted <- proposals,
  history   <- [i \in 1..Len(log) |->
                 [cmd   |-> log[i],
                  reply |-> Answer(ref[i], log[i].id, log[i].kv_cmd)]],
  store     <- ref[Len(ref)],
  delivered <- replies

(* Linearizability: to its clients the cluster is one store on which each  *)
(* command takes effect at most once, between its submission and its       *)
(* reply, and every reply, reads at any server included, is the one of     *)
(* that moment.                                                            *)
Linearizable == KV!KVSpec

(* Without connection failures the whole cluster gets started, every       *)
(* client included (establish_initial_leader, LeaderStartSignal), although *)
(* attempts of the leader may be lost to servers that are still setting    *)
(* up.  With two servers this holds whichever leads: it cannot take over   *)
(* without a message of the other, which then has left its set-up.         *)
(* Takeover says what more servers need.                                   *)
ClusterStarts ==
  <>(\A n \in Servers : phase[n] = "main" /\ \A c \in LocalClients(n) : starts[n][c] = 1)

(* Without connection failures every request is answered in the end.       *)
RequestsAnswered ==
  \A n \in Servers, c \in ClientIds : \A id \in RequestIds[n] :
    id \in requests[n][c] ~> \E i \in 1..Len(replies[n][c]) : replies[n][c][i].id = id
=============================================================================
