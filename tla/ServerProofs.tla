---------------------------- MODULE ServerProofs ----------------------------
(***************************************************************************)
(* Proofs about Server, for every set of servers, keys and values, any     *)
(* number of clients and requests, every batch size and any number of      *)
(* connection failures.                                                    *)
(*                                                                         *)
(* First the types, then the bookkeeping that ties the database of a       *)
(* server to the decided log, then the start signals.                      *)
(***************************************************************************)
EXTENDS Server, TLAPS

-----------------------------------------------------------------------------
(* The database code against the meaning of the commands.                  *)

(* Every command carries an operation, a key and a value or none.          *)
LEMMA KVCommandShape ==
  ASSUME NEW cmd \in KVCommand
  PROVE  /\ cmd.op \in {"Put", "Delete", "Get"}
         /\ cmd.key \in Keys
         /\ cmd.value \in Option
         /\ cmd.op = "Delete" => cmd.value = NoValue
  BY DEF KVCommand, Put, Delete, Get, Option

(* handle_command changes the store as the command says, and only its key. *)
LEMMA HandleCommandEffect ==
  ASSUME NEW db \in Database, NEW cmd \in KVCommand
  PROVE  /\ HandleCommand(db, cmd) = Effect(db, cmd)
         /\ Effect(db, cmd) \in Database
  BY KVCommandShape DEF HandleCommand, Effect, Database, Option

(* A reply is a message of the reply type.                                 *)
LEMMA ReplyType ==
  ASSUME NEW db \in Database, NEW cmd \in KVCommand, NEW id \in Nat
  PROVE  ReplyTo(db, id, cmd) \in Reply
  BY KVCommandShape DEF ReplyTo, ReadReply, WriteReply, Reply, Database

-----------------------------------------------------------------------------
(* An update of one entry of a table, such as link[p][n], keeps its type.  *)
LEMMA TableUpdate ==
  ASSUME NEW S, NEW T, NEW f \in [S -> [S -> T]], NEW i \in S, NEW j \in S, NEW v \in T
  PROVE  [f EXCEPT ![i][j] = v] \in [S -> [S -> T]]
  OBVIOUS

-----------------------------------------------------------------------------
(* What sending does to the types.                                         *)

LEMMA SendToClusterType ==
  ASSUME TypeOK, NEW n \in Servers, NEW to, NEW msg \in ClusterMessage,
         SendToCluster(n, to, msg)
  PROVE  /\ link' \in [Servers -> [Servers -> Seq(ClusterMessage)]]
         /\ peer_conn' \in [Servers -> [Servers -> ConnState]]
<1>1. \A p \in Servers : Enqueue(link[n][p], msg) \in Seq(ClusterMessage)
  BY DEF TypeOK, Enqueue
<1>2. \A p \in Servers : AfterSend(peer_conn[n][p]) \in ConnState
  BY DEF TypeOK, AfterSend, ConnState
<1>3. link' \in [Servers -> [Servers -> Seq(ClusterMessage)]]
  BY <1>1 DEF TypeOK, SendToCluster
<1>4. peer_conn' \in [Servers -> [Servers -> ConnState]]
  BY <1>2 DEF TypeOK, SendToCluster
<1> QED BY <1>3, <1>4

LEMMA SendOutgoingMsgsType ==
  ASSUME TypeOK, NEW n \in Servers, NEW produced,
         SendOutgoingMsgs(n, produced)
  PROVE  /\ link' \in [Servers -> [Servers -> Seq(ClusterMessage)]]
         /\ peer_conn' \in [Servers -> [Servers -> ConnState]]
         /\ outgoing' \in [Servers -> SUBSET Servers]
<1>1. "OmniPaxosMessage" \in ClusterMessage
  BY DEF ClusterMessage
<1>2. outgoing' \in [Servers -> SUBSET Servers]
  BY DEF TypeOK, SendOutgoingMsgs
<1> QED BY <1>1, <1>2, SendToClusterType DEF SendOutgoingMsgs

LEMMA SendClientStartSignalsType ==
  ASSUME TypeOK, NEW n \in Servers, SendClientStartSignals(n)
  PROVE  /\ starts' \in [Servers -> [ClientIds -> Nat]]
         /\ client_conn' \in [Servers -> [ClientIds -> ConnState]]
<1>1. \A c \in ClientIds : AfterSend(client_conn[n][c]) \in ConnState
  BY DEF TypeOK, AfterSend, ConnState
<1>2. starts' \in [Servers -> [ClientIds -> Nat]]
  <2>1. \A c \in ClientIds : starts[n][c] \in Nat /\ starts[n][c] + 1 \in Nat
    BY DEF TypeOK
  <2>2. [c \in ClientIds |-> IF client_conn[n][c] = "up"
                             THEN starts[n][c] + 1 ELSE starts[n][c]] \in [ClientIds -> Nat]
    BY <2>1
  <2> QED BY <2>2 DEF TypeOK, SendClientStartSignals
<1>3. client_conn' \in [Servers -> [ClientIds -> ConnState]]
  BY <1>1 DEF TypeOK, SendClientStartSignals
<1> QED BY <1>2, <1>3

LEMMA SendToClientType ==
  ASSUME TypeOK, NEW n \in Servers, NEW c \in ClientIds, NEW msg \in Reply,
         SendToClient(n, c, msg)
  PROVE  /\ replies' \in [Servers -> [ClientIds -> Seq(Reply)]]
         /\ client_conn' \in [Servers -> [ClientIds -> ConnState]]
<1>1. AfterSend(client_conn[n][c]) \in ConnState
  BY DEF TypeOK, AfterSend, ConnState
<1>2. Append(replies[n][c], msg) \in Seq(Reply)
  BY DEF TypeOK
<1>3. replies' \in [Servers -> [ClientIds -> Seq(Reply)]]
  BY <1>2 DEF TypeOK, SendToClient
<1>4. client_conn' \in [Servers -> [ClientIds -> ConnState]]
  BY <1>1 DEF TypeOK, SendToClient
<1> QED BY <1>3, <1>4

-----------------------------------------------------------------------------
(* Type correctness.                                                       *)

LEMMA InitType ==
  ASSUME Init
  PROVE  TypeOK
<1>1. NewDatabase \in Database
  BY DEF NewDatabase, Database, Option
<1> QED BY <1>1, ServersAssumption, ServerAssumption DEF Init, OmniInit, TypeOK, ConnState

(* A decided suffix consists of commands.                                  *)
LEMMA SuffixType ==
  ASSUME TypeOK, NEW i \in Nat, NEW j \in 0..Len(log)
  PROVE  /\ ReadDecidedSuffix(i, j) \in Seq(Command)
         /\ Len(ReadDecidedSuffix(i, j)) = IF i <= j THEN j - i ELSE 0
         /\ \A k \in 1..(j - i) : ReadDecidedSuffix(i, j)[k] = log[i + k]
  BY DEF TypeOK, ReadDecidedSuffix

(* Every step keeps the types.                                             *)
LEMMA NextType ==
  ASSUME TypeOK, [Next]_vars
  PROVE  TypeOK'
<1> USE DEF omniVars, loopVars, appVars, clusterVars, clientVars, inputVars, ghostVars
<1>1. ASSUME NEW n \in Servers, LeaderInitialized(n) PROVE TypeOK'
  <2>1. "LeaderStartSignal" \in ClusterMessage
    BY DEF ClusterMessage
  <2>2. phase' \in [Servers -> {"setup", "establish", "main"}]
    BY <1>1 DEF LeaderInitialized, TypeOK
  <2> QED BY <1>1, <2>1, <2>2, SendToClusterType, SendClientStartSignalsType
          DEF LeaderInitialized, TypeOK
<1>2. ASSUME NEW n \in Servers, NEW produced, AttemptLeadership(n, produced) PROVE TypeOK'
  BY <1>2, SendOutgoingMsgsType DEF AttemptLeadership, TypeOK
<1>3. ASSUME NEW n \in Servers, NEW produced, ElectionTick(n, produced) PROVE TypeOK'
  BY <1>3, SendOutgoingMsgsType DEF ElectionTick, TypeOK
<1>4. ASSUME NEW n \in Servers, HandleClientMessages(n) PROVE TypeOK'
  <2> DEFINE k == Taken(client_messages[n])
  <2>1. k \in 0..Len(client_messages[n])
    BY ServerAssumption DEF TypeOK, Taken
  <2>2. \A i \in 1..k : Stamp(n, client_messages[n][i]) \in Command
    <3> SUFFICES ASSUME NEW i \in 1..k
                 PROVE  Stamp(n, client_messages[n][i]) \in Command
      OBVIOUS
    <3>1. client_messages[n][i] \in ClientMessage
      BY <2>1 DEF TypeOK
    <3> QED BY <3>1 DEF Stamp, Command, ClientMessage
  <2>3. proposals' \subseteq Command
    BY <1>4, <2>2 DEF HandleClientMessages, TypeOK
  <2>4. SubSeq(client_messages[n], k + 1, Len(client_messages[n])) \in Seq(ClientMessage)
    BY <2>1 DEF TypeOK
  <2>5. client_messages' \in [Servers -> Seq(ClientMessage)]
    BY <1>4, <2>4 DEF HandleClientMessages, TypeOK
  <2> QED BY <1>4, <2>3, <2>5, SendOutgoingMsgsType DEF HandleClientMessages, TypeOK
<1>5. ASSUME NEW n \in Servers, NEW p \in Servers, NEW newIdx \in decided_idx[n]..Len(log),
             NEW last \in BOOLEAN, HandleOmniPaxosMessage(n, p, newIdx, last)
      PROVE  TypeOK'
  <2>1. newIdx \in 0..Len(log) /\ current_decided_idx[n] \in Nat
    BY DEF TypeOK
  <2>2. /\ decided_commands' \in [Servers -> Seq(Command)]
        /\ current_decided_idx' \in [Servers -> Nat]
    <3>1. ReadDecidedSuffix(current_decided_idx[n], newIdx) \in Seq(Command)
      BY <2>1, SuffixType
    <3>2. CASE current_decided_idx[n] < newIdx
      <4>1. /\ decided_commands' = [decided_commands EXCEPT
                 ![n] = ReadDecidedSuffix(current_decided_idx[n], newIdx)]
            /\ current_decided_idx' = [current_decided_idx EXCEPT ![n] = newIdx]
        BY <1>5, <3>2 DEF HandleOmniPaxosMessage, HandleDecidedEntries
      <4>2. newIdx \in Nat
        BY <2>1
      <4> QED BY <3>1, <4>1, <4>2 DEF TypeOK
    <3>3. CASE ~(current_decided_idx[n] < newIdx)
      BY <1>5, <3>3 DEF HandleOmniPaxosMessage, HandleDecidedEntries, TypeOK
    <3> QED BY <3>2, <3>3
  <2>3. decided_idx' \in [Servers -> Nat]
    BY <1>5, <2>1 DEF HandleOmniPaxosMessage, OmniHandleIncoming, TypeOK
  <2>4. outgoing' \in [Servers -> SUBSET Servers]
    <3>1. PICK dest \in SUBSET Peers(n) :
                 outgoing' = [outgoing EXCEPT ![n] = @ \cup dest]
      BY <1>5 DEF HandleOmniPaxosMessage, OmniHandleIncoming
    <3>2. outgoing[n] \cup dest \in SUBSET Servers
      BY DEF Peers, TypeOK
    <3> QED BY <3>1, <3>2 DEF TypeOK
  <2>5. role' \in {"follower", "prepare", "accept"}
    BY <1>5 DEF HandleOmniPaxosMessage, OmniHandleIncoming, TypeOK
  <2>6. link' \in [Servers -> [Servers -> Seq(ClusterMessage)]]
    <3> DEFINE rest == IF last THEN Tail(link[p][n]) ELSE link[p][n]
    <3>1. link' = [link EXCEPT ![p][n] = rest] /\ link[p][n] # << >>
      BY <1>5 DEF HandleOmniPaxosMessage, NextMessage
    <3>2. link \in [Servers -> [Servers -> Seq(ClusterMessage)]]
      BY DEF TypeOK
    <3>3. rest \in Seq(ClusterMessage)
      BY <3>1, <3>2
    <3> HIDE DEF rest
    <3> QED BY <3>1, <3>2, <3>3, TableUpdate
  <2>7. in_batch' \in [Servers -> BOOLEAN]
    BY <1>5 DEF HandleOmniPaxosMessage, NextMessage, TypeOK
  <2> QED BY <1>5, <2>2, <2>3, <2>4, <2>5, <2>6, <2>7
          DEF HandleOmniPaxosMessage, OmniHandleIncoming, TypeOK
<1>6. ASSUME NEW n \in Servers, NEW p \in Servers, HandleLeaderStartSignal(n, p)
      PROVE  TypeOK'
  <2>1. link' \in [Servers -> [Servers -> Seq(ClusterMessage)]]
    <3>1. link' = [link EXCEPT ![p][n] = Tail(link[p][n])] /\ link[p][n] # << >>
      BY <1>6 DEF HandleLeaderStartSignal, NextMessage
    <3>2. link \in [Servers -> [Servers -> Seq(ClusterMessage)]]
      BY DEF TypeOK
    <3>3. Tail(link[p][n]) \in Seq(ClusterMessage)
      BY <3>1, <3>2
    <3> QED BY <3>1, <3>2, <3>3, TableUpdate
  <2>2. /\ in_batch' \in [Servers -> BOOLEAN]
        /\ received_start' \in [Servers -> BOOLEAN]
    BY <1>6 DEF HandleLeaderStartSignal, NextMessage, TypeOK
  <2> QED BY <1>6, <2>1, <2>2, SendClientStartSignalsType DEF HandleLeaderStartSignal, TypeOK
<1>7. ASSUME NEW n \in Servers, ExecuteCommand(n) PROVE TypeOK'
  <2> DEFINE command == Head(decided_commands[n])
  <2>1. /\ command \in Command
        /\ Tail(decided_commands[n]) \in Seq(Command)
    BY <1>7 DEF ExecuteCommand, TypeOK
  <2>2. /\ command.kv_cmd \in KVCommand
        /\ command.client_id \in ClientIds
        /\ command.id \in Nat
    BY <2>1 DEF Command
  <2>3. database[n] \in Database
    BY DEF TypeOK
  <2>4. database' \in [Servers -> Database]
    <3>1. HandleCommand(database[n], command.kv_cmd) \in Database
      BY <2>2, <2>3, HandleCommandEffect
    <3> QED BY <1>7, <3>1 DEF ExecuteCommand, TypeOK
  <2>5. /\ replies' \in [Servers -> [ClientIds -> Seq(Reply)]]
        /\ client_conn' \in [Servers -> [ClientIds -> ConnState]]
    <3>1. ReplyTo(database[n], command.id, command.kv_cmd) \in Reply
      BY <2>2, <2>3, ReplyType
    <3> QED BY <1>7, <2>2, <3>1, SendToClientType DEF ExecuteCommand, TypeOK
  <2>6. decided_commands' \in [Servers -> Seq(Command)]
    BY <1>7, <2>1 DEF ExecuteCommand, TypeOK
  <2> QED BY <1>7, <2>4, <2>5, <2>6 DEF ExecuteCommand, TypeOK
<1>8. ASSUME NEW n \in Servers, FinishBatch(n) PROVE TypeOK'
  <2>1. /\ phase' \in [Servers -> {"setup", "establish", "main"}]
        /\ received_start' \in [Servers -> BOOLEAN]
        /\ in_batch' \in [Servers -> BOOLEAN]
    BY <1>8 DEF FinishBatch, TypeOK
  <2> QED BY <1>8, <2>1, SendOutgoingMsgsType DEF FinishBatch, TypeOK
<1>9. ASSUME NEW n \in Servers, NEW c \in ClientIds,
             NEW id \in RequestIds[n], NEW cmd \in Workload[n], ClientRequest(n, c, id, cmd)
      PROVE  TypeOK'
  <2>1. id \in Nat /\ [from |-> c, id |-> id, kv_cmd |-> cmd] \in ClientMessage
    BY ServerAssumption DEF ClientMessage
  <2>2. client_messages' \in [Servers -> Seq(ClientMessage)]
    BY <1>9, <2>1 DEF ClientRequest, TypeOK
  <2>3. requests' \in [Servers -> [ClientIds -> SUBSET Nat]]
    <3>1. /\ requests \in [Servers -> [ClientIds -> SUBSET Nat]]
          /\ requests' = [requests EXCEPT ![n][c] = @ \cup {id}]
      BY <1>9 DEF ClientRequest, TypeOK
    <3>2. requests[n][c] \cup {id} \in SUBSET Nat
      BY <2>1, <3>1
    <3> QED BY <3>1, <3>2
  <2> QED BY <1>9, <2>2, <2>3 DEF ClientRequest, TypeOK
<1>10. ASSUME NEW cmd \in proposals, Decide(cmd) PROVE TypeOK'
  <2>1. cmd \in Command /\ cmd.kv_cmd \in KVCommand
    BY DEF TypeOK, Command
  <2>2. log' \in Seq(Command)
    BY <1>10, <2>1 DEF Decide, OmniDecide, TypeOK
  <2>3. ref' \in Seq(Database) \ { << >> }
    <3>1. ref[Len(ref)] \in Database
      BY DEF TypeOK
    <3>2. Effect(ref[Len(ref)], cmd.kv_cmd) \in Database
      BY <2>1, <3>1, HandleCommandEffect
    <3>3. Append(ref, Effect(ref[Len(ref)], cmd.kv_cmd)) \in Seq(Database) \ { << >> }
      <4>1. ref \in Seq(Database)
        BY DEF TypeOK
      <4>2. Len(Append(ref, Effect(ref[Len(ref)], cmd.kv_cmd))) = Len(ref) + 1
        BY <3>2, <4>1
      <4> QED BY <3>2, <4>1, <4>2
    <3> QED BY <1>10, <3>3 DEF Decide
  <2> QED BY <1>10, <2>2, <2>3 DEF Decide, OmniDecide, TypeOK
<1>11. ASSUME NEW n \in Servers, NEW p \in Peers(n), BreakPeer(n, p) PROVE TypeOK'
  <2>0. p \in Servers /\ p # n
    BY DEF Peers
  <2>1. link' \in [Servers -> [Servers -> Seq(ClusterMessage)]]
    <3>1. PICK i \in 0..Len(link[n][p]), j \in 0..Len(link[p][n]) :
            link' = [link EXCEPT ![n][p] = SubSeq(link[n][p], 1, i),
                                 ![p][n] = SubSeq(link[p][n], 1, j)]
      BY <1>11 DEF BreakPeer
    <3>2. /\ SubSeq(link[n][p], 1, i) \in Seq(ClusterMessage)
          /\ SubSeq(link[p][n], 1, j) \in Seq(ClusterMessage)
      <4>1. ASSUME NEW q \in Seq(ClusterMessage), NEW k \in 0..Len(q)
            PROVE  SubSeq(q, 1, k) \in Seq(ClusterMessage)
        OBVIOUS
      <4>2. link[n][p] \in Seq(ClusterMessage) /\ link[p][n] \in Seq(ClusterMessage)
        BY <2>0 DEF TypeOK
      <4> QED BY <4>1, <4>2
    <3> DEFINE cut == [link EXCEPT ![n][p] = SubSeq(link[n][p], 1, i)]
    <3>3. cut \in [Servers -> [Servers -> Seq(ClusterMessage)]]
      BY <2>0, <3>2, TableUpdate DEF TypeOK
    <3>4. link' = [cut EXCEPT ![p][n] = SubSeq(link[p][n], 1, j)]
      BY <3>1
    <3> HIDE DEF cut
    <3> QED BY <2>0, <3>2, <3>3, <3>4, TableUpdate
  <2>2. peer_conn' \in [Servers -> [Servers -> ConnState]]
    BY <1>11, <2>0 DEF BreakPeer, TypeOK, ConnState
  <2>3. failures' \in Nat
    BY <1>11 DEF BreakPeer, TypeOK
  <2> QED BY <1>11, <2>1, <2>2, <2>3 DEF BreakPeer, TypeOK
<1>12. ASSUME NEW n \in Servers, NEW c \in ClientIds, BreakClient(n, c) PROVE TypeOK'
  <2>1. client_conn' \in [Servers -> [ClientIds -> ConnState]] /\ failures' \in Nat
    BY <1>12 DEF BreakClient, TypeOK, ConnState
  <2> QED BY <1>12, <2>1 DEF BreakClient, TypeOK
<1>13. ASSUME NEW n \in Servers, NEW p \in Servers, PeerWriterEnds(n, p) PROVE TypeOK'
  BY <1>13 DEF PeerWriterEnds, TypeOK, ConnState
<1>14. ASSUME NEW n \in Servers, NEW c \in ClientIds, ClientWriterEnds(n, c) PROVE TypeOK'
  BY <1>14 DEF ClientWriterEnds, TypeOK, ConnState
<1>15. ASSUME NEW n \in Servers, NetworkReady(n) PROVE TypeOK'
  BY <1>15 DEF NetworkReady, TypeOK
<1>16. ASSUME NEW n \in Servers, NEW p \in Servers, ReadHandshake(n, p) PROVE TypeOK'
  <2>1. PICK k \in 1..Len(link[p][n]) :
          link' = [link EXCEPT ![p][n] = SubSeq(link[p][n], k + 1, Len(link[p][n]))]
    BY <1>16 DEF ReadHandshake
  <2>2. link \in [Servers -> [Servers -> Seq(ClusterMessage)]]
    BY DEF TypeOK
  <2>3. SubSeq(link[p][n], k + 1, Len(link[p][n])) \in Seq(ClusterMessage)
    <3>1. link[p][n] \in Seq(ClusterMessage)
      BY <2>2
    <3> QED BY <3>1
  <2>4. link' \in [Servers -> [Servers -> Seq(ClusterMessage)]]
    BY <2>1, <2>2, <2>3, TableUpdate
  <2> QED BY <1>16, <2>4 DEF ReadHandshake, TypeOK
<1>17. CASE UNCHANGED vars
  BY <1>17 DEF vars, TypeOK
<1> QED BY <1>1, <1>2, <1>3, <1>4, <1>5, <1>6, <1>7, <1>8, <1>9, <1>10, <1>11, <1>12,
           <1>13, <1>14, <1>15, <1>16, <1>17 DEF Next, ServerStep, Environment, Peers, Higher

(* In every reachable state each variable of Server holds a value of the   *)
(* kind the code keeps in it.                                              *)
THEOREM TypeCorrect == Spec => []TypeOK
  BY InitType, NextType, PTL DEF Spec

-----------------------------------------------------------------------------
(* The database follows the log.  The inductive invariant says that        *)
(* - a server has picked up exactly what its instance has decided          *)
(*   (handle_decided_entries runs after every handle_incoming),            *)
(* - what it has picked up and not yet executed is a segment of the log,   *)
(* - this segment is empty when the server is not inside a handler, and    *)
(* - ref records the store after each prefix of the log.                   *)

PickedUp ==
  \A n \in Servers : /\ current_decided_idx[n] = decided_idx[n]
                     /\ decided_idx[n] <= Len(log)

PendingSegment ==
  \A n \in Servers :
    /\ Len(decided_commands[n]) <= current_decided_idx[n]
    /\ \A j \in 1..Len(decided_commands[n]) :
         decided_commands[n][j] = log[Applied(n) + j]

IdleHasNothingPending ==
  \A n \in Servers : ~in_batch[n] => decided_commands[n] = << >>

RefFollowsLog ==
  /\ Len(ref) = Len(log) + 1
  /\ \A i \in 1..Len(log) : ref[i + 1] = Effect(ref[i], log[i].kv_cmd)

ReplicaInv ==
  /\ TypeOK
  /\ PickedUp
  /\ PendingSegment
  /\ IdleHasNothingPending
  /\ RefFollowsLog
  /\ ReplicaState

LEMMA ReplicaInvInit ==
  ASSUME Init
  PROVE  ReplicaInv
<1>1. TypeOK
  BY InitType
<1>2. /\ PickedUp
      /\ IdleHasNothingPending
  BY DEF Init, OmniInit, PickedUp, IdleHasNothingPending
<1>3. PendingSegment
  BY DEF Init, OmniInit, PendingSegment
<1>4. RefFollowsLog
  BY DEF Init, OmniInit, RefFollowsLog
<1>5. ReplicaState
  BY DEF Init, OmniInit, ReplicaState, Applied
<1> QED BY <1>1, <1>2, <1>3, <1>4, <1>5 DEF ReplicaInv

(* A step that leaves alone what the invariant speaks of preserves it; a   *)
(* server may leave a handler that has nothing pending.                    *)
LEMMA ReplicaInvFrame ==
  ASSUME ReplicaInv, TypeOK',
         UNCHANGED <<log, decided_idx, current_decided_idx, decided_commands, database, ref>>,
         \A m \in Servers : ~in_batch'[m] => ~in_batch[m] \/ decided_commands[m] = << >>
  PROVE  ReplicaInv'
<1>1. PickedUp' /\ RefFollowsLog'
  BY DEF ReplicaInv, PickedUp, RefFollowsLog
<1>2. PendingSegment' /\ ReplicaState'
  BY DEF ReplicaInv, PendingSegment, ReplicaState, Applied
<1>3. IdleHasNothingPending'
  BY DEF ReplicaInv, IdleHasNothingPending
<1> QED BY <1>1, <1>2, <1>3 DEF ReplicaInv

(* A protocol message: everything newly decided is picked up at once.      *)
LEMMA ReplicaInvIncoming ==
  ASSUME ReplicaInv, TypeOK',
         NEW n \in Servers, NEW p \in Servers, NEW newIdx \in decided_idx[n]..Len(log),
         NEW last \in BOOLEAN, HandleOmniPaxosMessage(n, p, newIdx, last)
  PROVE  ReplicaInv'
<1> USE DEF inputVars, clientVars, ghostVars
<1>1. /\ log' = log /\ ref' = ref /\ database' = database
      /\ in_batch' = [in_batch EXCEPT ![n] = TRUE]
      /\ decided_idx' = [decided_idx EXCEPT ![n] = newIdx]
      /\ decided_commands[n] = << >>
  BY DEF HandleOmniPaxosMessage, NextMessage, OmniHandleIncoming
<1>2. /\ TypeOK
      /\ decided_idx[n] = current_decided_idx[n]
      /\ current_decided_idx[n] \in Nat
      /\ newIdx \in 0..Len(log)
      /\ current_decided_idx[n] <= newIdx
  <2>1. TypeOK /\ decided_idx[n] = current_decided_idx[n]
    BY DEF ReplicaInv, PickedUp
  <2>2. current_decided_idx[n] \in Nat /\ Len(log) \in Nat
    BY <2>1 DEF TypeOK
  <2> QED BY <2>1, <2>2
<1> DEFINE suffix == ReadDecidedSuffix(current_decided_idx[n], newIdx)
<1>3. /\ Len(suffix) = newIdx - current_decided_idx[n]
      /\ \A k \in 1..Len(suffix) : suffix[k] = log[current_decided_idx[n] + k]
  BY <1>2, SuffixType
<1>4. CASE current_decided_idx[n] < newIdx
  <2>1. /\ decided_commands' = [decided_commands EXCEPT ![n] = suffix]
        /\ current_decided_idx' = [current_decided_idx EXCEPT ![n] = newIdx]
    BY <1>4 DEF HandleOmniPaxosMessage, HandleDecidedEntries
  <2>2. Applied(n)' = Applied(n)
    <3>1. Applied(n) = current_decided_idx[n]
      BY <1>1, <1>2 DEF Applied
    <3>2. decided_commands'[n] = suffix /\ current_decided_idx'[n] = newIdx
      BY <1>2, <2>1 DEF TypeOK
    <3>3. Applied(n)' = newIdx - Len(suffix)
      BY <3>2 DEF Applied
    <3> QED BY <1>2, <1>3, <3>1, <3>3
  <2>3. PendingSegment'
    <3> SUFFICES ASSUME NEW m \in Servers
                 PROVE  /\ Len(decided_commands'[m]) <= current_decided_idx'[m]
                        /\ \A j \in 1..Len(decided_commands'[m]) :
                             decided_commands'[m][j] = log[Applied(m)' + j]
      BY <1>1 DEF PendingSegment
    <3>1. CASE m = n
      <4>1. decided_commands'[n] = suffix /\ current_decided_idx'[n] = newIdx
        BY <1>2, <2>1 DEF TypeOK
      <4>2. Applied(n)' = current_decided_idx[n]
        BY <1>1, <1>2, <2>2 DEF Applied
      <4> QED BY <1>2, <1>3, <3>1, <4>1, <4>2
    <3>2. CASE m # n
      BY <1>2, <2>1, <3>2 DEF ReplicaInv, PendingSegment, Applied, TypeOK
    <3> QED BY <3>1, <3>2
  <2>4. ReplicaState'
    <3>1. Applied(n)' = Applied(n)
      BY <1>1, <1>2, <2>1, <2>2 DEF Applied, TypeOK
    <3>2. ASSUME NEW m \in Servers, m # n PROVE Applied(m)' = Applied(m)
      BY <1>2, <2>1, <3>2 DEF Applied, TypeOK
    <3>3. ReplicaState
      BY DEF ReplicaInv
    <3> QED BY <1>1, <3>1, <3>2, <3>3 DEF ReplicaState
  <2>5. PickedUp'
    BY <1>1, <1>2, <2>1 DEF ReplicaInv, PickedUp, TypeOK
  <2>6. IdleHasNothingPending'
    BY <1>1, <1>2, <2>1 DEF ReplicaInv, IdleHasNothingPending, TypeOK
  <2>7. RefFollowsLog'
    BY <1>1 DEF ReplicaInv, RefFollowsLog
  <2> QED BY <2>3, <2>4, <2>5, <2>6, <2>7 DEF ReplicaInv
<1>5. CASE ~(current_decided_idx[n] < newIdx)
  <2>1. UNCHANGED <<decided_commands, current_decided_idx>>
    BY <1>5 DEF HandleOmniPaxosMessage, HandleDecidedEntries
  <2>2. decided_idx' = decided_idx
    BY <1>1, <1>2, <1>5 DEF TypeOK
  <2>3. \A m \in Servers : ~in_batch'[m] => ~in_batch[m] \/ decided_commands[m] = << >>
    BY <1>1, <1>2 DEF TypeOK
  <2> QED BY <1>1, <2>1, <2>2, <2>3, ReplicaInvFrame
<1> QED BY <1>4, <1>5

(* What executing the next command means in terms of the log: it is the    *)
(* entry after the executed ones, and its reply is the one the store of    *)
(* that moment determines.                                                 *)
LEMMA ExecuteIsNextEntry ==
  ASSUME ReplicaInv, NEW n \in Servers, ExecuteCommand(n)
  PROVE  /\ Applied(n) \in Nat /\ Applied(n) + 1 \in 1..Len(log)
         /\ Head(decided_commands[n]) = log[Applied(n) + 1]
         /\ log[Applied(n) + 1] \in Command
         /\ Applied(n)' = Applied(n) + 1
         /\ \A m \in Servers \ {n} : Applied(m)' = Applied(m)
         /\ LET cmd == log[Applied(n) + 1] IN
              ReplyTo(database[n], cmd.id, cmd.kv_cmd)
                = Answer(ref[Applied(n) + 1], cmd.id, cmd.kv_cmd)
<1> DEFINE pending == decided_commands[n]
           a       == Applied(n)
<1>1. /\ UNCHANGED current_decided_idx
      /\ decided_commands' = [decided_commands EXCEPT ![n] = Tail(pending)]
      /\ pending # << >>
  BY DEF ExecuteCommand
<1>2. /\ TypeOK
      /\ pending \in Seq(Command)
      /\ current_decided_idx[n] \in Nat /\ Len(log) \in Nat
      /\ Len(pending) \in Nat /\ Len(pending) >= 1
      /\ Len(pending) <= current_decided_idx[n]
      /\ current_decided_idx[n] <= Len(log)
  <2>1. TypeOK
    BY DEF ReplicaInv
  <2>2. /\ pending \in Seq(Command)
        /\ current_decided_idx[n] \in Nat /\ Len(log) \in Nat
    BY <2>1 DEF TypeOK
  <2>3. Len(pending) \in Nat /\ Len(pending) >= 1
    BY <1>1, <2>2
  <2>4. Len(pending) <= current_decided_idx[n] /\ current_decided_idx[n] <= Len(log)
    BY DEF ReplicaInv, PickedUp, PendingSegment
  <2> QED BY <2>1, <2>2, <2>3, <2>4
<1>3. /\ a = current_decided_idx[n] - Len(pending)
      /\ a \in Nat /\ a + 1 \in 1..Len(log)
  BY <1>2 DEF Applied
<1>4. Applied(n)' = a + 1
  <2>1. decided_commands'[n] = Tail(pending) /\ Len(Tail(pending)) = Len(pending) - 1
    BY <1>1, <1>2 DEF TypeOK
  <2>2. Applied(n)' = current_decided_idx[n] - (Len(pending) - 1)
    BY <1>1, <2>1 DEF Applied
  <2> QED BY <1>2, <1>3, <2>2
<1>5. \A m \in Servers \ {n} : Applied(m)' = Applied(m)
  BY <1>1, <1>2 DEF Applied, TypeOK
<1>6. Head(pending) = log[a + 1] /\ log[a + 1] \in Command
  <2>1. pending[1] = log[a + 1]
    BY <1>2 DEF ReplicaInv, PendingSegment
  <2>2. Head(pending) = pending[1] /\ Head(pending) \in Command
    BY <1>2
  <2> QED BY <2>1, <2>2
<1>7. LET cmd == log[a + 1]
      IN  ReplyTo(database[n], cmd.id, cmd.kv_cmd) = Answer(ref[a + 1], cmd.id, cmd.kv_cmd)
  <2>1. log[a + 1].kv_cmd \in KVCommand
    BY <1>6 DEF Command
  <2>2. database[n] = ref[a + 1]
    BY DEF ReplicaInv, ReplicaState
  <2> QED BY <2>1, <2>2, KVCommandShape DEF ReplyTo, Answer
<1> QED BY <1>3, <1>4, <1>5, <1>6, <1>7

(* One command is executed: the database moves one entry along the log.    *)
LEMMA ReplicaInvExecute ==
  ASSUME ReplicaInv, TypeOK', NEW n \in Servers, ExecuteCommand(n)
  PROVE  ReplicaInv'
<1> USE DEF omniVars, loopVars, ghostVars
<1> DEFINE pending == decided_commands[n]
           command == Head(pending)
           a       == Applied(n)
<1>1. /\ UNCHANGED <<log, ref, decided_idx, in_batch, current_decided_idx>>
      /\ database' = [database EXCEPT ![n] = HandleCommand(database[n], command.kv_cmd)]
      /\ decided_commands' = [decided_commands EXCEPT ![n] = Tail(pending)]
      /\ pending # << >>
  BY DEF ExecuteCommand
<1>2. /\ TypeOK
      /\ pending \in Seq(Command)
      /\ current_decided_idx[n] \in Nat
      /\ Len(pending) <= current_decided_idx[n]
  BY DEF ReplicaInv, PendingSegment, TypeOK
<1>3. a \in Nat /\ a + 1 \in 1..Len(log)
  BY ExecuteIsNextEntry
<1>4. decided_commands'[n] = Tail(pending) /\ Len(Tail(pending)) = Len(pending) - 1
  BY <1>1, <1>2 DEF TypeOK
<1>5. Applied(n)' = a + 1
  BY ExecuteIsNextEntry
<1>6. command = log[a + 1] /\ command.kv_cmd \in KVCommand
  BY ExecuteIsNextEntry DEF Command
<1>7. database'[n] = ref[a + 2]
  <2>1. database[n] = ref[a + 1] /\ database[n] \in Database
    BY <1>2 DEF ReplicaInv, ReplicaState, TypeOK
  <2>2. ref[a + 2] = Effect(ref[a + 1], command.kv_cmd)
    <3>1. ref[(a + 1) + 1] = Effect(ref[a + 1], log[a + 1].kv_cmd)
      BY <1>3 DEF ReplicaInv, RefFollowsLog
    <3>2. (a + 1) + 1 = a + 2
      BY <1>3
    <3> QED BY <1>6, <3>1, <3>2
  <2>3. database'[n] = HandleCommand(database[n], command.kv_cmd)
    BY <1>1, <1>2 DEF TypeOK
  <2> QED BY <1>6, <2>1, <2>2, <2>3, HandleCommandEffect
<1>8. ReplicaState'
  <2> SUFFICES ASSUME NEW m \in Servers PROVE database'[m] = ref[Applied(m)' + 1]
    BY <1>1 DEF ReplicaState
  <2>1. CASE m = n
    BY <1>3, <1>5, <1>7, <2>1
  <2>2. CASE m # n
    BY <1>1, <1>2, <2>2 DEF ReplicaInv, ReplicaState, Applied, TypeOK
  <2> QED BY <2>1, <2>2
<1>9. PendingSegment'
  <2> SUFFICES ASSUME NEW m \in Servers
               PROVE  /\ Len(decided_commands'[m]) <= current_decided_idx[m]
                      /\ \A j \in 1..Len(decided_commands'[m]) :
                           decided_commands'[m][j] = log[Applied(m)' + j]
    BY <1>1 DEF PendingSegment
  <2>1. CASE m = n
    <3>1. Len(decided_commands'[n]) <= current_decided_idx[n]
      BY <1>2, <1>4
    <3>2. ASSUME NEW j \in 1..Len(Tail(pending))
          PROVE  Tail(pending)[j] = log[(a + 1) + j]
      <4>1. Tail(pending)[j] = pending[j + 1] /\ j + 1 \in 1..Len(pending)
        BY <1>2, <1>4
      <4>2. pending[j + 1] = log[a + (j + 1)]
        BY <4>1 DEF ReplicaInv, PendingSegment
      <4>3. a + (j + 1) = (a + 1) + j
        BY <1>3
      <4> QED BY <4>1, <4>2, <4>3
    <3> QED BY <1>4, <1>5, <2>1, <3>1, <3>2
  <2>2. CASE m # n
    BY <1>1, <1>2, <2>2 DEF ReplicaInv, PendingSegment, Applied, TypeOK
  <2> QED BY <2>1, <2>2
<1>10. PickedUp' /\ RefFollowsLog'
  BY <1>1 DEF ReplicaInv, PickedUp, RefFollowsLog
<1>11. IdleHasNothingPending'
  BY <1>1, <1>2 DEF ReplicaInv, IdleHasNothingPending, TypeOK
<1> QED BY <1>8, <1>9, <1>10, <1>11 DEF ReplicaInv

(* A decision: the log grows, and ref with it.                             *)
LEMMA ReplicaInvDecide ==
  ASSUME ReplicaInv, TypeOK', NEW cmd \in proposals, Decide(cmd)
  PROVE  ReplicaInv'
<1> USE DEF loopVars, appVars
<1>1. /\ log' = Append(log, cmd)
      /\ ref' = Append(ref, Effect(ref[Len(ref)], cmd.kv_cmd))
      /\ UNCHANGED <<decided_idx, in_batch, current_decided_idx, decided_commands, database>>
  BY DEF Decide, OmniDecide
<1>2. /\ log \in Seq(Command) /\ cmd \in Command /\ Len(log) \in Nat
      /\ ref \in Seq(Database) /\ Len(ref) = Len(log) + 1
  BY DEF ReplicaInv, TypeOK, RefFollowsLog
<1>3. /\ Len(log') = Len(log) + 1
      /\ \A i \in 1..Len(log) : log'[i] = log[i]
      /\ log'[Len(log) + 1] = cmd
  BY <1>1, <1>2
<1>4. /\ Len(ref') = Len(ref) + 1
      /\ \A i \in 1..Len(ref) : ref'[i] = ref[i]
      /\ ref'[Len(ref) + 1] = Effect(ref[Len(ref)], cmd.kv_cmd)
  <2>1. Effect(ref[Len(ref)], cmd.kv_cmd) \in Database
    <3>1. ref[Len(ref)] \in Database /\ cmd.kv_cmd \in KVCommand
      BY <1>2 DEF Command
    <3> QED BY <3>1, HandleCommandEffect
  <2> QED BY <1>1, <1>2, <2>1
<1>5. \A m \in Servers :
        /\ current_decided_idx[m] \in Nat /\ current_decided_idx[m] <= Len(log)
        /\ Len(decided_commands[m]) \in Nat
        /\ Len(decided_commands[m]) <= current_decided_idx[m]
        /\ Applied(m) = current_decided_idx[m] - Len(decided_commands[m])
        /\ Applied(m)' = Applied(m)
  BY <1>1 DEF ReplicaInv, PickedUp, PendingSegment, TypeOK, Applied
<1>6. PickedUp'
  BY <1>1, <1>2, <1>3 DEF ReplicaInv, PickedUp, TypeOK
<1>7. PendingSegment'
  <2> SUFFICES ASSUME NEW m \in Servers, NEW j \in 1..Len(decided_commands[m])
               PROVE  decided_commands[m][j] = log'[Applied(m) + j]
    BY <1>1, <1>5 DEF PendingSegment
  <2>1. Applied(m) + j \in 1..Len(log)
    BY <1>2, <1>5
  <2>2. decided_commands[m][j] = log[Applied(m) + j]
    BY DEF ReplicaInv, PendingSegment
  <2> QED BY <1>3, <2>1, <2>2
<1>8. IdleHasNothingPending'
  BY <1>1 DEF ReplicaInv, IdleHasNothingPending
<1>9. RefFollowsLog'
  <2> SUFFICES ASSUME NEW i \in 1..Len(log')
               PROVE  ref'[i + 1] = Effect(ref'[i], log'[i].kv_cmd)
    BY <1>2, <1>3, <1>4 DEF RefFollowsLog
  <2>1. CASE i = Len(log) + 1
    BY <1>2, <1>3, <1>4, <2>1
  <2>2. CASE i # Len(log) + 1
    <3>1. /\ i \in 1..Len(log) /\ i \in 1..Len(ref) /\ i + 1 \in 1..Len(ref)
      BY <1>2, <1>3, <2>2
    <3>2. ref[i + 1] = Effect(ref[i], log[i].kv_cmd)
      BY <3>1 DEF ReplicaInv, RefFollowsLog
    <3> QED BY <1>3, <1>4, <3>1, <3>2
  <2> QED BY <2>1, <2>2
<1>10. ReplicaState'
  <2> SUFFICES ASSUME NEW m \in Servers PROVE database[m] = ref'[Applied(m) + 1]
    BY <1>1, <1>5 DEF ReplicaState
  <2>1. Applied(m) + 1 \in 1..Len(ref)
    BY <1>2, <1>5
  <2>2. database[m] = ref[Applied(m) + 1]
    BY DEF ReplicaInv, ReplicaState
  <2> QED BY <1>4, <2>1, <2>2
<1> QED BY <1>6, <1>7, <1>8, <1>9, <1>10 DEF ReplicaInv

(* The invariant is inductive.                                             *)
LEMMA ReplicaInvNext ==
  ASSUME ReplicaInv, [Next]_vars
  PROVE  ReplicaInv'
<1>1. TypeOK'
  BY NextType DEF ReplicaInv
<1> DEFINE Frame ==
      /\ UNCHANGED <<log, decided_idx, current_decided_idx, decided_commands, database, ref>>
      /\ \A m \in Servers : ~in_batch'[m] => ~in_batch[m] \/ decided_commands[m] = << >>
<1> USE DEF omniVars, loopVars, appVars, clusterVars, clientVars, inputVars, ghostVars
<1>2. ASSUME NEW n \in Servers,
             \/ LeaderInitialized(n)
             \/ \E produced \in SUBSET Peers(n) :
                  AttemptLeadership(n, produced) \/ ElectionTick(n, produced)
             \/ HandleClientMessages(n)
      PROVE  Frame
  BY <1>2 DEF LeaderInitialized, AttemptLeadership, ElectionTick, HandleClientMessages
<1>3. ASSUME NEW n \in Servers, NEW p \in Servers, HandleLeaderStartSignal(n, p)
      PROVE  Frame
  <2>1. in_batch' = [in_batch EXCEPT ![n] = TRUE]
    BY <1>3 DEF HandleLeaderStartSignal, NextMessage
  <2>2. \A m \in Servers : ~in_batch'[m] => ~in_batch[m]
    BY <2>1 DEF ReplicaInv, TypeOK
  <2> QED BY <1>3, <2>2 DEF HandleLeaderStartSignal
<1>4. ASSUME NEW n \in Servers, FinishBatch(n)
      PROVE  Frame
  <2>1. /\ in_batch' = [in_batch EXCEPT ![n] = FALSE]
        /\ decided_commands[n] = << >>
    BY <1>4 DEF FinishBatch
  <2>2. \A m \in Servers : ~in_batch'[m] => ~in_batch[m] \/ decided_commands[m] = << >>
    BY <2>1 DEF ReplicaInv, TypeOK
  <2> QED BY <1>4, <2>2 DEF FinishBatch
<1>5. ASSUME NEW n \in Servers, NEW c \in ClientIds,
             \/ \E id \in RequestIds[n], cmd \in Workload[n] : ClientRequest(n, c, id, cmd)
             \/ BreakClient(n, c)
             \/ ClientWriterEnds(n, c)
      PROVE  Frame
  BY <1>5 DEF ClientRequest, BreakClient, ClientWriterEnds
<1>6. ASSUME NEW n \in Servers, NEW p \in Servers,
             BreakPeer(n, p) \/ PeerWriterEnds(n, p) \/ NetworkReady(n) \/ ReadHandshake(n, p)
      PROVE  Frame
  BY <1>6 DEF BreakPeer, PeerWriterEnds, NetworkReady, ReadHandshake
<1>7. CASE UNCHANGED vars
  <2>1. Frame
    BY <1>7 DEF vars
  <2> QED BY <1>1, <2>1, ReplicaInvFrame
<1>8. ASSUME Frame PROVE ReplicaInv'
  BY <1>1, <1>8, ReplicaInvFrame
<1> HIDE DEF Frame
<1>9. ASSUME NEW n \in Servers, ServerStep(n) PROVE ReplicaInv'
  BY <1>1, <1>2, <1>3, <1>4, <1>8, <1>9, ReplicaInvIncoming, ReplicaInvExecute
     DEF ServerStep, Peers
<1>10. ASSUME Environment PROVE ReplicaInv'
  BY <1>1, <1>5, <1>6, <1>8, <1>10, ReplicaInvDecide DEF Environment, Peers, Higher
<1> QED BY <1>7, <1>9, <1>10 DEF Next

(* State machine safety, for every cluster: at any moment the database of  *)
(* a server is the result of executing exactly the log entries it has      *)
(* executed so far, in log order and each once, however messages,          *)
(* batches, decisions and connection failures interleave.                  *)
THEOREM StateMachineSafety == Spec => []ReplicaState
<1>1. ReplicaInv => ReplicaState
  BY DEF ReplicaInv
<1> QED BY <1>1, ReplicaInvInit, ReplicaInvNext, PTL DEF Spec

(* A server waiting in its select loop has executed everything its         *)
(* OmniPaxos instance has decided, although only the handler of protocol   *)
(* messages ever looks for decisions.                                      *)
THEOREM DecisionsExecuted == Spec => []NothingForgotten
<1>1. ReplicaInv => NothingForgotten
  <2> SUFFICES ASSUME ReplicaInv, NEW n \in Servers, Selecting(n)
               PROVE  Applied(n) = decided_idx[n]
    BY DEF NothingForgotten
  <2>1. decided_commands[n] = << >> /\ current_decided_idx[n] = decided_idx[n]
    BY DEF ReplicaInv, IdleHasNothingPending, PickedUp, Selecting
  <2>2. current_decided_idx[n] \in Nat
    BY DEF ReplicaInv, TypeOK
  <2> QED BY <2>1, <2>2 DEF Applied
<1> QED BY <1>1, ReplicaInvInit, ReplicaInvNext, PTL DEF Spec

-----------------------------------------------------------------------------
(* The experiment starts once: StartDiscipline.                            *)
(*                                                                         *)
(* A server sends its clients their start signals either when it has taken *)
(* over or when it handles a LeaderStartSignal, so the invariant has to    *)
(* follow those messages through the connections: only the initial leader  *)
(* sends them, once, at the moment it has taken over, and until a server   *)
(* has handled its own it has started nobody.                              *)

(* The positions of the start signals in a queue of cluster messages.      *)
Signals(queue) == {i \in 1..Len(queue) : queue[i] = "LeaderStartSignal"}

AtMostOne(queue) == \A i, j \in Signals(queue) : i = j

(* A start signal on its way finds a server that has started nobody.       *)
SignalsOnTheWay ==
  \A n, p \in Servers :
    /\ AtMostOne(link[n][p])
    /\ Signals(link[n][p]) # {} =>
         /\ n = InitialLeader /\ p # InitialLeader
         /\ phase[InitialLeader] = "main"
         /\ phase[p] # "main" /\ ~received_start[p]
         /\ \A c \in ClientIds : starts[p][c] = 0

(* A server that is started, or will be at the end of its batch, has       *)
(* started its connected clients.                                          *)
ClientsStarted ==
  \A n \in Servers : phase[n] = "main" \/ received_start[n] =>
    /\ phase[InitialLeader] = "main"
    /\ \A c \in ClientIds : client_conn[n][c] = "up" => starts[n][c] = 1

StartedOnce ==
  \A n \in Servers, c \in ClientIds :
    starts[n][c] = 0 \/ (starts[n][c] = 1 /\ phase[InitialLeader] = "main")

LeaderStays == phase[InitialLeader] = "main" => role = "accept"

StartInv == TypeOK /\ SignalsOnTheWay /\ ClientsStarted /\ StartedOnce /\ LeaderStays

-----------------------------------------------------------------------------
(* How the start signals of a queue move.                                  *)

(* Nothing but protocol messages came in.                                  *)
NoNewSignal(new, old) ==
  /\ Signals(new) # {} => Signals(old) # {}
  /\ AtMostOne(old) => AtMostOne(new)

LEMMA NoSignalAdded ==
  ASSUME NEW queue \in Seq(ClusterMessage)
  PROVE  /\ NoNewSignal(queue, queue)
         /\ NoNewSignal(Enqueue(queue, "OmniPaxosMessage"), queue)
         /\ queue # << >> => NoNewSignal(Tail(queue), queue)
         /\ \A k \in 0..Len(queue) :
              /\ NoNewSignal(SubSeq(queue, 1, k), queue)
              /\ NoNewSignal(SubSeq(queue, k + 1, Len(queue)), queue)
<1>1. NoNewSignal(queue, queue)
  BY DEF NoNewSignal
<1>2. NoNewSignal(Enqueue(queue, "OmniPaxosMessage"), queue)
  <2>1. Signals(Append(queue, "OmniPaxosMessage")) = Signals(queue)
    BY DEF Signals
  <2> QED BY <1>1, <2>1 DEF NoNewSignal, AtMostOne, Enqueue
<1>3. ASSUME queue # << >> PROVE NoNewSignal(Tail(queue), queue)
  <2>1. \A i \in Signals(Tail(queue)) : i \in Int /\ i + 1 \in Signals(queue)
    BY <1>3 DEF Signals
  <2> QED BY <2>1 DEF NoNewSignal, AtMostOne
<1>4. ASSUME NEW k \in 0..Len(queue) PROVE NoNewSignal(SubSeq(queue, 1, k), queue)
  <2>1. Signals(SubSeq(queue, 1, k)) \subseteq Signals(queue)
    BY DEF Signals
  <2> QED BY <2>1 DEF NoNewSignal, AtMostOne
<1>5. ASSUME NEW k \in 0..Len(queue)
      PROVE  NoNewSignal(SubSeq(queue, k + 1, Len(queue)), queue)
  <2>1. \A i \in Signals(SubSeq(queue, k + 1, Len(queue))) :
          i \in Int /\ i + k \in Signals(queue)
    BY DEF Signals
  <2> QED BY <2>1 DEF NoNewSignal, AtMostOne
<1> QED BY <1>1, <1>2, <1>3, <1>4, <1>5

(* A signal joins a queue without one; the signal at the head leaves.      *)
LEMMA SignalAdded ==
  ASSUME NEW queue \in Seq(ClusterMessage), Signals(queue) = {}
  PROVE  AtMostOne(Enqueue(queue, "LeaderStartSignal"))
<1>1. Signals(Append(queue, "LeaderStartSignal")) \subseteq {Len(queue) + 1}
  BY DEF Signals
<1> QED BY <1>1 DEF Enqueue, AtMostOne

LEMMA SignalHandled ==
  ASSUME NEW queue \in Seq(ClusterMessage), queue # << >>,
         Head(queue) = "LeaderStartSignal", AtMostOne(queue)
  PROVE  /\ Signals(queue) # {}
         /\ Signals(Tail(queue)) = {}
<1>1. 1 \in Signals(queue)
  BY DEF Signals
<1>2. \A i \in Signals(Tail(queue)) : i \in Nat \ {0} /\ i + 1 \in Signals(queue)
  BY DEF Signals
<1> QED BY <1>1, <1>2 DEF AtMostOne

(* Sending protocol messages.                                              *)
LEMMA SendOutgoingNoSignal ==
  ASSUME TypeOK, NEW n \in Servers, NEW produced, SendOutgoingMsgs(n, produced)
  PROVE  \A q, p \in Servers : NoNewSignal(link'[q][p], link[q][p])
<1> SUFFICES ASSUME NEW q \in Servers, NEW p \in Servers
             PROVE  NoNewSignal(link'[q][p], link[q][p])
  OBVIOUS
<1>1. link[q][p] \in Seq(ClusterMessage)
  BY DEF TypeOK
<1>2. link'[q][p] \in {link[q][p], Enqueue(link[q][p], "OmniPaxosMessage")}
  BY DEF SendOutgoingMsgs, SendToCluster, TypeOK
<1> QED BY <1>1, <1>2, NoSignalAdded

(* The first start signals to the clients of n.                            *)
LEMMA StartSignalsSent ==
  ASSUME TypeOK, NEW n \in Servers, SendClientStartSignals(n),
         \A c \in ClientIds : starts[n][c] = 0
  PROVE  /\ \A c \in ClientIds :
              /\ starts'[n][c] = IF client_conn[n][c] = "up" THEN 1 ELSE 0
              /\ client_conn'[n][c] = "up" => client_conn[n][c] = "up"
         /\ \A q \in Servers \ {n} : starts'[q] = starts[q] /\ client_conn'[q] = client_conn[q]
<1>1. starts'[n] = [c \in ClientIds |-> IF client_conn[n][c] = "up"
                                        THEN starts[n][c] + 1 ELSE starts[n][c]]
  BY DEF SendClientStartSignals, TypeOK
<1>2. client_conn'[n] = [c \in ClientIds |-> AfterSend(client_conn[n][c])]
  BY DEF SendClientStartSignals, TypeOK
<1>3. \A q \in Servers \ {n} : starts'[q] = starts[q] /\ client_conn'[q] = client_conn[q]
  BY DEF SendClientStartSignals, TypeOK
<1> QED BY <1>1, <1>2, <1>3 DEF AfterSend

-----------------------------------------------------------------------------
LEMMA StartInvInit ==
  ASSUME Init
  PROVE  StartInv
<1>1. TypeOK
  BY InitType
<1>2. SignalsOnTheWay
  BY DEF Init, SignalsOnTheWay, Signals, AtMostOne
<1>3. ClientsStarted /\ StartedOnce /\ LeaderStays
  BY ServersAssumption DEF Init, ClientsStarted, StartedOnce, LeaderStays
<1> QED BY <1>1, <1>2, <1>3 DEF StartInv

(* Steps that start nobody and send no start signal.                       *)
LEMMA StartInvFrame ==
  ASSUME StartInv, TypeOK', UNCHANGED <<received_start, starts>>,
         \A n \in Servers : phase'[n] = "main" <=> phase[n] = "main",
         \A n, p \in Servers : NoNewSignal(link'[n][p], link[n][p]),
         \A n \in Servers, c \in ClientIds :
           client_conn'[n][c] = "up" => client_conn[n][c] = "up",
         role = "accept" => role' = "accept"
  PROVE  StartInv'
<1>1. SignalsOnTheWay'
  BY ServersAssumption DEF StartInv, SignalsOnTheWay, NoNewSignal
<1>2. ClientsStarted' /\ StartedOnce' /\ LeaderStays'
  BY ServersAssumption DEF StartInv, ClientsStarted, StartedOnce, LeaderStays
<1> QED BY <1>1, <1>2 DEF StartInv

(* The takeover is complete.                                               *)
LEMMA StartInvLeader ==
  ASSUME StartInv, TypeOK', NEW n \in Servers, LeaderInitialized(n)
  PROVE  StartInv'
<1>1. /\ n = InitialLeader /\ phase[n] = "establish" /\ role' = role /\ role = "accept"
      /\ phase' = [phase EXCEPT ![n] = "main"]
      /\ received_start' = received_start
      /\ SendToCluster(n, Peers(n), "LeaderStartSignal")
      /\ SendClientStartSignals(n)
  BY DEF LeaderInitialized, omniVars
<1>2. /\ \A q, p \in Servers : Signals(link[q][p]) = {}
      /\ \A q \in Servers : phase[q] # "main" /\ ~received_start[q]
      /\ \A q \in Servers, c \in ClientIds : starts[q][c] = 0
  BY <1>1 DEF StartInv, SignalsOnTheWay, ClientsStarted, StartedOnce, TypeOK
<1>3. phase'[n] = "main" /\ \A q \in Servers \ {n} : phase'[q] # "main"
  BY <1>1, <1>2 DEF StartInv, TypeOK
<1>4. \A c \in ClientIds :
        /\ starts'[n][c] = IF client_conn[n][c] = "up" THEN 1 ELSE 0
        /\ client_conn'[n][c] = "up" => client_conn[n][c] = "up"
  BY <1>1, <1>2, StartSignalsSent DEF StartInv
<1>5. \A q \in Servers \ {n} : starts'[q] = starts[q]
  BY <1>1, <1>2, StartSignalsSent DEF StartInv
<1>6. SignalsOnTheWay'
  <2> SUFFICES ASSUME NEW q \in Servers, NEW p \in Servers
               PROVE  /\ AtMostOne(link'[q][p])
                      /\ Signals(link'[q][p]) # {} => q = n /\ p # n
    BY <1>1, <1>2, <1>3, <1>5 DEF SignalsOnTheWay
  <2>1. link[q][p] \in Seq(ClusterMessage) /\ AtMostOne(link[q][p])
    BY DEF StartInv, TypeOK, SignalsOnTheWay
  <2>2. CASE q = n /\ p # n
    <3>1. link'[q][p] \in {link[q][p], Enqueue(link[q][p], "LeaderStartSignal")}
      BY <1>1, <2>2 DEF SendToCluster, StartInv, TypeOK
    <3> QED BY <1>2, <2>1, <2>2, <3>1, SignalAdded
  <2>3. CASE ~(q = n /\ p # n)
    <3>1. link'[q][p] = link[q][p]
      BY <1>1, <2>3 DEF SendToCluster, Peers, StartInv, TypeOK
    <3> QED BY <1>2, <2>1, <3>1
  <2> QED BY <2>2, <2>3
<1>7. ClientsStarted' /\ StartedOnce' /\ LeaderStays'
  BY <1>1, <1>2, <1>3, <1>4, <1>5 DEF ClientsStarted, StartedOnce, LeaderStays
<1> QED BY <1>6, <1>7 DEF StartInv

(* A server handles the start signal of the leader.                        *)
LEMMA StartInvSignal ==
  ASSUME StartInv, TypeOK', NEW n \in Servers, NEW p \in Servers,
         HandleLeaderStartSignal(n, p)
  PROVE  StartInv'
<1>1. /\ UNCHANGED <<phase, role>>
      /\ received_start' = [received_start EXCEPT ![n] = TRUE]
      /\ link' = [link EXCEPT ![p][n] = Tail(link[p][n])]
      /\ link[p][n] # << >> /\ Head(link[p][n]) = "LeaderStartSignal"
      /\ SendClientStartSignals(n)
  BY DEF HandleLeaderStartSignal, NextMessage, omniVars
<1>2. /\ link[p][n] \in Seq(ClusterMessage)
      /\ AtMostOne(link[p][n])
      /\ Signals(link[p][n]) # {}
      /\ Signals(Tail(link[p][n])) = {}
  <2>1. link[p][n] \in Seq(ClusterMessage) /\ AtMostOne(link[p][n])
    BY DEF StartInv, TypeOK, SignalsOnTheWay
  <2> QED BY <1>1, <2>1, SignalHandled
<1>3. /\ p = InitialLeader /\ n # InitialLeader
      /\ phase[InitialLeader] = "main"
      /\ \A c \in ClientIds : starts[n][c] = 0
  BY <1>2 DEF StartInv, SignalsOnTheWay
<1>4. \A c \in ClientIds :
        /\ starts'[n][c] = IF client_conn[n][c] = "up" THEN 1 ELSE 0
        /\ client_conn'[n][c] = "up" => client_conn[n][c] = "up"
  BY <1>1, <1>3, StartSignalsSent DEF StartInv
<1>5. \A q \in Servers \ {n} : starts'[q] = starts[q] /\ client_conn'[q] = client_conn[q]
  BY <1>1, <1>3, StartSignalsSent DEF StartInv
<1>6. \A q \in Servers \ {n} : received_start'[q] <=> received_start[q]
  BY <1>1 DEF StartInv, TypeOK
<1>7. SignalsOnTheWay'
  <2>1. ASSUME NEW q \in Servers, NEW m \in Servers
        PROVE  /\ AtMostOne(link'[q][m])
               /\ Signals(link'[q][m]) # {} => m # n /\ Signals(link[q][m]) # {}
    <3>1. CASE q = p /\ m = n
      <4>1. link'[q][m] = Tail(link[p][n])
        BY <1>1, <3>1 DEF StartInv, TypeOK
      <4> QED BY <1>2, <4>1 DEF AtMostOne
    <3>2. CASE ~(q = p /\ m = n)
      <4>1. link'[q][m] = link[q][m]
        BY <1>1, <3>2 DEF StartInv, TypeOK
      <4>2. m = n => Signals(link[q][m]) = {}
        BY <1>3, <3>2 DEF StartInv, SignalsOnTheWay
      <4> QED BY <4>1, <4>2 DEF StartInv, SignalsOnTheWay
    <3> QED BY <3>1, <3>2
  <2>2. ASSUME NEW m \in Servers, NEW q \in Servers, Signals(link'[q][m]) # {}
        PROVE  /\ q = InitialLeader /\ m # InitialLeader
               /\ phase[InitialLeader] = "main"
               /\ phase[m] # "main" /\ ~received_start'[m]
               /\ \A c \in ClientIds : starts'[m][c] = 0
    <3>1. m # n /\ Signals(link[q][m]) # {}
      BY <2>1, <2>2
    <3> QED BY <1>5, <1>6, <3>1 DEF StartInv, SignalsOnTheWay
  <2>3. phase' = phase
    BY <1>1
  <2> QED BY <2>1, <2>2, <2>3 DEF SignalsOnTheWay
<1>8. ClientsStarted' /\ StartedOnce' /\ LeaderStays'
  BY <1>1, <1>3, <1>4, <1>5, <1>6 DEF ClientsStarted, StartedOnce, LeaderStays, StartInv
<1> QED BY <1>7, <1>8 DEF StartInv

(* The batch with the start signal ends.                                   *)
LEMMA StartInvBatch ==
  ASSUME StartInv, TypeOK', NEW n \in Servers, FinishBatch(n)
  PROVE  StartInv'
<1>1. /\ UNCHANGED <<role, client_conn, starts>>
      /\ phase' = [phase EXCEPT ![n] = IF received_start[n] THEN "main" ELSE @]
      /\ received_start' = [received_start EXCEPT ![n] = FALSE]
      /\ \A q, p \in Servers : NoNewSignal(link'[q][p], link[q][p])
  BY SendOutgoingNoSignal DEF FinishBatch, clientVars, StartInv
<1>2. /\ phase'[n] = IF received_start[n] THEN "main" ELSE phase[n]
      /\ ~received_start'[n]
      /\ \A q \in Servers \ {n} :
           phase'[q] = phase[q] /\ (received_start'[q] <=> received_start[q])
  BY <1>1 DEF StartInv, TypeOK
<1>3. phase'[InitialLeader] = phase[InitialLeader]
  BY <1>2, ServersAssumption DEF StartInv, ClientsStarted
<1>4. SignalsOnTheWay'
  <2>1. ASSUME NEW q \in Servers, NEW p \in Servers, Signals(link'[q][p]) # {}
        PROVE  /\ q = InitialLeader /\ p # InitialLeader
               /\ phase[InitialLeader] = "main"
               /\ phase'[p] # "main" /\ ~received_start'[p]
               /\ \A c \in ClientIds : starts[p][c] = 0
    <3>1. Signals(link[q][p]) # {}
      BY <1>1, <2>1 DEF NoNewSignal
    <3> QED BY <1>2, <3>1 DEF StartInv, SignalsOnTheWay
  <2>2. \A q, p \in Servers : AtMostOne(link'[q][p])
    BY <1>1 DEF StartInv, SignalsOnTheWay, NoNewSignal
  <2>3. starts' = starts
    BY <1>1
  <2> QED BY <1>3, <2>1, <2>2, <2>3 DEF SignalsOnTheWay
<1>5. ClientsStarted' /\ StartedOnce' /\ LeaderStays'
  BY <1>1, <1>2, <1>3 DEF StartInv, ClientsStarted, StartedOnce, LeaderStays
<1> QED BY <1>4, <1>5 DEF StartInv

(* The invariant is inductive.                                             *)
LEMMA StartInvNext ==
  ASSUME StartInv, [Next]_vars
  PROVE  StartInv'
<1>1. TypeOK'
  BY NextType DEF StartInv
<1> DEFINE Frame ==
      /\ UNCHANGED <<received_start, starts>>
      /\ \A n \in Servers : phase'[n] = "main" <=> phase[n] = "main"
      /\ \A n, p \in Servers : NoNewSignal(link'[n][p], link[n][p])
      /\ \A n \in Servers, c \in ClientIds :
           client_conn'[n][c] = "up" => client_conn[n][c] = "up"
      /\ role = "accept" => role' = "accept"
<1> USE DEF omniVars, loopVars, appVars, clusterVars, clientVars, inputVars, ghostVars
<1>2. ASSUME link' = link PROVE \A n, p \in Servers : NoNewSignal(link'[n][p], link[n][p])
  BY <1>2, NoSignalAdded DEF StartInv, TypeOK
<1>3. ASSUME NEW n \in Servers, NEW produced,
             AttemptLeadership(n, produced) \/ ElectionTick(n, produced)
      PROVE  Frame
  BY <1>3, SendOutgoingNoSignal DEF AttemptLeadership, ElectionTick, StartInv
<1>4. ASSUME NEW n \in Servers, HandleClientMessages(n) PROVE Frame
  BY <1>4, SendOutgoingNoSignal DEF HandleClientMessages, StartInv
<1>5. ASSUME NEW n \in Servers, NEW p \in Servers, NEW newIdx, NEW last \in BOOLEAN,
             HandleOmniPaxosMessage(n, p, newIdx, last)
      PROVE  Frame
  <2>1. \A q, m \in Servers : NoNewSignal(link'[q][m], link[q][m])
    <3> SUFFICES ASSUME NEW q \in Servers, NEW m \in Servers
                 PROVE  NoNewSignal(link'[q][m], link[q][m])
      OBVIOUS
    <3>1. link[q][m] \in Seq(ClusterMessage)
      BY DEF StartInv, TypeOK
    <3>2. \/ link'[q][m] = link[q][m]
          \/ link[q][m] # << >> /\ link'[q][m] = Tail(link[q][m])
      BY <1>5 DEF HandleOmniPaxosMessage, NextMessage, StartInv, TypeOK
    <3> QED BY <3>1, <3>2, NoSignalAdded
  <2> QED BY <1>5, <2>1 DEF HandleOmniPaxosMessage, OmniHandleIncoming
<1>6. ASSUME NEW n \in Servers, ExecuteCommand(n) PROVE Frame
  <2>1. \A m \in Servers, c \in ClientIds :
          client_conn'[m][c] = "up" => client_conn[m][c] = "up"
    <3> DEFINE command == Head(decided_commands[n])
    <3>1. CASE command.coordinator_id = n
      <4>1. client_conn' = [client_conn EXCEPT
                              ![n][command.client_id] = AfterSend(@)]
        BY <1>6, <3>1 DEF ExecuteCommand, SendToClient
      <4> QED BY <4>1 DEF AfterSend, StartInv, TypeOK
    <3>2. CASE command.coordinator_id # n
      BY <1>6, <3>2 DEF ExecuteCommand
    <3> QED BY <3>1, <3>2
  <2> QED BY <1>2, <1>6, <2>1 DEF ExecuteCommand
<1>7. ASSUME NEW n \in Servers, NEW c \in ClientIds,
             \/ \E id \in RequestIds[n], cmd \in Workload[n] : ClientRequest(n, c, id, cmd)
             \/ BreakClient(n, c)
             \/ ClientWriterEnds(n, c)
      PROVE  Frame
  <2>1. \A m \in Servers, d \in ClientIds :
          client_conn'[m][d] = "up" => client_conn[m][d] = "up"
    <3>1. \/ client_conn' = client_conn
          \/ client_conn' = [client_conn EXCEPT ![n][c] = "failing"]
          \/ client_conn' = [client_conn EXCEPT ![n][c] = "closed"]
      BY <1>7 DEF ClientRequest, BreakClient, ClientWriterEnds
    <3>2. client_conn \in [Servers -> [ClientIds -> ConnState]]
      BY DEF StartInv, TypeOK
    <3> SUFFICES ASSUME NEW m \in Servers, NEW d \in ClientIds, client_conn'[m][d] = "up"
                 PROVE  client_conn[m][d] = "up"
      OBVIOUS
    <3> QED BY <3>1, <3>2
  <2> QED BY <1>2, <1>7, <2>1 DEF ClientRequest, BreakClient, ClientWriterEnds
<1>8. ASSUME NEW cmd \in proposals, Decide(cmd) PROVE Frame
  BY <1>2, <1>8 DEF Decide, OmniDecide
<1>9. ASSUME NEW n \in Servers, NEW p \in Peers(n), BreakPeer(n, p) PROVE Frame
  <2>1. \A q, m \in Servers : NoNewSignal(link'[q][m], link[q][m])
    <3> SUFFICES ASSUME NEW q \in Servers, NEW m \in Servers
                 PROVE  NoNewSignal(link'[q][m], link[q][m])
      OBVIOUS
    <3>1. link[q][m] \in Seq(ClusterMessage)
      BY DEF StartInv, TypeOK
    <3>2. PICK i \in 0..Len(link[n][p]), j \in 0..Len(link[p][n]) :
            link' = [link EXCEPT ![n][p] = SubSeq(link[n][p], 1, i),
                                 ![p][n] = SubSeq(link[p][n], 1, j)]
      BY <1>9 DEF BreakPeer
    <3>3. \/ link'[q][m] = link[q][m]
          \/ \E k \in 0..Len(link[q][m]) : link'[q][m] = SubSeq(link[q][m], 1, k)
      BY <3>2 DEF Peers, StartInv, TypeOK
    <3> QED BY <3>1, <3>3, NoSignalAdded
  <2> QED BY <1>9, <2>1 DEF BreakPeer
<1>10. ASSUME NEW n \in Servers, NEW p \in Peers(n), PeerWriterEnds(n, p) PROVE Frame
  BY <1>2, <1>10 DEF PeerWriterEnds
<1>11. CASE UNCHANGED vars
  <2>1. Frame
    BY <1>2, <1>11 DEF vars
  <2> QED BY <1>1, <2>1, StartInvFrame
<1>12. ASSUME Frame PROVE StartInv'
  BY <1>1, <1>12, StartInvFrame
<1>13. ASSUME NEW n \in Servers, NetworkReady(n) PROVE Frame
  <2>1. \A m \in Servers : phase'[m] = "main" <=> phase[m] = "main"
    BY <1>13 DEF NetworkReady, StartInv, TypeOK
  <2> QED BY <1>2, <1>13, <2>1 DEF NetworkReady
<1>14. ASSUME NEW n \in Servers, NEW p \in Servers, ReadHandshake(n, p) PROVE Frame
  <2>1. \A q, m \in Servers : NoNewSignal(link'[q][m], link[q][m])
    <3> SUFFICES ASSUME NEW q \in Servers, NEW m \in Servers
                 PROVE  NoNewSignal(link'[q][m], link[q][m])
      OBVIOUS
    <3>1. link[q][m] \in Seq(ClusterMessage)
      BY DEF StartInv, TypeOK
    <3>2. PICK k \in 1..Len(link[p][n]) :
            link' = [link EXCEPT ![p][n] = SubSeq(link[p][n], k + 1, Len(link[p][n]))]
      BY <1>14 DEF ReadHandshake
    <3>3. CASE q = p /\ m = n
      <4>1. link'[q][m] = SubSeq(link[q][m], k + 1, Len(link[q][m]))
        BY <3>2, <3>3 DEF StartInv, TypeOK
      <4>2. k \in 0..Len(link[q][m])
        BY <3>3
      <4> QED BY <3>1, <4>1, <4>2, NoSignalAdded
    <3>4. CASE ~(q = p /\ m = n)
      <4>1. link'[q][m] = link[q][m]
        BY <3>2, <3>4 DEF StartInv, TypeOK
      <4> QED BY <3>1, <4>1, NoSignalAdded
    <3> QED BY <3>3, <3>4
  <2> QED BY <1>14, <2>1 DEF ReadHandshake
<1> HIDE DEF Frame
<1>15. ASSUME NEW n \in Servers, ServerStep(n) PROVE StartInv'
  BY <1>1, <1>3, <1>4, <1>5, <1>6, <1>12, <1>15, StartInvLeader, StartInvSignal, StartInvBatch
     DEF ServerStep, Peers
<1>16. ASSUME Environment PROVE StartInv'
  BY <1>7, <1>8, <1>9, <1>10, <1>12, <1>13, <1>14, <1>16 DEF Environment, Peers, Higher
<1> QED BY <1>11, <1>15, <1>16 DEF Next

(* A client is sent at most one start signal, never before the initial     *)
(* leader has taken over, and before its server enters the main loop       *)
(* unless its connection has failed, in every cluster and whatever         *)
(* connections break (establish_initial_leader,                            *)
(* send_client_start_signals).                                             *)
THEOREM StartsOnce == Spec => []StartDiscipline
<1>1. StartInv => StartDiscipline
  BY DEF StartInv, ClientsStarted, StartedOnce, LeaderStays, StartDiscipline
<1> QED BY <1>1, StartInvInit, StartInvNext, PTL DEF Spec
=============================================================================
