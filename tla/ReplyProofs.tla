---------------------------- MODULE ReplyProofs ----------------------------
(***************************************************************************)
(* What the clients of the cluster see, for every cluster, workload and    *)
(* number of connection failures: the replies follow the log               *)
(* (RepliesFollowLog), and the cluster implements the store of             *)
(* LinearizableKV (Linearizable).                                          *)
(*                                                                         *)
(* The first rests on ReplicaInv, the second also on the ids: a session    *)
(* never uses an id twice, so a reply names its command.                   *)
(***************************************************************************)
EXTENDS ServerProofs, SequenceTheorems

-----------------------------------------------------------------------------
(* Replies follow the log.                                                 *)

(* An increasing enumeration of a set of numbers, one longer.              *)
Longer(at, k, x) == [j \in 1..(k + 1) |-> IF j = k + 1 THEN x ELSE at[j]]

LEMMA EnumerationGrows ==
  ASSUME NEW S \in SUBSET Nat, NEW x \in Nat, \A i \in S : i < x,
         NEW k \in Nat, NEW at \in [1..k -> S], Enumerates(at, k, S)
  PROVE  /\ Longer(at, k, x) \in [1..(k + 1) -> S \cup {x}]
         /\ Enumerates(Longer(at, k, x), k + 1, S \cup {x})
<1> DEFINE longer == Longer(at, k, x)
<1>1. /\ \A j \in 1..k : j \in 1..(k + 1) /\ j # k + 1 /\ longer[j] = at[j]
      /\ longer[k + 1] = x
  BY DEF Longer
<1>2. longer \in [1..(k + 1) -> S \cup {x}]
  BY DEF Longer
<1> HIDE DEF longer
<1>3. \A i \in S \cup {x} : \E j \in 1..(k + 1) : longer[j] = i
  <2> SUFFICES ASSUME NEW i \in S \cup {x} PROVE \E j \in 1..(k + 1) : longer[j] = i
    OBVIOUS
  <2>1. CASE i \in S
    BY <1>1, <2>1 DEF Enumerates
  <2>2. CASE i = x
    <3>1. k + 1 \in 1..(k + 1)
      OBVIOUS
    <3> QED BY <1>1, <2>2, <3>1
  <2> QED BY <2>1, <2>2
<1>4. ASSUME NEW i \in 1..(k + 1), NEW j \in 1..(k + 1), i < j PROVE longer[i] < longer[j]
  <2>1. i \in 1..k /\ longer[i] = at[i] /\ at[i] \in S
    BY <1>1, <1>4
  <2>2. CASE j = k + 1
    BY <1>1, <2>1, <2>2
  <2>3. CASE j # k + 1
    <3>1. j \in 1..k
      BY <2>3
    <3> QED BY <1>1, <1>4, <2>1, <3>1 DEF Enumerates
  <2> QED BY <2>2, <2>3
<1>5. Enumerates(longer, k + 1, S \cup {x})
  BY <1>3, <1>4 DEF Enumerates
<1> QED BY <1>2, <1>5 DEF longer

(* What has been answered stays answered as the log grows.                 *)
LEMMA AnsweredStays ==
  ASSUME NEW n \in Servers, NEW c \in ClientIds, NEW m \in 0..Len(log), AnsweredUpTo(n, c, m),
         Len(log) \in Nat,
         \A i \in 1..Len(log) : log'[i] = log[i] /\ ref'[i] = ref[i],
         replies'[n][c] = replies[n][c]
  PROVE  AnsweredUpTo(n, c, m)'
<1>1. /\ Session(n, c, m)' = Session(n, c, m)
      /\ Session(n, c, m) \subseteq 1..Len(log)
  BY DEF Session
<1>2. PICK at \in [1..Len(replies[n][c]) -> Session(n, c, m)] :
        /\ Enumerates(at, Len(replies[n][c]), Session(n, c, m))
        /\ \A j \in 1..Len(replies[n][c]) :
             replies[n][c][j] = Answer(ref[at[j]], log[at[j]].id, log[at[j]].kv_cmd)
  BY DEF AnsweredUpTo
<1>3. \A j \in 1..Len(replies[n][c]) :
        replies[n][c][j] = Answer(ref'[at[j]], log'[at[j]].id, log'[at[j]].kv_cmd)
  BY <1>1, <1>2
<1>4. /\ at \in [1..Len(replies'[n][c]) -> Session(n, c, m)']
      /\ Enumerates(at, Len(replies'[n][c]), Session(n, c, m)')
      /\ \A j \in 1..Len(replies'[n][c]) :
           replies'[n][c][j] = Answer(ref'[at[j]], log'[at[j]].id, log'[at[j]].kv_cmd)
  BY <1>1, <1>2, <1>3
<1> QED BY <1>4, Zenon DEF AnsweredUpTo

(* The next entry of the log, of another session ...                       *)
LEMMA AnsweredSkips ==
  ASSUME NEW n \in Servers, NEW c \in ClientIds, NEW m \in Nat, AnsweredUpTo(n, c, m),
         NEW next, next = m + 1,
         ~(log[next].coordinator_id = n /\ log[next].client_id = c)
  PROVE  AnsweredUpTo(n, c, next)
<1>1. Session(n, c, next) = Session(n, c, m)
  BY DEF Session
<1> QED BY <1>1 DEF AnsweredUpTo

(* ... or of this one, and answered.                                       *)
LEMMA AnsweredGrows ==
  ASSUME NEW n \in Servers, NEW c \in ClientIds, NEW m \in Nat, AnsweredUpTo(n, c, m),
         NEW next, next = m + 1,
         log[next].coordinator_id = n /\ log[next].client_id = c,
         UNCHANGED <<log, ref>>,
         replies[n][c] \in Seq(Reply),
         NEW reply \in Reply, reply = Answer(ref[next], log[next].id, log[next].kv_cmd),
         replies'[n][c] = Append(replies[n][c], reply)
  PROVE  AnsweredUpTo(n, c, next)'
<1> DEFINE S   == Session(n, c, m)
           got == replies[n][c]
           new == replies'[n][c]
<1>1. /\ Session(n, c, next)' = S \cup {next}
      /\ S \in SUBSET Nat /\ next \in Nat /\ \A i \in S : i < next
  BY DEF Session
<1>2. PICK at \in [1..Len(got) -> S] :
        /\ Enumerates(at, Len(got), S)
        /\ \A j \in 1..Len(got) :
             got[j] = Answer(ref[at[j]], log[at[j]].id, log[at[j]].kv_cmd)
  BY DEF AnsweredUpTo
<1>3. /\ Len(got) \in Nat /\ Len(new) = Len(got) + 1
      /\ \A j \in 1..Len(got) : new[j] = got[j]
      /\ new[Len(got) + 1] = reply
  OBVIOUS
<1> HIDE DEF S, got, new
<1> DEFINE longer == Longer(at, Len(got), next)
<1>4. /\ longer \in [1..(Len(got) + 1) -> S \cup {next}]
      /\ Enumerates(longer, Len(got) + 1, S \cup {next})
  BY <1>1, <1>2, <1>3, EnumerationGrows
<1>5. /\ \A j \in 1..Len(got) : longer[j] = at[j]
      /\ longer[Len(got) + 1] = next
  BY <1>3 DEF Longer
<1> HIDE DEF longer
<1>6. ASSUME NEW j \in 1..(Len(got) + 1)
      PROVE  new[j] = Answer(ref[longer[j]], log[longer[j]].id, log[longer[j]].kv_cmd)
  <2>1. CASE j = Len(got) + 1
    BY <1>3, <1>5, <2>1
  <2>2. CASE j # Len(got) + 1
    <3>1. j \in 1..Len(got)
      BY <1>3, <2>2
    <3> QED BY <1>2, <1>3, <1>5, <3>1
  <2> QED BY <2>1, <2>2
<1>7. /\ longer \in [1..Len(new) -> Session(n, c, next)']
      /\ Enumerates(longer, Len(new), Session(n, c, next)')
      /\ \A j \in 1..Len(new) :
           new[j] = Answer(ref'[longer[j]], log'[longer[j]].id, log'[longer[j]].kv_cmd)
  BY <1>1, <1>3, <1>4, <1>6
<1> QED BY <1>7, ZenonT(40) DEF AnsweredUpTo, new

(* A server has executed part of the log.                                  *)
LEMMA AppliedInLog ==
  ASSUME ReplicaInv, NEW n \in Servers
  PROVE  Applied(n) \in Nat /\ Len(log) \in Nat /\ Applied(n) <= Len(log)
<1>1. /\ current_decided_idx[n] \in Nat /\ Len(log) \in Nat
      /\ Len(decided_commands[n]) \in Nat
  BY DEF ReplicaInv, TypeOK
<1>2. /\ Len(decided_commands[n]) <= current_decided_idx[n]
      /\ current_decided_idx[n] <= Len(log)
  BY DEF ReplicaInv, PickedUp, PendingSegment
<1> QED BY <1>1, <1>2 DEF Applied

(* Steps in which nothing is executed and no reply is sent.                *)
RepliesFrame ==
  /\ replies' = replies
  /\ \A n \in Servers : Applied(n)' = Applied(n)
  /\ \A i \in 1..Len(log) : log'[i] = log[i] /\ ref'[i] = ref[i]
  /\ \A n \in Servers, c \in ClientIds :
       client_conn'[n][c] = "up" => client_conn[n][c] = "up"

LEMMA RepliesKept ==
  ASSUME ReplicaInv, RepliesFollowLog, RepliesFrame
  PROVE  RepliesFollowLog'
<1> SUFFICES ASSUME NEW n \in Servers, NEW c \in ClientIds
             PROVE  \E m \in 0..Applied(n) :
                      /\ AnsweredUpTo(n, c, m)'
                      /\ client_conn'[n][c] = "up" => m = Applied(n)
  BY DEF RepliesFollowLog, RepliesFrame
<1>1. PICK m \in 0..Applied(n) : /\ AnsweredUpTo(n, c, m)
                                 /\ client_conn[n][c] = "up" => m = Applied(n)
  BY DEF RepliesFollowLog
<1>2. m \in 0..Len(log) /\ Len(log) \in Nat
  BY AppliedInLog
<1>3. AnsweredUpTo(n, c, m)'
  BY <1>1, <1>2, AnsweredStays DEF RepliesFrame
<1> QED BY <1>1, <1>3 DEF RepliesFrame

(* A command is executed: its session has one entry more to be answered,   *)
(* and is, unless the connection is broken; the other sessions have not.   *)
LEMMA RepliesExecute ==
  ASSUME ReplicaInv, RepliesFollowLog, NEW n \in Servers, ExecuteCommand(n)
  PROVE  RepliesFollowLog'
<1>0. PICK a \in Nat, next \in Nat : a = Applied(n) /\ next = a + 1
  BY ExecuteIsNextEntry
<1> DEFINE cmd   == log[next]
           reply == Answer(ref[next], cmd.id, cmd.kv_cmd)
<1>1. /\ next \in 1..Len(log)
      /\ cmd \in Command /\ cmd.client_id \in ClientIds
      /\ Applied(n)' = next
      /\ \A m \in Servers \ {n} : Applied(m)' = Applied(m)
  BY <1>0, ExecuteIsNextEntry DEF Command
<1>2. UNCHANGED <<log, ref>>
  BY DEF ExecuteCommand, omniVars, ghostVars
<1>3. IF cmd.coordinator_id = n
      THEN SendToClient(n, cmd.client_id, reply)
      ELSE UNCHANGED <<replies, client_conn>>
  BY <1>0, ExecuteIsNextEntry DEF ExecuteCommand
<1>4. /\ replies \in [Servers -> [ClientIds -> Seq(Reply)]]
      /\ client_conn \in [Servers -> [ClientIds -> ConnState]]
      /\ reply \in Reply
  <2>1. cmd.kv_cmd \in KVCommand /\ cmd.id \in Nat /\ database[n] \in Database
    BY <1>1 DEF Command, ReplicaInv, TypeOK
  <2>2. reply = ReplyTo(database[n], cmd.id, cmd.kv_cmd)
    BY <1>0, ExecuteIsNextEntry
  <2>3. reply \in Reply
    BY <2>1, <2>2, ReplyType
  <2> QED BY <2>3 DEF ReplicaInv, TypeOK
<1> HIDE DEF reply, cmd
<1> SUFFICES ASSUME NEW q \in Servers, NEW c \in ClientIds
             PROVE  \E m \in 0..Applied(q)' :
                      /\ AnsweredUpTo(q, c, m)'
                      /\ client_conn'[q][c] = "up" => m = Applied(q)'
  BY DEF RepliesFollowLog
<1>5. PICK m \in 0..Applied(q) : /\ AnsweredUpTo(q, c, m)
                                 /\ client_conn[q][c] = "up" => m = Applied(q)
  BY DEF RepliesFollowLog
<1>6. /\ m \in Nat /\ m \in 0..Len(log) /\ Len(log) \in Nat
      /\ m \in 0..Applied(q)'
  BY <1>0, <1>1, AppliedInLog
<1>7. ASSUME replies'[q][c] = replies[q][c] PROVE AnsweredUpTo(q, c, m)'
  BY <1>2, <1>5, <1>6, <1>7, AnsweredStays
<1>8. CASE q # n
  <2>1. replies'[q][c] = replies[q][c] /\ client_conn'[q][c] = client_conn[q][c]
    BY <1>3, <1>4, <1>8 DEF SendToClient
  <2> QED BY <1>1, <1>5, <1>6, <1>7, <1>8, <2>1
<1>9. CASE q = n /\ ~(cmd.coordinator_id = n /\ cmd.client_id = c)
  <2>1. replies'[q][c] = replies[q][c] /\ client_conn'[q][c] = client_conn[q][c]
    BY <1>3, <1>4, <1>9 DEF SendToClient
  <2>2. CASE client_conn[q][c] = "up"
    <3>1. m = a /\ AnsweredUpTo(q, c, a)
      BY <1>5, <1>9, <2>2, <1>0
    <3>2. AnsweredUpTo(q, c, next)
      BY <1>0, <1>9, <3>1, AnsweredSkips DEF cmd
    <3>3. AnsweredUpTo(q, c, next)'
      <4>1. next \in 0..Len(log)
        BY <1>1, <1>6
      <4> QED BY <1>2, <1>6, <2>1, <3>2, <4>1, AnsweredStays
    <3>4. next \in 0..Applied(q)' /\ next = Applied(q)'
      BY <1>1, <1>9
    <3> QED BY <3>3, <3>4
  <2>3. CASE client_conn[q][c] # "up"
    BY <1>6, <1>7, <2>1, <2>3
  <2> QED BY <2>2, <2>3
<1>10. CASE q = n /\ cmd.coordinator_id = n /\ cmd.client_id = c
  <2>1. SendToClient(n, c, reply)
    BY <1>3, <1>10
  <2>2. CASE client_conn[n][c] = "up"
    <3>1. m = a /\ AnsweredUpTo(n, c, a)
      BY <1>5, <1>10, <2>2, <1>0
    <3>2. replies'[n][c] = Append(replies[n][c], reply)
      BY <1>4, <2>1, <2>2 DEF SendToClient
    <3>3. replies[n][c] \in Seq(Reply)
      BY <1>4
    <3>4. AnsweredUpTo(n, c, next)'
      BY <1>0, <1>2, <1>4, <1>10, <3>1, <3>2, <3>3, AnsweredGrows DEF reply, cmd
    <3>5. next \in 0..Applied(q)' /\ next = Applied(q)'
      BY <1>1, <1>10
    <3> QED BY <1>10, <3>4, <3>5
  <2>3. CASE client_conn[n][c] # "up"
    <3>1. replies'[n][c] = replies[n][c] /\ client_conn'[n][c] # "up"
      BY <1>4, <2>1, <2>3 DEF SendToClient, AfterSend
    <3> QED BY <1>6, <1>7, <1>10, <3>1
  <2> QED BY <2>2, <2>3
<1> QED BY <1>8, <1>9, <1>10

(* A step with a protocol message executes nothing.                        *)
LEMMA IncomingKeepsApplied ==
  ASSUME ReplicaInv, NEW n \in Servers, NEW p \in Servers,
         NEW newIdx \in decided_idx[n]..Len(log), NEW last \in BOOLEAN,
         HandleOmniPaxosMessage(n, p, newIdx, last)
  PROVE  \A m \in Servers : Applied(m)' = Applied(m)
<1>1. /\ decided_commands \in [Servers -> Seq(Command)]
      /\ current_decided_idx \in [Servers -> Nat]
      /\ current_decided_idx[n] \in Nat
      /\ newIdx \in 0..Len(log)
      /\ TypeOK
  <2>1. TypeOK
    BY DEF ReplicaInv
  <2>2. Len(log) \in Nat /\ decided_idx[n] \in Nat
    BY <2>1 DEF TypeOK
  <2>3. newIdx \in 0..Len(log)
    BY <2>2
  <2> QED BY <2>1, <2>3 DEF TypeOK
<1>2. decided_commands[n] = << >>
  BY DEF HandleOmniPaxosMessage, NextMessage
<1>3. CASE current_decided_idx[n] < newIdx
  <2> DEFINE suffix == ReadDecidedSuffix(current_decided_idx[n], newIdx)
  <2>1. Len(suffix) = newIdx - current_decided_idx[n]
    <3>1. current_decided_idx[n] <= newIdx
      BY <1>1, <1>3
    <3> QED BY <1>1, <3>1, SuffixType
  <2>2. /\ decided_commands' = [decided_commands EXCEPT ![n] = suffix]
        /\ current_decided_idx' = [current_decided_idx EXCEPT ![n] = newIdx]
    BY <1>3 DEF HandleOmniPaxosMessage, HandleDecidedEntries
  <2> HIDE DEF suffix
  <2>3. Applied(n)' = newIdx - Len(suffix) /\ Applied(n) = current_decided_idx[n]
    BY <1>1, <1>2, <2>2 DEF Applied
  <2>4. \A m \in Servers \ {n} : Applied(m)' = Applied(m)
    BY <1>1, <2>2 DEF Applied
  <2> QED BY <1>1, <2>1, <2>3, <2>4
<1>4. CASE ~(current_decided_idx[n] < newIdx)
  BY <1>4 DEF HandleOmniPaxosMessage, HandleDecidedEntries, Applied
<1> QED BY <1>3, <1>4

(* Only ExecuteCommand concerns the replies.                               *)
LEMMA OtherStepsKeepReplies ==
  ASSUME ReplicaInv, [Next]_vars, \A n \in Servers : ~ExecuteCommand(n)
  PROVE  RepliesFrame
<1> DEFINE NothingExecuted == UNCHANGED <<replies, current_decided_idx, decided_commands>>
           ConnectionsKept == \A n \in Servers, c \in ClientIds :
                                client_conn'[n][c] = "up" => client_conn[n][c] = "up"
<1> USE DEF omniVars, loopVars, appVars, clusterVars, clientVars, inputVars, ghostVars
<1>1. client_conn \in [Servers -> [ClientIds -> ConnState]]
  BY DEF ReplicaInv, TypeOK
<1>2. ASSUME NothingExecuted, UNCHANGED <<log, ref>>, ConnectionsKept PROVE RepliesFrame
  BY <1>2 DEF RepliesFrame, Applied
<1>3. ASSUME NEW n \in Servers, SendClientStartSignals(n) PROVE ConnectionsKept
  BY <1>1, <1>3 DEF SendClientStartSignals, AfterSend
<1>4. ASSUME NEW n \in Servers,
             LeaderInitialized(n) \/ \E p \in Servers : HandleLeaderStartSignal(n, p)
      PROVE  RepliesFrame
  BY <1>2, <1>3, <1>4 DEF LeaderInitialized, HandleLeaderStartSignal
<1>5. ASSUME NEW n \in Servers,
             \/ \E produced \in SUBSET Peers(n) :
                  AttemptLeadership(n, produced) \/ ElectionTick(n, produced)
             \/ HandleClientMessages(n)
             \/ FinishBatch(n)
      PROVE  RepliesFrame
  BY <1>2, <1>5 DEF AttemptLeadership, ElectionTick, HandleClientMessages, FinishBatch
<1>6. ASSUME NEW n \in Servers, NEW p \in Servers, NEW newIdx \in decided_idx[n]..Len(log),
             NEW last \in BOOLEAN, HandleOmniPaxosMessage(n, p, newIdx, last)
      PROVE  RepliesFrame
  BY <1>6, IncomingKeepsApplied DEF HandleOmniPaxosMessage, OmniHandleIncoming, RepliesFrame
<1>7. ASSUME NEW n \in Servers, NEW c \in ClientIds,
             \/ \E id \in RequestIds[n], cmd \in Workload[n] : ClientRequest(n, c, id, cmd)
             \/ BreakClient(n, c)
             \/ ClientWriterEnds(n, c)
      PROVE  RepliesFrame
  <2>1. \/ client_conn' = client_conn
        \/ client_conn' = [client_conn EXCEPT ![n][c] = "failing"]
        \/ client_conn' = [client_conn EXCEPT ![n][c] = "closed"]
    BY <1>7 DEF ClientRequest, BreakClient, ClientWriterEnds
  <2>2. ConnectionsKept
    <3> SUFFICES ASSUME NEW m \in Servers, NEW d \in ClientIds, client_conn'[m][d] = "up"
                 PROVE  client_conn[m][d] = "up"
      OBVIOUS
    <3> QED BY <1>1, <2>1
  <2> QED BY <1>2, <1>7, <2>2 DEF ClientRequest, BreakClient, ClientWriterEnds
<1>8. ASSUME NEW cmd \in proposals, Decide(cmd) PROVE RepliesFrame
  <2>1. \A i \in 1..Len(log) : log'[i] = log[i] /\ ref'[i] = ref[i]
    <3>1. /\ log \in Seq(Command) /\ cmd \in Command
          /\ ref \in Seq(Database) /\ Len(ref) = Len(log) + 1
      BY DEF ReplicaInv, TypeOK, RefFollowsLog
    <3>2. Effect(ref[Len(ref)], cmd.kv_cmd) \in Database
      <4>1. ref[Len(ref)] \in Database /\ cmd.kv_cmd \in KVCommand
        BY <3>1 DEF Command
      <4> QED BY <4>1, HandleCommandEffect
    <3> QED BY <1>8, <3>1, <3>2 DEF Decide, OmniDecide
  <2> QED BY <1>8, <2>1 DEF Decide, OmniDecide, RepliesFrame, Applied
<1>9. ASSUME NEW n \in Servers, NEW p \in Servers,
             BreakPeer(n, p) \/ PeerWriterEnds(n, p) \/ NetworkReady(n) \/ ReadHandshake(n, p)
      PROVE  RepliesFrame
  BY <1>2, <1>9 DEF BreakPeer, PeerWriterEnds, NetworkReady, ReadHandshake
<1>10. CASE UNCHANGED vars
  BY <1>2, <1>10 DEF vars
<1> QED BY <1>4, <1>5, <1>6, <1>7, <1>8, <1>9, <1>10
        DEF Next, ServerStep, Environment, Peers, Higher

LEMMA RepliesInit ==
  ASSUME Init
  PROVE  RepliesFollowLog
<1> SUFFICES ASSUME NEW n \in Servers, NEW c \in ClientIds
             PROVE  /\ 0 \in 0..Applied(n) /\ AnsweredUpTo(n, c, 0)
                    /\ 0 = Applied(n)
  BY DEF RepliesFollowLog
<1>1. Applied(n) = 0
  BY DEF Init, Applied
<1>2. replies[n][c] = << >> /\ Session(n, c, 0) = {}
  BY DEF Init, Session
<1>3. << >> \in [1..0 -> {}] /\ Enumerates(<< >>, 0, {})
  BY DEF Enumerates
<1>4. AnsweredUpTo(n, c, 0)
  BY <1>2, <1>3 DEF AnsweredUpTo
<1> QED BY <1>1, <1>4

LEMMA RepliesNext ==
  ASSUME ReplicaInv, RepliesFollowLog, [Next]_vars
  PROVE  RepliesFollowLog'
  BY RepliesExecute, OtherStepsKeepReplies, RepliesKept

(* Replies follow the log, in every cluster and whatever connections       *)
(* break: a client gets one reply per command of its session, in log       *)
(* order, computed from the state the log gives the command, with no gap   *)
(* and none of another session (update_database_and_respond,               *)
(* send_to_client).                                                        *)
THEOREM RepliesInLogOrder == Spec => []RepliesFollowLog
  BY ReplicaInvInit, ReplicaInvNext, RepliesInit, RepliesNext, PTL DEF Spec

-----------------------------------------------------------------------------
(* A session never uses an id twice.                                       *)

SameId(x, y) ==
  /\ x.coordinator_id = y.coordinator_id
  /\ x.client_id = y.client_id
  /\ x.id = y.id

ProposedIds ==
  /\ \A x \in proposals : x.id \in requests[x.coordinator_id][x.client_id]
  /\ \A x, y \in proposals : SameId(x, y) => x = y

(* The i-th message waiting at n, as it will be stamped.                   *)
Queued(n, i) == Stamp(n, client_messages[n][i])

QueuedIds ==
  \A n \in Servers : \A i \in 1..Len(client_messages[n]) :
    /\ Queued(n, i).id \in requests[n][Queued(n, i).client_id]
    /\ \A x \in proposals : ~SameId(x, Queued(n, i))
    /\ \A j \in 1..Len(client_messages[n]) : SameId(Queued(n, i), Queued(n, j)) => i = j

(* The log holds proposals, each once.                                     *)
LogOfProposals ==
  /\ \A i \in 1..Len(log) : log[i] \in proposals
  /\ \A i, j \in 1..Len(log) : log[i] = log[j] => i = j

IdInv == ProposedIds /\ QueuedIds /\ LogOfProposals

LEMMA IdInvInit ==
  ASSUME Init
  PROVE  IdInv
  BY DEF Init, OmniInit, IdInv, ProposedIds, QueuedIds, LogOfProposals

(* Stamped messages are commands of the server that stamps them.           *)
LEMMA QueuedType ==
  ASSUME TypeOK, NEW n \in Servers, NEW i \in 1..Len(client_messages[n])
  PROVE  /\ Queued(n, i) \in Command
         /\ Queued(n, i).coordinator_id = n
<1>1. client_messages[n][i] \in ClientMessage
  BY DEF TypeOK
<1> QED BY <1>1 DEF Queued, Stamp, Command, ClientMessage

(* A client takes a fresh id.                                              *)
LEMMA IdInvRequest ==
  ASSUME TypeOK, IdInv, NEW n \in Servers, NEW c \in ClientIds, NEW id \in Nat,
         NEW cmd \in KVCommand, ClientRequest(n, c, id, cmd)
  PROVE  IdInv'
<1> DEFINE queue == client_messages[n]
           msg   == [from |-> c, id |-> id, kv_cmd |-> cmd]
<1>1. /\ UNCHANGED <<log, proposals>>
      /\ client_messages' = [client_messages EXCEPT ![n] = Append(queue, msg)]
      /\ requests' = [requests EXCEPT ![n][c] = @ \cup {id}]
      /\ id \notin requests[n][c]
  BY DEF ClientRequest, omniVars
<1>2. /\ client_messages \in [Servers -> Seq(ClientMessage)]
      /\ requests \in [Servers -> [ClientIds -> SUBSET Nat]]
      /\ proposals \subseteq Command
      /\ msg \in ClientMessage
  BY DEF TypeOK, ClientMessage
<1>3. /\ id \in requests'[n][c]
      /\ \A m \in Servers, d \in ClientIds : requests[m][d] \subseteq requests'[m][d]
  BY <1>1, <1>2
<1>4. /\ \A m \in Servers \ {n} : client_messages'[m] = client_messages[m]
      /\ client_messages'[n] = Append(queue, msg)
      /\ Len(client_messages'[n]) = Len(queue) + 1 /\ Len(queue) \in Nat
      /\ \A i \in 1..Len(queue) : client_messages'[n][i] = queue[i]
      /\ client_messages'[n][Len(queue) + 1] = msg
  BY <1>1, <1>2
<1>5. ProposedIds'
  <2> SUFFICES ASSUME NEW x \in proposals
               PROVE  x.id \in requests'[x.coordinator_id][x.client_id]
    BY <1>1 DEF IdInv, ProposedIds
  <2>1. x.coordinator_id \in Servers /\ x.client_id \in ClientIds
    BY <1>2 DEF Command
  <2>2. x.id \in requests[x.coordinator_id][x.client_id]
    BY DEF IdInv, ProposedIds
  <2> QED BY <1>3, <2>1, <2>2
<1> HIDE DEF queue, msg
<1>6. QueuedIds'
  <2>0. PICK k \in Nat, new \in Nat : k = Len(queue) /\ new = k + 1
    BY <1>4
  <2>1. /\ \A i \in 1..k : Queued(n, i)' = Queued(n, i)
        /\ Queued(n, new)' = Stamp(n, msg)
        /\ \A m \in Servers \ {n} : \A i \in 1..Len(client_messages[m]) :
             Queued(m, i)' = Queued(m, i)
    BY <1>4, <2>0 DEF Queued, queue
  <2>2. /\ Queued(n, new)'.id = id /\ Queued(n, new)'.client_id = c
        /\ Queued(n, new)'.coordinator_id = n
    BY <2>1 DEF Stamp, msg
  <2>3. ASSUME NEW m \in Servers, NEW i \in 1..Len(client_messages[m])
        PROVE  /\ Queued(m, i).id \in requests[m][Queued(m, i).client_id]
               /\ Queued(m, i).id \in requests'[m][Queued(m, i).client_id]
    <3>1. Queued(m, i).client_id \in ClientIds
      BY QueuedType DEF Command
    <3>2. Queued(m, i).id \in requests[m][Queued(m, i).client_id]
      BY DEF IdInv, QueuedIds
    <3> QED BY <1>3, <3>1, <3>2
  <2>4. ASSUME NEW i \in 1..k PROVE ~SameId(Queued(n, i), Queued(n, new)')
    BY <1>1, <2>0, <2>2, <2>3 DEF SameId, queue
  <2>5. ASSUME NEW x \in proposals PROVE ~SameId(x, Queued(n, new)')
    <3>1. x.id \in requests[x.coordinator_id][x.client_id]
      BY DEF IdInv, ProposedIds
    <3> QED BY <1>1, <2>2, <3>1 DEF SameId
  <2>6. ASSUME NEW m \in Servers, m # n, NEW i \in 1..Len(client_messages'[m])
        PROVE  /\ Queued(m, i)'.id \in requests'[m][Queued(m, i)'.client_id]
               /\ \A x \in proposals : ~SameId(x, Queued(m, i)')
               /\ \A j \in 1..Len(client_messages'[m]) :
                    SameId(Queued(m, i)', Queued(m, j)') => i = j
    BY <1>4, <2>1, <2>3, <2>6 DEF IdInv, QueuedIds
  <2>7. ASSUME NEW i \in 1..Len(client_messages'[n])
        PROVE  /\ Queued(n, i)'.id \in requests'[n][Queued(n, i)'.client_id]
               /\ \A x \in proposals : ~SameId(x, Queued(n, i)')
               /\ \A j \in 1..Len(client_messages'[n]) :
                    SameId(Queued(n, i)', Queued(n, j)') => i = j
    <3>1. /\ i \in 1..k \/ i = new
          /\ \A j \in 1..Len(client_messages'[n]) : j \in 1..k \/ j = new
      BY <1>4, <2>0
    <3>2. CASE i \in 1..k
      <4>1. i \in 1..Len(client_messages[n])
        BY <2>0, <3>2 DEF queue
      <4>2. /\ Queued(n, i)'.id \in requests'[n][Queued(n, i)'.client_id]
            /\ \A x \in proposals : ~SameId(x, Queued(n, i)')
        BY <2>1, <2>3, <3>2, <4>1 DEF IdInv, QueuedIds
      <4>3. ASSUME NEW j \in 1..k, SameId(Queued(n, i)', Queued(n, j)') PROVE i = j
        <5>1. j \in 1..Len(client_messages[n]) /\ SameId(Queued(n, i), Queued(n, j))
          BY <2>0, <2>1, <3>2, <4>3 DEF queue
        <5> QED BY <4>1, <5>1 DEF IdInv, QueuedIds
      <4> QED BY <2>1, <2>4, <3>1, <3>2, <4>2, <4>3
    <3>3. CASE i = new
      <4>1. Queued(n, i)'.id \in requests'[n][Queued(n, i)'.client_id]
        BY <1>3, <2>2, <3>3
      <4>2. ASSUME NEW j \in 1..k PROVE ~SameId(Queued(n, i)', Queued(n, j)')
        BY <2>1, <2>4, <3>3 DEF SameId
      <4> QED BY <2>5, <3>1, <3>3, <4>1, <4>2
    <3> QED BY <3>1, <3>2, <3>3
  <2> QED BY <1>1, <2>6, <2>7 DEF QueuedIds
<1>7. LogOfProposals'
  BY <1>1 DEF IdInv, LogOfProposals
<1> QED BY <1>5, <1>6, <1>7 DEF IdInv

(* A batch of messages is proposed.                                        *)
LEMMA IdInvPropose ==
  ASSUME TypeOK, IdInv, NEW n \in Servers, HandleClientMessages(n)
  PROVE  IdInv'
<1> DEFINE queue == client_messages[n]
<1>1. PICK k : /\ k = Taken(queue)
               /\ proposals' = proposals \cup {Queued(n, i) : i \in 1..k}
               /\ client_messages' = [client_messages EXCEPT
                                        ![n] = SubSeq(queue, k + 1, Len(queue))]
  BY DEF HandleClientMessages, Queued
<1>2. /\ UNCHANGED <<log, requests>>
      /\ client_messages \in [Servers -> Seq(ClientMessage)]
      /\ queue \in Seq(ClientMessage) /\ Len(queue) \in Nat /\ k \in 0..Len(queue)
  <2>1. client_messages \in [Servers -> Seq(ClientMessage)]
    BY DEF TypeOK
  <2>2. UNCHANGED <<log, requests>>
    BY DEF HandleClientMessages
  <2>3. Taken(queue) \in 0..Len(queue)
    BY <2>1, ServerAssumption DEF Taken
  <2> QED BY <1>1, <2>1, <2>2, <2>3
<1>3. /\ \A m \in Servers \ {n} : client_messages'[m] = client_messages[m]
      /\ client_messages'[n] = SubSeq(queue, k + 1, Len(queue))
      /\ Len(client_messages'[n]) = Len(queue) - k
      /\ \A i \in 1..(Len(queue) - k) : client_messages'[n][i] = queue[k + i]
  <2>1. client_messages'[n] = SubSeq(queue, k + 1, Len(queue))
    BY <1>1, <1>2
  <2>2. \A m \in Servers \ {n} : client_messages'[m] = client_messages[m]
    BY <1>1, <1>2
  <2> HIDE DEF queue
  <2>3. /\ Len(SubSeq(queue, k + 1, Len(queue))) = Len(queue) - k
        /\ \A i \in 1..(Len(queue) - k) : SubSeq(queue, k + 1, Len(queue))[i] = queue[k + i]
    BY <1>2
  <2> QED BY <2>1, <2>2, <2>3
<1>4. /\ \A m \in Servers \ {n} : \A i : Queued(m, i)' = Queued(m, i)
      /\ \A i \in 1..(Len(queue) - k) :
           k + i \in 1..Len(queue) /\ Queued(n, i)' = Queued(n, k + i)
  BY <1>2, <1>3 DEF Queued
<1>5. ASSUME NEW i \in 1..k
      PROVE  /\ i \in 1..Len(queue) /\ Queued(n, i).coordinator_id = n
             /\ Queued(n, i).id \in requests[n][Queued(n, i).client_id]
             /\ \A x \in proposals : ~SameId(x, Queued(n, i))
             /\ \A j \in 1..Len(queue) : SameId(Queued(n, i), Queued(n, j)) => i = j
  <2>1. i \in 1..Len(queue)
    BY <1>2
  <2> QED BY <2>1, QueuedType DEF IdInv, QueuedIds
<1>6. ProposedIds'
  <2>1. ASSUME NEW x \in proposals' PROVE x.id \in requests'[x.coordinator_id][x.client_id]
    <3>1. CASE x \in proposals
      BY <1>2, <3>1 DEF IdInv, ProposedIds
    <3>2. CASE x \notin proposals
      BY <1>1, <1>2, <1>5, <3>2
    <3> QED BY <3>1, <3>2
  <2>2. ASSUME NEW x \in proposals', NEW y \in proposals', SameId(x, y) PROVE x = y
    <3>0. SameId(y, x)
      BY <2>2 DEF SameId
    <3>1. CASE x \in proposals /\ y \in proposals
      BY <2>2, <3>1 DEF IdInv, ProposedIds
    <3>2. CASE x \in proposals /\ y \notin proposals
      BY <1>1, <1>5, <2>2, <3>2
    <3>3. CASE x \notin proposals /\ y \in proposals
      BY <1>1, <1>5, <3>0, <3>3
    <3>4. CASE x \notin proposals /\ y \notin proposals
      <4>1. PICK i \in 1..k : x = Queued(n, i)
        BY <1>1, <3>4
      <4>2. PICK j \in 1..k : y = Queued(n, j)
        BY <1>1, <3>4
      <4>3. i = j
        BY <1>5, <2>2, <4>1, <4>2
      <4> QED BY <4>1, <4>2, <4>3
    <3> QED BY <3>1, <3>2, <3>3, <3>4
  <2> QED BY <2>1, <2>2 DEF ProposedIds
<1>7. QueuedIds'
  <2>1. ASSUME NEW m \in Servers, m # n, NEW i \in 1..Len(client_messages'[m])
        PROVE  /\ Queued(m, i)'.id \in requests[m][Queued(m, i)'.client_id]
               /\ \A x \in proposals' : ~SameId(x, Queued(m, i)')
               /\ \A j \in 1..Len(client_messages'[m]) :
                    SameId(Queued(m, i)', Queued(m, j)') => i = j
    <3>1. /\ Queued(m, i)' = Queued(m, i) /\ i \in 1..Len(client_messages[m])
          /\ Queued(m, i).coordinator_id = m
          /\ \A j \in 1..Len(client_messages'[m]) : Queued(m, j)' = Queued(m, j)
      BY <1>3, <1>4, <2>1, QueuedType
    <3>2. \A x \in proposals' : ~SameId(x, Queued(m, i))
      BY <1>1, <1>5, <2>1, <3>1 DEF IdInv, QueuedIds, SameId
    <3> QED BY <1>3, <2>1, <3>1, <3>2 DEF IdInv, QueuedIds
  <2>2. ASSUME NEW i \in 1..Len(client_messages'[n])
        PROVE  /\ Queued(n, i)'.id \in requests[n][Queued(n, i)'.client_id]
               /\ \A x \in proposals' : ~SameId(x, Queued(n, i)')
               /\ \A j \in 1..Len(client_messages'[n]) :
                    SameId(Queued(n, i)', Queued(n, j)') => i = j
    <3>1. PICK l \in 1..Len(queue) : l = k + i /\ Queued(n, i)' = Queued(n, l)
      BY <1>3, <1>4
    <3>2. \A x \in proposals' : ~SameId(x, Queued(n, l))
      <4>1. \A x \in proposals : ~SameId(x, Queued(n, l))
        BY DEF IdInv, QueuedIds
      <4>2. ASSUME NEW j \in 1..k PROVE ~SameId(Queued(n, j), Queued(n, l))
        <5>1. j # l
          BY <1>2, <1>3, <3>1
        <5> QED BY <1>5, <5>1
      <4> QED BY <1>1, <4>1, <4>2
    <3>3. ASSUME NEW j \in 1..Len(client_messages'[n]), SameId(Queued(n, i)', Queued(n, j)')
          PROVE  i = j
      <4>1. PICK r \in 1..Len(queue) : r = k + j /\ Queued(n, j)' = Queued(n, r)
        BY <1>3, <1>4
      <4>2. l = r
        BY <3>1, <3>3, <4>1 DEF IdInv, QueuedIds
      <4> QED BY <1>2, <1>3, <3>1, <4>1, <4>2
    <3>4. Queued(n, l).id \in requests[n][Queued(n, l).client_id]
      BY DEF IdInv, QueuedIds
    <3> QED BY <3>1, <3>2, <3>3, <3>4
  <2> QED BY <1>2, <2>1, <2>2 DEF QueuedIds
<1>8. LogOfProposals'
  BY <1>1, <1>2 DEF IdInv, LogOfProposals
<1> QED BY <1>6, <1>7, <1>8 DEF IdInv

(* A proposal not in the log is decided.                                   *)
LEMMA IdInvDecide ==
  ASSUME TypeOK, IdInv, NEW cmd \in proposals, Decide(cmd)
  PROVE  IdInv'
<1>1. /\ log' = Append(log, cmd) /\ ~Decided(cmd)
      /\ UNCHANGED <<proposals, requests, client_messages>>
  BY DEF Decide, OmniDecide, inputVars
<1>2. /\ log \in Seq(Command) /\ cmd \in Command
  BY DEF TypeOK
<1>3. /\ Len(log') = Len(log) + 1 /\ Len(log) \in Nat
      /\ \A i \in 1..Len(log) : log'[i] = log[i]
      /\ log'[Len(log) + 1] = cmd
  BY <1>1, <1>2
<1>4. \A i \in 1..Len(log) : log[i] # cmd
  BY <1>1 DEF Decided
<1>5. LogOfProposals'
  <2>1. ASSUME NEW i \in 1..Len(log') PROVE i \in 1..Len(log) \/ i = Len(log) + 1
    BY <1>3
  <2>2. \A i \in 1..Len(log') : log'[i] \in proposals'
    BY <1>1, <1>3, <2>1 DEF IdInv, LogOfProposals
  <2>3. \A i, j \in 1..Len(log') : log'[i] = log'[j] => i = j
    BY <1>3, <1>4, <2>1 DEF IdInv, LogOfProposals
  <2> QED BY <2>2, <2>3 DEF LogOfProposals
<1>6. ProposedIds' /\ QueuedIds'
  BY <1>1 DEF IdInv, ProposedIds, QueuedIds, Queued
<1> QED BY <1>5, <1>6 DEF IdInv

LEMMA IdInvNext ==
  ASSUME TypeOK, IdInv, [Next]_vars
  PROVE  IdInv'
<1> DEFINE Frame == UNCHANGED <<log, proposals, requests, client_messages>>
<1> USE DEF omniVars, loopVars, appVars, clusterVars, clientVars, inputVars, ghostVars
<1>1. ASSUME Frame PROVE IdInv'
  BY <1>1 DEF IdInv, ProposedIds, QueuedIds, Queued, LogOfProposals
<1>2. ASSUME NEW n \in Servers, ServerStep(n) PROVE Frame \/ HandleClientMessages(n)
  BY <1>2 DEF ServerStep, LeaderInitialized, AttemptLeadership, ElectionTick,
     HandleOmniPaxosMessage, OmniHandleIncoming, HandleLeaderStartSignal, ExecuteCommand,
     FinishBatch
<1>3. ASSUME Environment
      PROVE  \/ Frame
             \/ \E cmd \in proposals : Decide(cmd)
             \/ \E n \in Servers, c \in ClientIds, id \in Nat, cmd \in KVCommand :
                  ClientRequest(n, c, id, cmd)
  <2>1. ASSUME NEW n \in Servers, NEW c \in ClientIds,
               BreakClient(n, c) \/ ClientWriterEnds(n, c)
        PROVE  Frame
    BY <2>1 DEF BreakClient, ClientWriterEnds
  <2>2. ASSUME NEW n \in Servers, NEW p \in Servers,
               BreakPeer(n, p) \/ PeerWriterEnds(n, p) \/ NetworkReady(n) \/ ReadHandshake(n, p)
        PROVE  Frame
    BY <2>2 DEF BreakPeer, PeerWriterEnds, NetworkReady, ReadHandshake
  <2>3. \A n \in Servers : RequestIds[n] \subseteq Nat /\ Workload[n] \subseteq KVCommand
    BY ServerAssumption
  <2> HIDE DEF Frame
  <2> QED BY <1>3, <2>1, <2>2, <2>3 DEF Environment, Peers, Higher
<1>4. CASE UNCHANGED vars
  BY <1>1, <1>4 DEF vars
<1> HIDE DEF Frame
<1> QED BY <1>1, <1>2, <1>3, <1>4, IdInvPropose, IdInvDecide, IdInvRequest DEF Next

-----------------------------------------------------------------------------
(* The cluster implements LinearizableKV: deciding a command is the moment *)
(* it takes effect, and executing it at its coordinator, with the          *)
(* connection up, the moment of its reply.                                 *)

(* A function that continues a sequence by one element is that sequence    *)
(* with the element appended.                                              *)
LEMMA AppendAsFunction ==
  ASSUME NEW S, NEW s \in Seq(S), NEW e \in S, NEW next \in Nat, next = Len(s) + 1,
         NEW f, f = [i \in 1..next |-> f[i]],
         \A i \in 1..Len(s) : f[i] = s[i], f[next] = e
  PROVE  f = Append(s, e)
<1>1. Len(s) \in Nat /\ \A i \in 1..Len(s) : s[i] \in S
  OBVIOUS
<1>2. ASSUME NEW i \in 1..next PROVE i \in 1..Len(s) \/ i = next
  BY <1>1
<1>3. \A i \in 1..next : f[i] \in S
  BY <1>1, <1>2
<1>4. f \in [1..next -> S]
  BY <1>3
<1>5. f \in Seq(S) /\ Len(f) = next
  BY <1>4
<1>6. /\ Append(s, e) \in Seq(S) /\ Len(Append(s, e)) = next
      /\ \A i \in 1..Len(s) : Append(s, e)[i] = s[i]
      /\ Append(s, e)[next] = e
  BY <1>1
<1>7. \A i \in 1..next : f[i] = Append(s, e)[i]
  BY <1>2, <1>6
<1> QED BY <1>5, <1>6, <1>7, SeqEqual

(* The history of the store.                                               *)
Hist == [i \in 1..Len(log) |->
          [cmd |-> log[i], reply |-> Answer(ref[i], log[i].id, log[i].kv_cmd)]]

LEMMA HistType ==
  ASSUME ReplicaInv
  PROVE  /\ Hist \in Seq([cmd : Command, reply : Reply])
         /\ Len(Hist) = Len(log)
         /\ \A i \in 1..Len(log) :
              Hist[i] = [cmd |-> log[i], reply |-> Answer(ref[i], log[i].id, log[i].kv_cmd)]
<1>1. /\ log \in Seq(Command) /\ Len(log) \in Nat
      /\ ref \in Seq(Database) /\ Len(ref) = Len(log) + 1
  BY DEF ReplicaInv, TypeOK, RefFollowsLog
<1>2. ASSUME NEW i \in 1..Len(log)
      PROVE  log[i] \in Command /\ Answer(ref[i], log[i].id, log[i].kv_cmd) \in Reply
  <2>1. log[i] \in Command /\ ref[i] \in Database
    BY <1>1
  <2>2. log[i].kv_cmd \in KVCommand /\ log[i].id \in Nat
    BY <2>1 DEF Command
  <2> QED BY <2>1, <2>2, KVCommandShape DEF Answer, WriteReply, ReadReply, Reply, Database
<1> QED BY <1>1, <1>2 DEF Hist

(* Both modules mean the same by the commands.                             *)
LEMMA SameCommands ==
  /\ KV!NewDatabase = NewDatabase
  /\ \A db, cmd : KV!Effect(db, cmd) = Effect(db, cmd)
  /\ \A db, id, cmd : KV!Answer(db, id, cmd) = Answer(db, id, cmd)
  BY DEF KV!NewDatabase, NewDatabase, KV!Effect, Effect, KV!Answer, Answer,
     KV!WriteReply, WriteReply, KV!ReadReply, ReadReply

LEMMA KVStart ==
  ASSUME Init
  PROVE  KV!KVInit
<1>1. Hist = << >>
  BY DEF Init, OmniInit, Hist
<1>2. ref[Len(ref)] = NewDatabase
  BY DEF Init
<1> QED BY <1>1, <1>2, SameCommands DEF Init, OmniInit, KV!KVInit, Hist

(* Every step but a decision and an execution only submits commands.       *)
LEMMA KVSubmit ==
  ASSUME proposals \subseteq proposals', UNCHANGED <<log, ref, replies>>
  PROVE  KV!KVNext
  BY DEF KV!KVNext, KV!Submit

LEMMA KVTakeEffect ==
  ASSUME ReplicaInv, NEW cmd \in proposals, Decide(cmd)
  PROVE  KV!TakeEffect(cmd)
<1>1. /\ log' = Append(log, cmd) /\ ~Decided(cmd)
      /\ ref' = Append(ref, Effect(ref[Len(ref)], cmd.kv_cmd))
      /\ UNCHANGED <<proposals, replies>>
  BY DEF Decide, OmniDecide, clientVars
<1>2. /\ log \in Seq(Command) /\ cmd \in Command /\ Len(log) \in Nat
      /\ ref \in Seq(Database) /\ Len(ref) = Len(log) + 1
  BY DEF ReplicaInv, TypeOK, RefFollowsLog
<1>3. Effect(ref[Len(ref)], cmd.kv_cmd) \in Database
  <2>1. ref[Len(ref)] \in Database /\ cmd.kv_cmd \in KVCommand
    BY <1>2 DEF Command
  <2> QED BY <2>1, HandleCommandEffect
<1>4. /\ Len(log') = Len(log) + 1
      /\ \A i \in 1..Len(log) : log'[i] = log[i] /\ ref'[i] = ref[i]
      /\ log'[Len(log) + 1] = cmd
      /\ ref'[Len(log) + 1] = ref[Len(ref)]
      /\ ref'[Len(ref')] = Effect(ref[Len(ref)], cmd.kv_cmd)
  BY <1>1, <1>2, <1>3
<1> DEFINE entry == [cmd |-> cmd, reply |-> Answer(ref[Len(ref)], cmd.id, cmd.kv_cmd)]
<1>5. /\ \A i \in 1..Len(log) : Hist'[i] = Hist[i]
      /\ Hist'[Len(log) + 1] = entry
  BY <1>2, <1>4 DEF Hist
<1>6. Hist' = Append(Hist, entry)
  <2> DEFINE E == [cmd : Command, reply : Reply]
  <2>1. entry \in E
    <3>1. ref[Len(ref)] \in Database /\ cmd.kv_cmd \in KVCommand /\ cmd.id \in Nat
      BY <1>2 DEF Command
    <3> QED BY <1>2, <3>1, KVCommandShape DEF Answer, WriteReply, ReadReply, Reply, Database
  <2>2. Hist \in Seq(E) /\ Len(Hist) = Len(log)
    BY HistType
  <2>3. Hist' = [i \in 1..Len(log') |-> Hist'[i]]
    BY DEF Hist
  <2> HIDE DEF entry, E, Hist
  <2>4. PICK next \in Nat : next = Len(log) + 1 /\ next = Len(log')
    BY <1>2, <1>4
  <2> QED BY <1>2, <1>5, <2>1, <2>2, <2>3, <2>4, AppendAsFunction
<1>7. \A i \in 1..Len(Hist) : Hist[i].cmd # cmd
  <2>1. \A i \in 1..Len(log) : Hist[i].cmd = log[i]
    BY DEF Hist
  <2> QED BY <1>1, <2>1, HistType DEF Decided
<1> QED BY <1>1, <1>4, <1>6, <1>7, SameCommands DEF KV!TakeEffect, Hist

(* Every reply a session has been given answers one of the entries its     *)
(* server has executed, so its id is not that of a later entry.            *)
LEMMA NotYetReplied ==
  ASSUME ReplicaInv, RepliesFollowLog, IdInv, NEW n \in Servers,
         NEW a \in Nat, NEW next \in 1..Len(log), a = Applied(n), next = a + 1,
         log[next].coordinator_id = n,
         NEW j \in 1..Len(replies[n][log[next].client_id])
  PROVE  replies[n][log[next].client_id][j].id # log[next].id
<1> DEFINE c == log[next].client_id
<1>1. log \in Seq(Command) /\ Len(log) \in Nat
  BY DEF ReplicaInv, TypeOK
<1>2. c \in ClientIds
  <2>1. log[next] \in Command
    BY <1>1
  <2> QED BY <2>1 DEF Command
<1> HIDE DEF c
<1>3. PICK m \in 0..a : AnsweredUpTo(n, c, m)
  BY <1>2 DEF RepliesFollowLog
<1>4. PICK at \in [1..Len(replies[n][c]) -> Session(n, c, m)] :
        \A k \in 1..Len(replies[n][c]) :
          replies[n][c][k] = Answer(ref[at[k]], log[at[k]].id, log[at[k]].kv_cmd)
  BY <1>3 DEF AnsweredUpTo
<1>5. /\ at[j] \in Session(n, c, m)
      /\ replies[n][c][j] = Answer(ref[at[j]], log[at[j]].id, log[at[j]].kv_cmd)
  BY <1>4 DEF c
<1>6. at[j] \in 1..m /\ log[at[j]].coordinator_id = n /\ log[at[j]].client_id = c
  BY <1>5 DEF Session
<1>7. at[j] \in 1..Len(log) /\ at[j] # next
  BY <1>1, <1>3, <1>6
<1>8. replies[n][c][j].id = log[at[j]].id
  BY <1>5 DEF Answer, WriteReply, ReadReply
<1>9. ASSUME log[at[j]].id = log[next].id PROVE FALSE
  <2>1. SameId(log[at[j]], log[next])
    BY <1>6, <1>9 DEF SameId, c
  <2>2. log[at[j]] = log[next]
    BY <1>7, <2>1 DEF IdInv, ProposedIds, LogOfProposals
  <2> QED BY <1>7, <2>2 DEF IdInv, LogOfProposals
<1> QED BY <1>8, <1>9 DEF c

(* Executing a command answers it, or leaves the replies alone.            *)
LEMMA KVRespond ==
  ASSUME ReplicaInv, RepliesFollowLog, IdInv, NEW n \in Servers, ExecuteCommand(n)
  PROVE  /\ UNCHANGED <<log, ref, proposals>>
         /\ \/ UNCHANGED replies
            \/ \E i \in 1..Len(log) : Head(decided_commands[n]) = log[i] /\ KV!Respond(i)
<1>1. PICK a \in Nat, next \in 1..Len(log) :
        a = Applied(n) /\ next = a + 1 /\ Head(decided_commands[n]) = log[next]
  BY ExecuteIsNextEntry
<1> DEFINE cmd   == log[next]
           reply == Answer(ref[next], cmd.id, cmd.kv_cmd)
<1>2. UNCHANGED <<log, ref, proposals>>
  BY DEF ExecuteCommand, omniVars, ghostVars
<1>3. IF cmd.coordinator_id = n
      THEN SendToClient(n, cmd.client_id, reply)
      ELSE UNCHANGED <<replies, client_conn>>
  BY <1>1, ExecuteIsNextEntry DEF ExecuteCommand
<1>4. CASE UNCHANGED replies
  BY <1>2, <1>4
<1>5. CASE /\ cmd.coordinator_id = n
           /\ replies' = [replies EXCEPT ![n][cmd.client_id] = Append(@, reply)]
  <2>1. Len(Hist) = Len(log) /\ Hist[next] = [cmd |-> cmd, reply |-> reply]
    BY HistType
  <2>2. Hist' = Hist
    BY <1>2 DEF Hist
  <2>3. \A j \in 1..Len(replies[n][cmd.client_id]) : replies[n][cmd.client_id][j].id # cmd.id
    BY <1>1, <1>5, NotYetReplied
  <2> HIDE DEF reply
  <2>4. KV!Respond(next)
    BY <1>2, <1>5, <2>1, <2>2, <2>3 DEF KV!Respond, Hist
  <2> QED BY <1>1, <1>2, <2>4
<1> QED BY <1>3, <1>4, <1>5 DEF SendToClient

(* For the store a step is one of three kinds.                             *)
LEMMA KVKinds ==
  ASSUME [Next]_vars
  PROVE  \/ proposals \subseteq proposals' /\ UNCHANGED <<log, ref, replies>>
         \/ \E cmd \in proposals : Decide(cmd)
         \/ \E n \in Servers : ExecuteCommand(n)
<1> DEFINE Frame == proposals \subseteq proposals' /\ UNCHANGED <<log, ref, replies>>
<1> USE DEF omniVars, loopVars, appVars, clusterVars, clientVars, inputVars, ghostVars
<1>1. ASSUME NEW n \in Servers, ServerStep(n)
      PROVE  Frame \/ ExecuteCommand(n)
  BY <1>1 DEF ServerStep, LeaderInitialized, AttemptLeadership, ElectionTick,
     HandleOmniPaxosMessage, OmniHandleIncoming, HandleLeaderStartSignal, FinishBatch,
     HandleClientMessages
<1>2. ASSUME Environment PROVE Frame \/ \E cmd \in proposals : Decide(cmd)
  <2>1. ASSUME NEW n \in Servers, NEW c \in ClientIds, NEW id, NEW cmd,
               ClientRequest(n, c, id, cmd)
        PROVE  Frame
    BY <2>1 DEF ClientRequest
  <2>2. ASSUME NEW n \in Servers, NEW c \in ClientIds,
               BreakClient(n, c) \/ ClientWriterEnds(n, c)
        PROVE  Frame
    BY <2>2 DEF BreakClient, ClientWriterEnds
  <2>3. ASSUME NEW n \in Servers, NEW p \in Servers,
               BreakPeer(n, p) \/ PeerWriterEnds(n, p) \/ NetworkReady(n) \/ ReadHandshake(n, p)
        PROVE  Frame
    BY <2>3 DEF BreakPeer, PeerWriterEnds, NetworkReady, ReadHandshake
  <2> HIDE DEF Frame
  <2> QED BY <1>2, <2>1, <2>2, <2>3 DEF Environment, Peers, Higher
<1>3. ASSUME UNCHANGED vars PROVE Frame
  BY <1>3 DEF vars
<1> HIDE DEF Frame
<1>4. Frame \/ (\E cmd \in proposals : Decide(cmd)) \/ (\E n \in Servers : ExecuteCommand(n))
  BY <1>1, <1>2, <1>3 DEF Next
<1> QED BY <1>4 DEF Frame

LEMMA KVStep ==
  ASSUME ReplicaInv, RepliesFollowLog, IdInv, [Next]_vars
  PROVE  [KV!KVNext]_(KV!kvVars)
<1>1. ASSUME NEW cmd \in proposals, Decide(cmd) PROVE KV!KVNext
  BY <1>1, KVTakeEffect DEF KV!KVNext
<1>2. ASSUME NEW n \in Servers, ExecuteCommand(n) PROVE KV!KVNext
  <2>1. CASE UNCHANGED replies
    BY <1>2, <2>1, KVRespond, KVSubmit
  <2>2. CASE \E i \in 1..Len(log) : KV!Respond(i)
    <3>1. Len(Hist) = Len(log)
      BY HistType
    <3> QED BY <2>2, <3>1 DEF KV!KVNext, Hist
  <2> QED BY <1>2, <2>1, <2>2, KVRespond
<1> QED BY <1>1, <1>2, KVKinds, KVSubmit

(* The cluster is a linearizable store: deciding a command is the moment   *)
(* it takes effect, between its submission and its reply, and a session    *)
(* gets at most one reply to a command, the one determined at that moment, *)
(* whichever connections break and however servers and clients interleave  *)
(* (handle_client_messages, update_database_and_respond, handle_command).  *)
THEOREM ImplementsLinearizableKV == Spec => Linearizable
<1>1. Init => KV!KVInit
  BY KVStart
<1>2. ReplicaInv /\ RepliesFollowLog /\ IdInv /\ [Next]_vars => [KV!KVNext]_(KV!kvVars)
  BY KVStep
<1>3. ReplicaInv => TypeOK
  BY DEF ReplicaInv
<1> QED BY <1>1, <1>2, <1>3, ReplicaInvInit, ReplicaInvNext, RepliesInit, RepliesNext,
           IdInvInit, IdInvNext, PTL DEF Spec, Linearizable, KV!KVSpec
=============================================================================
