--------------------------- MODULE GatewayProofs ---------------------------
(***************************************************************************)
(* What holds of the gateway for every number of requests and every        *)
(* capacity of the channel.  The four properties of Gateway follow from    *)
(* one inductive invariant, GatewayInv: ids are never shared, a command is *)
(* only ever downstream of the send of its own task, and the oneshot       *)
(* sender of a waiting request is in exactly one place.  With it the       *)
(* gateway in front of the store is shown to implement HttpKV.             *)
(***************************************************************************)
EXTENDS GatewayStore, TLAPS

Place == {"idle", "insert", "send", "wait", "unavailable", "closed", "timeout", "done",
          "cancelled"}

(* The state of the gateway has its types.                                 *)
GatewayTypeOK ==
  /\ cmd_id_counter \in Nat
  /\ cmd_id \in [Requests -> Nat \cup {-1}]
  /\ pc \in [Requests -> Place]
  /\ pending \subseteq Nat
  /\ answer \in [Requests -> Requests \cup {"open", "closed"}]
  /\ status \in [Requests -> {0, 200, 500, 503, 504}]
  /\ body \in [Requests -> Requests \cup {NoRequest}]
  /\ tcp_tx \in Seq(Requests)
  /\ writer \in {"running", "stopped"}
  /\ reader \in {"running", "sending", "stopped"}
  /\ reader_answer \in Requests \cup {NoRequest}
  /\ at_server \subseteq Requests
  /\ executed \subseteq Requests
  /\ replied \subseteq Requests
  /\ from_server \subseteq Requests

(* fetch_add gives every request an id of its own.                         *)
UniqueIds ==
  /\ \A r \in Requests : cmd_id[r] < cmd_id_counter
  /\ \A r \in Requests : pc[r] = "idle" <=> cmd_id[r] = -1
  /\ \A r, q \in Requests : cmd_id[r] = cmd_id[q] /\ pc[r] # "idle" => r = q

(* The command of r has left its task: it is in the channel, at the server *)
(* or beyond it.                                                           *)
Sent(r) == (\E i \in 1..Len(tcp_tx) : tcp_tx[i] = r) \/ r \in at_server \/ r \in executed

(* Only the task itself sends its command, and 503 is not returned by a    *)
(* task that has.                                                          *)
SentByTask ==
  \A r \in Requests : Sent(r) =>
    /\ pc[r] \notin {"idle", "insert", "send", "unavailable"}
    /\ status[r] # 503

(* The way of a reply: executed, replied, taken off the wire by the        *)
(* reader, its entry out of pending, put into the channel of its request.  *)
ReplyPath ==
  /\ from_server \subseteq replied
  /\ replied \subseteq executed
  /\ \A r \in replied \ from_server : cmd_id[r] \notin pending
  /\ reader = "sending" <=> reader_answer \in Requests
  /\ reader_answer \in Requests => reader_answer \in replied \ from_server
  /\ \A r \in Requests : answer[r] \in Requests => answer[r] = r /\ r \in replied \ from_server

(* The sender of a request that waits for its answer: in pending, with the *)
(* reader, used, or dropped with the reader.                               *)
SenderKept ==
  \A r \in Requests :
    /\ pc[r] \in {"send", "wait"} =>
         \/ cmd_id[r] \in pending
         \/ reader_answer = r
         \/ answer[r] = r
         \/ reader = "stopped"
    /\ answer[r] = "closed" => reader = "stopped"

(* What a task that has returned left behind.                              *)
Returned ==
  \A r \in Requests :
    /\ status[r] # 0 => pc[r] = "done"
    /\ pc[r] = "done" => cmd_id[r] \notin pending
    /\ status[r] = 200 => body[r] = r /\ r \in executed

GatewayInv ==
  GatewayTypeOK /\ UniqueIds /\ SentByTask /\ ReplyPath /\ SenderKept /\ Returned

-----------------------------------------------------------------------------
(* A new state of the gateway has its types when the old one has.          *)
LEMMA GatewayTypeNext == GatewayInv /\ [GatewayNext]_gatewayVars => GatewayTypeOK'
<1> SUFFICES ASSUME GatewayInv, [GatewayNext]_gatewayVars
             PROVE  GatewayTypeOK'
  OBVIOUS
<1>0. ASSUME NEW r \in Requests, InsertPending(r) PROVE pending' \subseteq Nat
  <2>1. cmd_id[r] \in Nat
    BY <1>0 DEF GatewayInv, GatewayTypeOK, UniqueIds, InsertPending
  <2>2. pending \subseteq Nat /\ pending' = pending \cup {cmd_id[r]}
    BY <1>0 DEF GatewayInv, GatewayTypeOK, InsertPending
  <2> QED BY <2>1, <2>2
<1> USE DEF GatewayInv, GatewayTypeOK, Place, requestVars, sharedVars, taskVars, serverVars
<1>1. ASSUME NEW r \in Requests, DrawId(r) PROVE GatewayTypeOK'
  BY <1>1 DEF DrawId
<1>2. ASSUME NEW r \in Requests, InsertPending(r) PROVE GatewayTypeOK'
  BY <1>0, <1>2 DEF InsertPending
<1>3. ASSUME NEW r \in Requests, SendCommand(r) PROVE GatewayTypeOK'
  BY <1>3 DEF SendCommand
<1>4. ASSUME NEW r \in Requests, SendFails(r) PROVE GatewayTypeOK'
  BY <1>4 DEF SendFails
<1>5. ASSUME NEW r \in Requests, Answered(r) PROVE GatewayTypeOK'
  BY <1>5 DEF Answered
<1>6. ASSUME NEW r \in Requests, ChannelClosed(r) PROVE GatewayTypeOK'
  BY <1>6 DEF ChannelClosed
<1>7. ASSUME NEW r \in Requests, TimesOut(r) PROVE GatewayTypeOK'
  BY <1>7 DEF TimesOut
<1>8. ASSUME NEW r \in Requests, CleanUp(r) PROVE GatewayTypeOK'
  <2>1. pending' \subseteq Nat
    BY <1>8 DEF CleanUp, UniqueIds
  <2> QED BY <1>8, <2>1 DEF CleanUp, ErrorStatus
<1>9. ASSUME NEW r \in Requests, Cancel(r) PROVE GatewayTypeOK'
  BY <1>9 DEF Cancel
<1>10. CASE WriteCommand
  BY <1>10 DEF WriteCommand
<1>11. CASE WriterStops
  BY <1>11 DEF WriterStops
<1>12. ASSUME NEW r \in Requests, ReceiveReply(r) PROVE GatewayTypeOK'
  <2>1. pending' \subseteq Nat
    BY <1>12 DEF ReceiveReply, UniqueIds
  <2> QED BY <1>12, <2>1 DEF ReceiveReply
<1>13. CASE PassOn
  BY <1>13 DEF PassOn, ReplyPath
<1>14. CASE ReaderStops
  BY <1>14 DEF ReaderStops
<1>15. ASSUME NEW r \in Requests, ServerExecutes(r) PROVE GatewayTypeOK'
  BY <1>15 DEF ServerExecutes
<1>16. ASSUME NEW r \in Requests, ServerReplies(r) PROVE GatewayTypeOK'
  BY <1>16 DEF ServerReplies
<1>17. ASSUME NEW r \in Requests, ServerLoses(r) PROVE GatewayTypeOK'
  BY <1>17 DEF ServerLoses
<1>18. CASE UNCHANGED gatewayVars
  BY <1>18 DEF gatewayVars
<1> QED
  BY <1>1, <1>2, <1>3, <1>4, <1>5, <1>6, <1>7, <1>8, <1>9, <1>10, <1>11, <1>12, <1>13, <1>14,
     <1>15, <1>16, <1>17, <1>18 DEF GatewayNext, RequestStep

(* Init establishes the invariant.                                         *)
LEMMA GatewayInvInit == GatewayInit => GatewayInv
  BY GatewayAssumption DEF GatewayInit, GatewayInv, GatewayTypeOK, Place, UniqueIds, SentByTask,
     Sent, ReplyPath, SenderKept, Returned

(* Every step of a task, of writer_task, of reader_task and of the server  *)
(* preserves it.                                                           *)
LEMMA GatewayInvNext == GatewayInv /\ [GatewayNext]_gatewayVars => GatewayInv'
<1> SUFFICES ASSUME GatewayInv, [GatewayNext]_gatewayVars
             PROVE  GatewayInv'
  OBVIOUS
<1>0. GatewayTypeOK'
  BY GatewayTypeNext
<1> USE DEF GatewayInv, requestVars, sharedVars, taskVars, serverVars
<1>1. ASSUME NEW r \in Requests, DrawId(r) PROVE GatewayInv'
  <2>1. UniqueIds'
    BY <1>1 DEF UniqueIds, GatewayTypeOK, DrawId
  <2>2. SentByTask'
    BY <1>1 DEF SentByTask, Sent, DrawId
  <2>3. ReplyPath'
    BY <1>1 DEF SentByTask, ReplyPath, Sent, DrawId
  <2>4. SenderKept'
    BY <1>1 DEF SenderKept, DrawId
  <2>5. Returned'
    BY <1>1 DEF Returned, DrawId
  <2> QED BY <1>0, <2>1, <2>2, <2>3, <2>4, <2>5
<1>2. ASSUME NEW r \in Requests, InsertPending(r) PROVE GatewayInv'
  <2>1. UniqueIds'
    BY <1>2 DEF UniqueIds, InsertPending
  <2>2. SentByTask'
    BY <1>2 DEF SentByTask, Sent, InsertPending
  <2>3. ReplyPath'
    BY <1>2 DEF UniqueIds, SentByTask, ReplyPath, Sent, GatewayTypeOK, InsertPending
  <2>4. SenderKept'
    BY <1>2 DEF SenderKept, InsertPending
  <2>5. Returned'
    BY <1>2 DEF UniqueIds, Returned, InsertPending
  <2> QED BY <1>0, <2>1, <2>2, <2>3, <2>4, <2>5
<1>3. ASSUME NEW r \in Requests, SendCommand(r) PROVE GatewayInv'
  <2>1. UniqueIds'
    BY <1>3 DEF UniqueIds, SendCommand
  <2>2. SentByTask'
    BY <1>3 DEF SentByTask, Returned, Sent, GatewayTypeOK, SendCommand
  <2>3. SenderKept'
    BY <1>3 DEF SenderKept, SendCommand
  <2>4. Returned'
    BY <1>3 DEF Returned, SendCommand
  <2>5. ReplyPath'
    BY <1>3 DEF ReplyPath, SendCommand
  <2> QED BY <1>0, <2>1, <2>2, <2>3, <2>4, <2>5
<1>4. ASSUME NEW r \in Requests, SendFails(r) PROVE GatewayInv'
  <2>1. UniqueIds'
    BY <1>4 DEF UniqueIds, SendFails
  <2>2. SentByTask'
    BY <1>4 DEF SentByTask, Sent, SendFails
  <2>3. SenderKept'
    BY <1>4 DEF SenderKept, SendFails
  <2>4. Returned'
    BY <1>4 DEF Returned, SendFails
  <2>5. ReplyPath'
    BY <1>4 DEF ReplyPath, SendFails
  <2> QED BY <1>0, <2>1, <2>2, <2>3, <2>4, <2>5
<1>5. ASSUME NEW r \in Requests, Answered(r) PROVE GatewayInv'
  <2>1. UniqueIds'
    BY <1>5 DEF UniqueIds, Answered
  <2>2. SentByTask'
    BY <1>5 DEF SentByTask, Sent, Answered
  <2>3. SenderKept'
    BY <1>5 DEF SenderKept, Answered
  <2>4. Returned'
    BY <1>5 DEF ReplyPath, Returned, GatewayTypeOK, Answered
  <2>5. ReplyPath'
    BY <1>5 DEF ReplyPath, Answered
  <2> QED BY <1>0, <2>1, <2>2, <2>3, <2>4, <2>5
<1>6. ASSUME NEW r \in Requests, ChannelClosed(r) PROVE GatewayInv'
  <2>1. UniqueIds'
    BY <1>6 DEF UniqueIds, ChannelClosed
  <2>2. SentByTask'
    BY <1>6 DEF SentByTask, Sent, ChannelClosed
  <2>3. SenderKept'
    BY <1>6 DEF SenderKept, ChannelClosed
  <2>4. Returned'
    BY <1>6 DEF Returned, ChannelClosed
  <2>5. ReplyPath'
    BY <1>6 DEF ReplyPath, ChannelClosed
  <2> QED BY <1>0, <2>1, <2>2, <2>3, <2>4, <2>5
<1>7. ASSUME NEW r \in Requests, TimesOut(r) PROVE GatewayInv'
  <2>1. UniqueIds'
    BY <1>7 DEF UniqueIds, TimesOut
  <2>2. SentByTask'
    BY <1>7 DEF SentByTask, Sent, TimesOut
  <2>3. SenderKept'
    BY <1>7 DEF SenderKept, TimesOut
  <2>4. Returned'
    BY <1>7, GatewayAssumption DEF Waiter, ErrorStatus, Place, Returned, TimesOut
  <2>5. ReplyPath'
    BY <1>7 DEF ReplyPath, TimesOut
  <2> QED BY <1>0, <2>1, <2>2, <2>3, <2>4, <2>5
<1>8. ASSUME NEW r \in Requests, CleanUp(r) PROVE GatewayInv'
  <2>1. UniqueIds'
    BY <1>8 DEF ErrorStatus, UniqueIds, CleanUp
  <2>2. SentByTask'
    BY <1>8 DEF ErrorStatus, SentByTask, Sent, CleanUp
  <2>3. ReplyPath'
    BY <1>8 DEF ReplyPath, CleanUp
  <2>4. SenderKept'
    BY <1>8 DEF UniqueIds, SenderKept, GatewayTypeOK, CleanUp
  <2>5. Returned'
    BY <1>8 DEF ErrorStatus, Returned, GatewayTypeOK, CleanUp
  <2> QED BY <1>0, <2>1, <2>2, <2>3, <2>4, <2>5
<1>9. ASSUME NEW r \in Requests, Cancel(r) PROVE GatewayInv'
  <2>1. UniqueIds'
    BY <1>9 DEF UniqueIds, Cancel
  <2>2. SentByTask'
    BY <1>9 DEF SentByTask, Sent, Cancel
  <2>3. SenderKept'
    BY <1>9 DEF SenderKept, Cancel
  <2>4. Returned'
    BY <1>9 DEF Returned, Cancel
  <2>5. ReplyPath'
    BY <1>9 DEF ReplyPath, Cancel
  <2> QED BY <1>0, <2>1, <2>2, <2>3, <2>4, <2>5
<1>10. CASE WriteCommand
  <2>1. SentByTask'
    BY <1>10 DEF SentByTask, Returned, Sent, GatewayTypeOK, WriteCommand
  <2>2. UniqueIds' /\ ReplyPath' /\ SenderKept' /\ Returned'
    BY <1>10 DEF UniqueIds, ReplyPath, SenderKept, Returned, WriteCommand
  <2> QED BY <1>0, <2>1, <2>2
<1>11. CASE WriterStops
  <2>1. SentByTask'
    BY <1>11 DEF SentByTask, Sent, WriterStops
  <2>2. UniqueIds' /\ ReplyPath' /\ SenderKept' /\ Returned'
    BY <1>11 DEF UniqueIds, ReplyPath, SenderKept, Returned, WriterStops
  <2> QED BY <1>0, <2>1, <2>2
<1>12. ASSUME NEW r \in Requests, ReceiveReply(r) PROVE GatewayInv'
  <2>1. ReplyPath'
    BY <1>12 DEF ReplyPath, ReceiveReply
  <2>2. SenderKept'
    BY <1>12 DEF UniqueIds, ReplyPath, SenderKept, ReceiveReply
  <2>3. Returned'
    BY <1>12 DEF Returned, ReceiveReply
  <2>4. UniqueIds' /\ SentByTask'
    BY <1>12 DEF UniqueIds, SentByTask, Sent, ReceiveReply
  <2> QED BY <1>0, <2>1, <2>2, <2>3, <2>4
<1>13. CASE PassOn
  <2>1. ReplyPath'
    BY <1>13, GatewayAssumption DEF Waiter, UniqueIds, ReplyPath, PassOn
  <2>2. SenderKept'
    BY <1>13, GatewayAssumption DEF Waiter, UniqueIds, SentByTask, ReplyPath, SenderKept, Sent,
       GatewayTypeOK, PassOn
  <2>3. UniqueIds' /\ SentByTask' /\ Returned'
    BY <1>13 DEF UniqueIds, SentByTask, Returned, Sent, PassOn
  <2> QED BY <1>0, <2>1, <2>2, <2>3
<1>14. CASE ReaderStops
  <2>1. ReplyPath'
    BY <1>14, GatewayAssumption DEF Waiter, ErrorStatus, Place, ReplyPath, ReaderStops
  <2>2. SenderKept'
    BY <1>14, GatewayAssumption DEF Waiter, ErrorStatus, Place, SenderKept, ReaderStops
  <2>3. Returned'
    BY <1>14 DEF Returned, ReaderStops
  <2>4. UniqueIds' /\ SentByTask'
    BY <1>14 DEF UniqueIds, SentByTask, Sent, ReaderStops
  <2> QED BY <1>0, <2>1, <2>2, <2>3, <2>4
<1>15. ASSUME NEW r \in Requests, ServerExecutes(r) PROVE GatewayInv'
  <2>1. SentByTask'
    BY <1>15 DEF SentByTask, Sent, ServerExecutes
  <2>2. ReplyPath'
    BY <1>15 DEF ReplyPath, ServerExecutes
  <2>3. Returned'
    BY <1>15 DEF Returned, ServerExecutes
  <2>4. UniqueIds' /\ SenderKept'
    BY <1>15 DEF UniqueIds, SenderKept, ServerExecutes
  <2> QED BY <1>0, <2>1, <2>2, <2>3, <2>4
<1>16. ASSUME NEW r \in Requests, ServerReplies(r) PROVE GatewayInv'
  <2>1. ReplyPath'
    BY <1>16 DEF ReplyPath, ServerReplies
  <2>2. UniqueIds' /\ SentByTask' /\ SenderKept' /\ Returned'
    BY <1>16 DEF UniqueIds, SentByTask, SenderKept, Returned, Sent, ServerReplies
  <2> QED BY <1>0, <2>1, <2>2
<1>17. ASSUME NEW r \in Requests, ServerLoses(r) PROVE GatewayInv'
  <2>1. SentByTask'
    BY <1>17 DEF SentByTask, Sent, ServerLoses
  <2>2. UniqueIds' /\ ReplyPath' /\ SenderKept' /\ Returned'
    BY <1>17 DEF UniqueIds, ReplyPath, SenderKept, Returned, ServerLoses
  <2> QED BY <1>0, <2>1, <2>2
<1>18. CASE UNCHANGED gatewayVars
  BY <1>0, <1>18 DEF gatewayVars, UniqueIds, SentByTask, Sent, ReplyPath, SenderKept, Returned
<1> QED
  BY <1>1, <1>2, <1>3, <1>4, <1>5, <1>6, <1>7, <1>8, <1>9, <1>10, <1>11, <1>12, <1>13, <1>14,
     <1>15, <1>16, <1>17, <1>18 DEF GatewayNext, RequestStep

(* The four properties are parts of the invariant or follow from two.      *)
LEMMA GatewayInvImplies ==
  GatewayInv => OwnAnswer /\ UnavailableMeansUnsent /\ NothingLeftPending /\ NoAnswerLost
<1> SUFFICES ASSUME GatewayInv
             PROVE  OwnAnswer /\ UnavailableMeansUnsent /\ NothingLeftPending /\ NoAnswerLost
  OBVIOUS
<1>1. OwnAnswer /\ NothingLeftPending
  BY DEF GatewayInv, Returned, OwnAnswer, NothingLeftPending
<1>2. UnavailableMeansUnsent
  BY DEF GatewayInv, SentByTask, Sent, UnavailableMeansUnsent
<1>3. NoAnswerLost
  BY DEF GatewayInv, ReplyPath, SenderKept, NoAnswerLost
<1> QED BY <1>1, <1>2, <1>3

-----------------------------------------------------------------------------
(* Answers are never mixed up, for any number of concurrent requests: a    *)
(* request that returns 200 was given the result of its own command        *)
(* (submit_command, reader_task).                                          *)
THEOREM AnswersOwn == GatewaySpec => []OwnAnswer
  BY GatewayInvInit, GatewayInvNext, GatewayInvImplies, PTL DEF GatewaySpec

(* A request that returns 503 has not given its command to the server and  *)
(* never will (submit_command).                                            *)
THEOREM UnavailableIsUnsent == GatewaySpec => []UnavailableMeansUnsent
  BY GatewayInvInit, GatewayInvNext, GatewayInvImplies, PTL DEF GatewaySpec

(* A request that has returned leaves no entry in pending, however its     *)
(* timeout, a late reply and the end of reader_task raced.                 *)
THEOREM PendingCleanedUp == GatewaySpec => []NothingLeftPending
  BY GatewayInvInit, GatewayInvNext, GatewayInvImplies, PTL DEF GatewaySpec

(* A reply the server has sent is not thrown away while its request waits  *)
(* and reader_task runs.                                                   *)
THEOREM AnswersArrive == GatewaySpec => []NoAnswerLost
  BY GatewayInvInit, GatewayInvNext, GatewayInvImplies, PTL DEF GatewaySpec

-----------------------------------------------------------------------------
(* The gateway in front of the replicated store implements HttpKV, for     *)
(* every number of requests, every capacity of the channel and all         *)
(* commands.  The argument: the gateway's part of the state moves by steps *)
(* of Gateway, so GatewayInv holds; of the gateway's session, the store's  *)
(* history holds exactly the commands of the executed requests, each once; *)
(* and an id, hence a command, belongs to one request.                     *)

(* The places of the command of q in the history.                          *)
At(q) == {i \in 1..Len(history) : history[i].cmd = CommandOf(q)}

Entry == [cmd : KV!Command, reply : Reply]

(* The entry of the command of r, taking effect now.                       *)
NewEntry(r) == [cmd |-> CommandOf(r), reply |-> Answer(store, cmd_id[r], command[r])]

(* The store has its types.                                                *)
StoreTypeOK ==
  /\ command \in [Requests -> KVCommand]
  /\ store \in Database
  /\ history \in Seq(Entry)

(* What took effect of the gateway's session is what the server executed   *)
(* for it, each command once.                                              *)
HistoryOfRequests ==
  /\ \A i \in 1..Len(history) :
       OfGateway(history[i].cmd) => \E r \in executed : history[i].cmd = CommandOf(r)
  /\ \A r \in executed : \E k \in 1..Len(history) : At(r) = {k}

(* Only a 200 has a body.                                                  *)
BodyOnSuccess == \A r \in Requests : body[r] # NoRequest => status[r] = 200

StoreInv == StoreTypeOK /\ HistoryOfRequests /\ BodyOnSuccess

-----------------------------------------------------------------------------
(* Projected on the gateway, every step is one of Gateway.                 *)
LEMMA StepOfGateway ==
  ASSUME [GatewayStoreNext]_gatewayStoreVars
  PROVE  [GatewayNext]_gatewayVars
  BY DEF GatewayStoreNext, gatewayStoreVars, Own, OtherSession, Submits, Executes, Replies,
     GatewayNext

(* An id belongs to one request, so a command does.                        *)
LEMMA CommandsDiffer ==
  ASSUME GatewayInv, NEW r \in Requests, NEW q \in Requests, r # q, pc[r] # "idle"
  PROVE  CommandOf(r) # CommandOf(q)
<1>1. cmd_id[r] # cmd_id[q]
  BY DEF GatewayInv, UniqueIds
<1> QED BY <1>1 DEF CommandOf

(* The commands of a key-value store.                                      *)
LEMMA CommandOps ==
  ASSUME NEW cmd \in KVCommand
  PROVE  /\ cmd.op \in {"Put", "Delete", "Get"}
         /\ cmd.key \in Keys
         /\ cmd.value \in Option
  BY DEF KVCommand, Put, Delete, Get, Option

(* What the store does with the command of an executed request.            *)
LEMMA StoreStep ==
  ASSUME NEW db \in Database, NEW cmd \in KVCommand, NEW id \in Nat
  PROVE  Effect(db, cmd) \in Database /\ Answer(db, id, cmd) \in Reply
  BY CommandOps DEF Effect, Answer, WriteReply, ReadReply, Reply, Database, Option

LEMMA SameStore ==
  /\ KV!NewDatabase = NewDatabase
  /\ \A db, cmd : KV!Effect(db, cmd) = Effect(db, cmd)
  /\ \A db, id, cmd : KV!Answer(db, id, cmd) = Answer(db, id, cmd)
  BY DEF KV!NewDatabase, NewDatabase, KV!Effect, Effect, KV!Answer, Answer,
     KV!WriteReply, WriteReply, KV!ReadReply, ReadReply

(* The store's types are the gateway's.                                    *)
LEMMA SameCommands == KV!KVCommand = KVCommand
  BY DEF KV!KVCommand, KVCommand, KV!Put, Put, KV!Delete, Delete, KV!Get, Get

(* A command takes effect: a new last entry, the only one of the command.  *)
LEMMA EffectAppends ==
  ASSUME StoreInv, NEW cmd \in KV!Command, KV!TakeEffect(cmd)
  PROVE  /\ \A i \in 1..Len(history) : history[i].cmd # cmd
         /\ Len(history) \in Nat /\ Len(history') = Len(history) + 1
         /\ \A i \in 1..Len(history) : history'[i] = history[i]
         /\ history'[Len(history) + 1] =
              [cmd |-> cmd, reply |-> Answer(store, cmd.id, cmd.kv_cmd)]
         /\ history' \in Seq(Entry)
         /\ store' = Effect(store, cmd.kv_cmd) /\ store' \in Database
<1> DEFINE new == [cmd |-> cmd, reply |-> Answer(store, cmd.id, cmd.kv_cmd)]
<1>1. /\ history' = Append(history, new) /\ store' = Effect(store, cmd.kv_cmd)
      /\ \A i \in 1..Len(history) : history[i].cmd # cmd
  BY SameStore DEF KV!TakeEffect
<1>2. history \in Seq(Entry) /\ store \in Database /\ cmd.id \in Nat /\ cmd.kv_cmd \in KVCommand
  BY SameCommands DEF StoreInv, StoreTypeOK, KV!Command
<1>3. new \in Entry /\ store' \in Database
  BY <1>1, <1>2, StoreStep DEF Entry
<1> HIDE DEF new
<1>4. /\ Len(history) \in Nat /\ Len(history') = Len(history) + 1
      /\ \A i \in 1..Len(history) : history'[i] = history[i]
      /\ history'[Len(history) + 1] = new
      /\ history' \in Seq(Entry)
  BY <1>1, <1>2, <1>3
<1> QED BY <1>1, <1>3, <1>4 DEF new

(* The command of r takes effect: a new last entry, the only one of r, and *)
(* no entry of another request.                                            *)
LEMMA ExecutesAppends ==
  ASSUME GatewayInv, StoreInv, NEW r \in Requests, Executes(r)
  PROVE  /\ r \notin executed /\ executed' = executed \cup {r}
         /\ pc[r] # "idle" /\ status[r] # 503
         /\ At(r) = {} /\ At(r)' = {Len(history) + 1}
         /\ \A q \in Requests \ {r} : At(q)' = At(q)
         /\ Len(history) \in Nat /\ Len(history') = Len(history) + 1
         /\ \A i \in 1..Len(history) : history'[i] = history[i]
         /\ history'[Len(history) + 1] = NewEntry(r)
         /\ history' \in Seq(Entry)
         /\ store' = Effect(store, command[r]) /\ store' \in Database
<1>1. /\ r \in at_server /\ executed' = executed \cup {r}
      /\ UNCHANGED <<cmd_id, command>>
      /\ \A i \in 1..Len(history) : history[i].cmd # CommandOf(r)
  BY DEF Executes, ServerExecutes, requestVars, KV!TakeEffect
<1>2. pc[r] # "idle" /\ status[r] # 503
  BY <1>1 DEF GatewayInv, SentByTask, Sent
<1>3. CommandOf(r) \in KV!Command
  <2>1. cmd_id[r] \in Nat /\ command[r] \in KVCommand
    BY <1>2 DEF GatewayInv, GatewayTypeOK, UniqueIds, StoreInv, StoreTypeOK
  <2> QED BY <2>1, SameCommands, SessionAssumption DEF CommandOf, KV!Command
<1>4. NewEntry(r) =
        [cmd |-> CommandOf(r), reply |-> Answer(store, CommandOf(r).id, CommandOf(r).kv_cmd)]
  BY DEF NewEntry, CommandOf
<1>5. CommandOf(r).kv_cmd = command[r]
  BY DEF CommandOf
<1>6. /\ Len(history) \in Nat /\ Len(history') = Len(history) + 1
      /\ \A i \in 1..Len(history) : history'[i] = history[i]
      /\ history'[Len(history) + 1] = NewEntry(r)
      /\ history' \in Seq(Entry)
      /\ store' = Effect(store, command[r]) /\ store' \in Database
  BY <1>3, <1>4, <1>5, EffectAppends DEF Executes
<1>7. At(r) = {}
  BY <1>1 DEF At
<1>8. r \notin executed
  BY <1>7 DEF StoreInv, HistoryOfRequests
<1>9. \A q \in Requests : CommandOf(q)' = CommandOf(q)
  BY <1>1 DEF CommandOf
<1>10. ASSUME NEW i \in 1..Len(history')
       PROVE  i \in 1..Len(history) \/ i = Len(history) + 1
  BY <1>6
<1>11. At(r)' = {Len(history) + 1}
  BY <1>1, <1>6, <1>9, <1>10 DEF At, NewEntry
<1>12. ASSUME NEW q \in Requests \ {r} PROVE At(q)' = At(q)
  <2>1. CommandOf(r) # CommandOf(q)
    BY <1>2, CommandsDiffer
  <2> QED BY <1>6, <1>9, <1>10, <2>1 DEF At, NewEntry
<1> QED BY <1>1, <1>2, <1>6, <1>7, <1>8, <1>11, <1>12

(* The command of another session takes effect: an entry of no request.    *)
LEMMA OtherAppends ==
  ASSUME GatewayInv, StoreInv, OtherTakesEffect, UNCHANGED <<cmd_id, command>>
  PROVE  /\ \A r \in Requests : At(r)' = At(r)
         /\ Len(history) \in Nat /\ Len(history') = Len(history) + 1
         /\ \A i \in 1..Len(history) : history'[i] = history[i]
         /\ ~OfGateway(history'[Len(history) + 1].cmd)
         /\ history' \in Seq(Entry) /\ store' \in Database
         /\ \E cmd \in KVCommand : store' = Effect(store, cmd)
<1>1. PICK cmd \in OtherCommands : KV!TakeEffect(cmd)
  BY DEF OtherTakesEffect
<1>2. cmd \in KV!Command /\ ~OfGateway(cmd) /\ cmd.kv_cmd \in KVCommand
  BY SessionAssumption, SameCommands DEF KV!Command
<1>3. /\ Len(history) \in Nat /\ Len(history') = Len(history) + 1
      /\ \A i \in 1..Len(history) : history'[i] = history[i]
      /\ history'[Len(history) + 1].cmd = cmd
      /\ history' \in Seq(Entry) /\ store' \in Database
      /\ store' = Effect(store, cmd.kv_cmd)
  <2>1. /\ Len(history) \in Nat /\ Len(history') = Len(history) + 1
        /\ \A i \in 1..Len(history) : history'[i] = history[i]
        /\ history'[Len(history) + 1] =
             [cmd |-> cmd, reply |-> Answer(store, cmd.id, cmd.kv_cmd)]
        /\ history' \in Seq(Entry) /\ store' \in Database
        /\ store' = Effect(store, cmd.kv_cmd)
    BY <1>1, <1>2, EffectAppends, Zenon
  <2> QED BY <2>1
<1>4. ASSUME NEW r \in Requests PROVE At(r)' = At(r)
  <2>1. CommandOf(r)' = CommandOf(r) /\ OfGateway(CommandOf(r))
    BY DEF CommandOf, OfGateway
  <2>2. \A i \in 1..Len(history') : i \in 1..Len(history) \/ i = Len(history) + 1
    BY <1>3
  <2> QED BY <1>2, <1>3, <2>1, <2>2 DEF At
<1> QED BY <1>2, <1>3, <1>4

(* A request draws an id that no entry has.                                *)
LEMMA DrawIdKeepsPlaces ==
  ASSUME GatewayInv, StoreInv, NEW r \in Requests, DrawId(r), UNCHANGED history,
         UNCHANGED command
  PROVE  /\ r \notin executed /\ At(r) = {} /\ At(r)' = {}
         /\ \A q \in Requests \ {r} : CommandOf(q)' = CommandOf(q) /\ At(q)' = At(q)
<1>1. /\ pc[r] = "idle" /\ cmd_id[r] = -1
      /\ cmd_id' = [cmd_id EXCEPT ![r] = cmd_id_counter]
      /\ cmd_id \in [Requests -> Nat \cup {-1}] /\ cmd_id_counter \in Nat
      /\ executed \subseteq Requests
  BY DEF DrawId, GatewayInv, UniqueIds, GatewayTypeOK
<1>2. r \notin executed
  BY <1>1 DEF GatewayInv, SentByTask, Sent
<1>3. \A q \in executed : cmd_id[q] < cmd_id_counter /\ cmd_id[q] # -1
  BY <1>1, <1>2 DEF GatewayInv, UniqueIds, SentByTask, Sent
<1>4. \A q \in Requests \ {r} : CommandOf(q)' = CommandOf(q)
  BY <1>1 DEF CommandOf
<1>5. \A i \in 1..Len(history) : history[i].cmd # CommandOf(r) /\ history[i].cmd # CommandOf(r)'
  <2>1. ASSUME NEW q \in executed PROVE cmd_id[q] # cmd_id[r] /\ cmd_id[q] # cmd_id'[r]
    BY <1>1, <1>3
  <2>2. ASSUME NEW q \in executed
        PROVE  CommandOf(q) # CommandOf(r) /\ CommandOf(q) # CommandOf(r)'
    BY <2>1 DEF CommandOf
  <2>3. OfGateway(CommandOf(r)) /\ OfGateway(CommandOf(r)')
    BY DEF OfGateway, CommandOf
  <2> QED BY <2>2, <2>3 DEF StoreInv, HistoryOfRequests
<1> QED BY <1>2, <1>4, <1>5 DEF At

-----------------------------------------------------------------------------
LEMMA StoreInvInit == ASSUME GatewayStoreInit PROVE StoreInv
  BY SameStore DEF GatewayStoreInit, GatewayInit, KV!KVInit, NewDatabase, Database, Option,
     StoreInv, StoreTypeOK, HistoryOfRequests, BodyOnSuccess

LEMMA StoreInvNext ==
  ASSUME GatewayInv, StoreInv, [GatewayStoreNext]_gatewayStoreVars
  PROVE  StoreInv'
<1> DEFINE HistoryKept == UNCHANGED <<history, store, command, cmd_id, executed>>
<1> USE DEF requestVars, sharedVars, taskVars, serverVars, storeVars
<1>1. executed \subseteq Requests
  BY DEF GatewayInv, GatewayTypeOK
<1>2. ASSUME HistoryKept PROVE StoreTypeOK' /\ HistoryOfRequests'
  BY <1>2 DEF StoreInv, StoreTypeOK, HistoryOfRequests, At, CommandOf
<1>3. ASSUME UNCHANGED <<status, body>> PROVE BodyOnSuccess'
  BY <1>3 DEF StoreInv, BodyOnSuccess
<1>4. ASSUME NEW r \in Requests, Own(Answered(r)) \/ Own(CleanUp(r)) PROVE StoreInv'
  <2>1. HistoryKept
    BY <1>4 DEF Own, Answered, CleanUp
  <2>2. /\ status \in [Requests -> {0, 200, 500, 503, 504}]
        /\ body \in [Requests -> Requests \cup {NoRequest}]
        /\ \A q \in Requests : status[q] # 0 => pc[q] = "done"
        /\ \A q \in Requests : body[q] # NoRequest => status[q] = 200
    BY DEF StoreInv, BodyOnSuccess, GatewayInv, GatewayTypeOK, Returned
  <2>3. BodyOnSuccess'
    <3>1. CASE Answered(r)
      BY <2>2, <3>1 DEF Answered, BodyOnSuccess
    <3>2. CASE CleanUp(r)
      <4>1. /\ pc[r] # "done" /\ UNCHANGED body
            /\ \A q \in Requests \ {r} : status'[q] = status[q]
        BY <2>2, <3>2 DEF CleanUp, ErrorStatus
      <4> QED BY <2>2, <4>1 DEF BodyOnSuccess
    <3> QED BY <1>4, <3>1, <3>2 DEF Own
  <2> QED BY <1>2, <2>1, <2>3 DEF StoreInv
<1>5. ASSUME NEW r \in Requests, Own(DrawId(r)) PROVE StoreInv'
  <2>1. DrawId(r) /\ UNCHANGED <<history, store, command, executed, status, body>>
    BY <1>5 DEF Own, DrawId
  <2>2. HistoryOfRequests'
    BY <1>1, <2>1, DrawIdKeepsPlaces DEF StoreInv, HistoryOfRequests
  <2> QED BY <1>3, <2>1, <2>2 DEF StoreInv, StoreTypeOK
<1>6. ASSUME NEW r \in Requests, Executes(r) PROVE StoreInv'
  <2>1. UNCHANGED <<command, cmd_id, status, body>>
    BY <1>6 DEF Executes, ServerExecutes
  <2>2. StoreTypeOK'
    BY <1>6, <2>1, ExecutesAppends DEF StoreInv, StoreTypeOK
  <2>3. \A q : CommandOf(q)' = CommandOf(q)
    BY <2>1 DEF CommandOf
  <2>4. HistoryOfRequests'
    <3>1. /\ executed' = executed \cup {r}
          /\ Len(history) \in Nat /\ Len(history') = Len(history) + 1
          /\ \A i \in 1..Len(history) : history'[i] = history[i]
          /\ history'[Len(history) + 1] = NewEntry(r)
          /\ At(r)' = {Len(history) + 1}
          /\ \A q \in Requests \ {r} : At(q)' = At(q)
      BY <1>6, ExecutesAppends
    <3>2. ASSUME NEW i \in 1..Len(history')
          PROVE  OfGateway(history'[i].cmd) => \E q \in executed' : history'[i].cmd = CommandOf(q)
      <4>1. CASE i \in 1..Len(history)
        BY <3>1, <4>1 DEF StoreInv, HistoryOfRequests
      <4>2. CASE i = Len(history) + 1
        BY <3>1, <4>2 DEF NewEntry
      <4> QED BY <3>1, <4>1, <4>2
    <3>3. ASSUME NEW q \in executed' PROVE \E k \in 1..Len(history') : At(q)' = {k}
      <4>1. CASE q = r
        BY <3>1, <4>1
      <4>2. CASE q # r
        <5>1. PICK k \in 1..Len(history) : At(q) = {k}
          BY <3>1, <4>2 DEF StoreInv, HistoryOfRequests
        <5>2. k \in 1..Len(history') /\ At(q)' = {k}
          BY <1>1, <3>1, <4>2, <5>1
        <5> QED BY <5>2
      <4> QED BY <4>1, <4>2
    <3>4. /\ \A i \in 1..Len(history') :
               OfGateway(history'[i].cmd) => \E q \in executed' : history'[i].cmd = CommandOf(q)'
          /\ \A q \in executed' : \E k \in 1..Len(history') : At(q)' = {k}
      BY <2>3, <3>2, <3>3
    <3> QED BY <3>4 DEF HistoryOfRequests, OfGateway
  <2> QED BY <1>3, <2>1, <2>2, <2>4 DEF StoreInv
<1>7. ASSUME NEW r \in Requests,
             \/ Own(InsertPending(r)) \/ Own(SendCommand(r)) \/ Own(SendFails(r))
             \/ Own(ChannelClosed(r)) \/ Own(TimesOut(r)) \/ Own(Cancel(r))
             \/ Own(ReceiveReply(r)) \/ Own(ServerLoses(r)) \/ Replies(r)
      PROVE  StoreInv'
  <2>1. HistoryKept /\ UNCHANGED <<status, body>>
    BY <1>7 DEF Own, InsertPending, SendCommand, SendFails, ChannelClosed, TimesOut, Cancel,
       ReceiveReply, ServerLoses, Replies, ServerReplies, KV!Respond
  <2> QED BY <1>2, <1>3, <2>1 DEF StoreInv
<1>8. ASSUME \/ Own(WriterStops) \/ Own(PassOn) \/ Own(ReaderStops) \/ Submits
             \/ UNCHANGED gatewayStoreVars
      PROVE  StoreInv'
  <2>1. HistoryKept /\ UNCHANGED <<status, body>>
    BY <1>8 DEF Own, WriterStops, PassOn, ReaderStops, Submits, WriteCommand, KV!Submit,
       gatewayStoreVars, gatewayVars
  <2> QED BY <1>2, <1>3, <2>1 DEF StoreInv
<1>9. ASSUME NEW r \in Requests, Own(RequestStep(r))
      PROVE  \/ Own(DrawId(r)) \/ Own(InsertPending(r)) \/ Own(SendCommand(r))
             \/ Own(SendFails(r)) \/ Own(Answered(r)) \/ Own(ChannelClosed(r))
             \/ Own(TimesOut(r)) \/ Own(CleanUp(r))
  BY <1>9 DEF Own, RequestStep
<1>10. ASSUME OtherSession(OtherSubmits) \/ OtherSession(OtherIsAnswered) PROVE StoreInv'
  <2>1. HistoryKept /\ UNCHANGED <<status, body>>
    BY <1>10 DEF OtherSession, OtherSubmits, OtherIsAnswered, KV!Submit, KV!Respond, gatewayVars
  <2> QED BY <1>2, <1>3, <2>1 DEF StoreInv
<1>11. ASSUME OtherSession(OtherTakesEffect) PROVE StoreInv'
  <2>1. UNCHANGED <<command, cmd_id, executed, status, body>>
    BY <1>11 DEF OtherSession, gatewayVars
  <2>2. /\ \A r \in Requests : At(r)' = At(r)
        /\ Len(history) \in Nat /\ Len(history') = Len(history) + 1
        /\ \A i \in 1..Len(history) : history'[i] = history[i]
        /\ ~OfGateway(history'[Len(history) + 1].cmd)
        /\ history' \in Seq(Entry) /\ store' \in Database
    BY <1>11, <2>1, OtherAppends DEF OtherSession
  <2>3. \A i \in 1..Len(history') : i \in 1..Len(history) \/ i = Len(history) + 1
    BY <2>2
  <2>4. \A cmd : OfGateway(cmd)' <=> OfGateway(cmd)
    BY DEF OfGateway
  <2>5. \A r : CommandOf(r)' = CommandOf(r)
    BY <2>1 DEF CommandOf
  <2>6. \A i \in 1..Len(history') :
          OfGateway(history'[i].cmd) => \E r \in executed : history'[i].cmd = CommandOf(r)
    BY <2>2, <2>3 DEF StoreInv, HistoryOfRequests
  <2>7. ASSUME NEW r \in executed PROVE \E k \in 1..Len(history') : At(r)' = {k}
    <3>1. PICK k \in 1..Len(history) : At(r) = {k}
      BY DEF StoreInv, HistoryOfRequests
    <3>2. k \in 1..Len(history') /\ At(r)' = {k}
      BY <1>1, <2>2, <3>1
    <3> QED BY <3>2
  <2>8. HistoryOfRequests'
    BY <2>1, <2>5, <2>6, <2>7 DEF HistoryOfRequests, OfGateway
  <2> QED BY <1>3, <2>1, <2>2, <2>8 DEF StoreInv, StoreTypeOK
<1> QED BY <1>4, <1>5, <1>6, <1>7, <1>8, <1>9, <1>10, <1>11 DEF GatewayStoreNext
-----------------------------------------------------------------------------
(* What the handler of r makes of a reply.                                 *)
Shown(r, reply) == IF command[r].op = "Get" THEN GetBody(reply) ELSE WriteBody(reply)

LEMMA ChosenPlace == ASSUME NEW k PROVE (CHOOSE i \in {k} : TRUE) = k
  OBVIOUS

(* The body made of the reply to q, from the place of its command.         *)
LEMMA BodyFromPlace ==
  ASSUME NEW r \in Requests, NEW q \in Requests, NEW k
  PROVE  /\ At(q) = {} => BodyOf(r, q) = NoResult
         /\ At(q)' = {} => BodyOf(r, q)' = NoResult
         /\ At(q) = {k} => BodyOf(r, q) = Shown(r, history[k].reply)
         /\ At(q)' = {k} => BodyOf(r, q)' = Shown(r, history[k].reply)'
  BY ChosenPlace DEF BodyOf, At, Shown

(* A body is kept when the place of the command and its reply are.         *)
LEMMA BodyKept ==
  ASSUME NEW r \in Requests, NEW q \in Requests, NEW k, UNCHANGED command,
         At(q) = {} \/ (At(q) = {k} /\ history'[k] = history[k]), At(q)' = At(q)
  PROVE  BodyOf(r, q)' = BodyOf(r, q)
  BY BodyFromPlace DEF Shown

(* A command that is not executed has no place.                            *)
LEMMA NoPlace ==
  ASSUME GatewayInv, StoreInv, NEW r \in Requests, r \notin executed
  PROVE  At(r) = {}
<1>1. ASSUME NEW i \in 1..Len(history) PROVE history[i].cmd # CommandOf(r)
  <2> SUFFICES ASSUME history[i].cmd = CommandOf(r) PROVE FALSE
    OBVIOUS
  <2>1. PICK q \in executed : history[i].cmd = CommandOf(q)
    BY DEF StoreInv, HistoryOfRequests, OfGateway, CommandOf
  <2>2. q \in Requests /\ q # r /\ pc[q] # "idle"
    BY DEF GatewayInv, GatewayTypeOK, SentByTask, Sent
  <2> QED BY <2>1, <2>2, CommandsDiffer
<1> QED BY <1>1 DEF At

(* An executed command has a body, one that is not executed has none.      *)
LEMMA BodyOfExecuted ==
  ASSUME GatewayInv, StoreInv, NEW r \in Requests
  PROVE  IF r \in executed THEN BodyOf(r, r) \in Bodies ELSE BodyOf(r, r) = NoResult
<1>1. CASE r \in executed
  <2>1. PICK k \in 1..Len(history) : At(r) = {k}
    BY <1>1 DEF StoreInv, HistoryOfRequests
  <2>2. history[k].reply \in Reply
    <3>1. history \in Seq(Entry)
      BY DEF StoreInv, StoreTypeOK
    <3>2. history[k] \in Entry
      BY <3>1
    <3> QED BY <3>2 DEF Entry
  <2>3. Shown(r, history[k].reply) \in Bodies
    BY <2>2 DEF Shown, GetBody, WriteBody, Bodies, Reply
  <2> QED BY <1>1, <2>1, <2>3, BodyFromPlace
<1>2. CASE r \notin executed
  <2>1. At(r) = {}
    BY <1>2, NoPlace
  <2> QED BY <1>2, <2>1, BodyFromPlace
<1> QED BY <1>1, <1>2

(* The abstract state.                                                     *)
Made == {r \in Requests : pc[r] # "idle"}
Effects == [r \in Requests |-> BodyOf(r, r)]
Responses ==
  [r \in Requests |->
    [status |-> status[r],
     result |-> IF body[r] = NoRequest THEN NoResult ELSE BodyOf(r, body[r])]]

LEMMA HttpStart == ASSUME GatewayStoreInit PROVE HTTP!HttpInit
<1>1. GatewayInv /\ StoreInv /\ executed = {}
  BY GatewayInvInit, StoreInvInit DEF GatewayStoreInit, GatewayInit
<1>2. \A r \in Requests : BodyOf(r, r) = NoResult
  BY <1>1, BodyOfExecuted
<1>3. /\ Effects = [r \in Requests |-> NoResult]
      /\ Responses = [r \in Requests |-> [status |-> 0, result |-> NoResult]]
      /\ Made = {}
  BY <1>2 DEF Effects, Responses, Made, GatewayStoreInit, GatewayInit
<1>4. command \in [Requests -> HTTP!KVCommand] /\ store = HTTP!NewDatabase
  BY DEF GatewayStoreInit, KV!KVInit, KV!NewDatabase, HTTP!NewDatabase, HTTP!KVCommand,
     KVCommand, HTTP!Put, Put, HTTP!Delete, Delete, HTTP!Get, Get
<1> QED BY <1>3, <1>4 DEF HTTP!HttpInit, Effects, Responses, Made

(* A request is given no body or that of its own executed command.         *)
LEMMA OwnBody ==
  ASSUME GatewayInv, StoreInv, NEW r \in Requests
  PROVE  body[r] = NoRequest \/ (body[r] = r /\ r \in executed)
  BY DEF GatewayInv, Returned, StoreInv, BodyOnSuccess

(* Steps that leave bodies and answers alone are no steps of HttpKV.       *)
LEMMA HttpStutter ==
  ASSUME \A r, q \in Requests : BodyOf(r, q)' = BodyOf(r, q),
         UNCHANGED <<command, store, status, body>>, GatewayInv,
         \A r \in Requests : pc'[r] = "idle" <=> pc[r] = "idle"
  PROVE  UNCHANGED HTTP!httpVars
<1>1. Made' = Made
  BY DEF Made
<1>2. Effects' = Effects
  BY DEF Effects
<1>3. Responses' = Responses
  BY DEF Responses, GatewayInv, GatewayTypeOK
<1> QED BY <1>1, <1>2, <1>3 DEF HTTP!httpVars, Made, Effects, Responses

LEMMA HttpMake ==
  ASSUME GatewayInv, StoreInv, NEW r \in Requests, Own(DrawId(r))
  PROVE  HTTP!HttpNext
<1>1. /\ DrawId(r) /\ pc[r] = "idle" /\ pc' = [pc EXCEPT ![r] = "insert"]
      /\ UNCHANGED <<command, store, status, body, executed, history>>
      /\ pc \in [Requests -> Place]
  BY DEF Own, DrawId, storeVars, serverVars, GatewayInv, GatewayTypeOK
<1>2. ASSUME NEW q \in Requests, NEW p \in Requests PROVE BodyOf(p, q)' = BodyOf(p, q)
  <2>1. CASE q = r
    BY <1>1, <2>1, DrawIdKeepsPlaces, BodyFromPlace
  <2>2. CASE q # r /\ q \in executed
    <3>1. PICK k \in 1..Len(history) : At(q) = {k}
      BY <2>2 DEF StoreInv, HistoryOfRequests
    <3>2. At(q)' = At(q)
      BY <1>1, <2>2, DrawIdKeepsPlaces
    <3> QED BY <1>1, <3>1, <3>2, BodyKept
  <2>3. CASE q # r /\ q \notin executed
    <3>1. At(q) = {}
      BY <2>3, NoPlace
    <3>2. At(q)' = At(q)
      BY <1>1, <2>3, DrawIdKeepsPlaces
    <3> QED BY <1>1, <3>1, <3>2, BodyKept
  <2> QED BY <2>1, <2>2, <2>3
<1>3. Made' = Made \cup {r} /\ r \notin Made
  BY <1>1 DEF Made
<1>4. Effects' = Effects
  BY <1>2 DEF Effects
<1>5. Responses' = Responses
  BY <1>1, <1>2 DEF Responses, GatewayInv, GatewayTypeOK
<1>6. HTTP!Make(r)
  BY <1>1, <1>3, <1>4, <1>5 DEF HTTP!Make, Made, Effects, Responses
<1> QED BY <1>6 DEF HTTP!HttpNext
LEMMA HttpTakeEffect ==
  ASSUME GatewayInv, StoreInv, NEW r \in Requests, Executes(r)
  PROVE  HTTP!HttpNext
<1>1. /\ UNCHANGED <<command, cmd_id, pc, status, body>>
      /\ body \in [Requests -> Requests \cup {NoRequest}]
  BY DEF Executes, ServerExecutes, requestVars, GatewayInv, GatewayTypeOK
<1>2. /\ r \notin executed /\ pc[r] # "idle" /\ status[r] # 503
      /\ store' = Effect(store, command[r])
      /\ \A q \in Requests \ {r} : At(q)' = At(q)
      /\ \A i \in 1..Len(history) : history'[i] = history[i]
  BY ExecutesAppends
<1>3. ASSUME NEW q \in Requests \ {r}, NEW p \in Requests PROVE BodyOf(p, q)' = BodyOf(p, q)
  <2>1. CASE q \in executed
    <3>1. PICK k \in 1..Len(history) : At(q) = {k}
      BY <2>1 DEF StoreInv, HistoryOfRequests
    <3> QED BY <1>1, <1>2, <3>1, BodyKept
  <2>2. CASE q \notin executed
    <3>1. At(q) = {}
      BY <2>2, NoPlace
    <3> QED BY <1>1, <1>2, <3>1, BodyKept
  <2> QED BY <2>1, <2>2
<1>4. BodyOf(r, r) = NoResult
  BY <1>2, BodyOfExecuted
<1>5. BodyOf(r, r)' = HTTP!Result(store, command[r])
  <2>1. /\ At(r)' = {Len(history) + 1}
        /\ history'[Len(history) + 1] = NewEntry(r)
    BY ExecutesAppends
  <2>2. PICK k : k = Len(history) + 1
    OBVIOUS
  <2>3. At(r)' = {k} /\ history'[k].reply = Answer(store, cmd_id[r], command[r])
    BY <2>1, <2>2 DEF NewEntry
  <2>4. BodyOf(r, r)' = Shown(r, history[k].reply)'
    BY <2>3, BodyFromPlace
  <2>5. command[r] \in KVCommand /\ command'[r] = command[r]
    BY <1>1 DEF StoreInv, StoreTypeOK
  <2>6. CASE command[r].op = "Get"
    <3>1. Answer(store, cmd_id[r], command[r]) = ReadReply(cmd_id[r], store[command[r].key])
      BY <2>6 DEF Answer
    <3>2. BodyOf(r, r)' = GetBody(ReadReply(cmd_id[r], store[command[r].key]))
      BY <2>3, <2>4, <2>5, <2>6, <3>1 DEF Shown
    <3> QED BY <2>6, <3>2 DEF GetBody, ReadReply, HTTP!Result
  <2>7. CASE command[r].op # "Get"
    BY <2>4, <2>5, <2>7 DEF Shown, WriteBody, HTTP!Result
  <2> QED BY <2>6, <2>7
<1>6. Made' = Made /\ r \in Made
  BY <1>1, <1>2 DEF Made
<1>7. Effects' = [Effects EXCEPT ![r] = HTTP!Result(store, command[r])]
  BY <1>3, <1>5 DEF Effects
<1>8. Responses' = Responses
  <2>1. ASSUME NEW q \in Requests, body[q] # NoRequest PROVE body[q] \in Requests \ {r}
    BY <1>2, <2>1, OwnBody
  <2> QED BY <1>1, <1>3, <2>1 DEF Responses
<1>9. Effects[r] = NoResult /\ Responses[r].status = status[r]
  BY <1>4 DEF Effects, Responses
<1>10. HTTP!Effect(store, command[r]) = Effect(store, command[r])
  BY DEF HTTP!Effect, Effect
<1>11. HTTP!TakeEffect(r)
  BY <1>1, <1>2, <1>6, <1>7, <1>8, <1>9, <1>10 DEF HTTP!TakeEffect, Made, Effects, Responses
<1> QED BY <1>11 DEF HTTP!HttpNext

LEMMA HttpReturn ==
  ASSUME GatewayInv, StoreInv, NEW r \in Requests, Own(Answered(r)) \/ Own(CleanUp(r))
  PROVE  HTTP!HttpNext
<1>1. /\ UNCHANGED <<command, cmd_id, history, store>>
      /\ pc' = [pc EXCEPT ![r] = "done"]
      /\ pc[r] \in {"wait", "unavailable", "closed", "timeout"}
  BY DEF Own, Answered, CleanUp, storeVars, ErrorStatus
<1>2. /\ pc \in [Requests -> Place]
      /\ body \in [Requests -> Requests \cup {NoRequest}]
      /\ status \in [Requests -> {0, 200, 500, 503, 504}]
      /\ status[r] = 0 /\ body[r] = NoRequest
  BY <1>1 DEF GatewayInv, GatewayTypeOK, Returned, StoreInv, BodyOnSuccess
<1>3. \A p, q : BodyOf(p, q)' = BodyOf(p, q)
  BY <1>1 DEF BodyOf, CommandOf
<1>4. Made' = Made /\ r \in Made
  BY <1>1, <1>2 DEF Made
<1>5. Effects' = Effects /\ Effects[r] = BodyOf(r, r)
  BY <1>3 DEF Effects
<1>6. Responses[r].status = 0
  BY <1>2 DEF Responses
<1>7. UNCHANGED <<command, Made, store, Effects>>
  BY <1>1, <1>4, <1>5
<1>8. /\ Responses = [q \in Requests |-> Responses[q]]
       /\ Responses' = [q \in Requests |-> Responses'[q]]
  BY DEF Responses
<1>9. CASE Answered(r)
  <2>1. /\ status' = [status EXCEPT ![r] = 200] /\ body' = [body EXCEPT ![r] = r]
        /\ r \in executed
    BY <1>9 DEF Answered, GatewayInv, ReplyPath
  <2>2. Responses' = [Responses EXCEPT ![r] = [status |-> 200, result |-> BodyOf(r, r)]]
    <3>1. /\ status'[r] = 200 /\ body'[r] = r /\ body'[r] # NoRequest
          /\ \A q \in Requests \ {r} : status'[q] = status[q] /\ body'[q] = body[q]
      BY <1>2, <2>1, GatewayAssumption
    <3>2. Responses'[r] = [status |-> 200, result |-> BodyOf(r, r)]
      BY <1>3, <3>1 DEF Responses
    <3>3. ASSUME NEW q \in Requests \ {r} PROVE Responses'[q] = Responses[q]
      BY <1>3, <3>1 DEF Responses
    <3> QED BY <3>2, <3>3, <1>8
  <2>3. BodyOf(r, r) # NoResult
    BY <2>1, BodyOfExecuted, GatewayStoreAssumption
  <2>4. /\ Effects[r] # NoResult
        /\ Responses' = [Responses EXCEPT ![r] = [status |-> 200, result |-> Effects[r]]]
    BY <1>5, <2>2, <2>3
  <2>5. HTTP!Return(r)
    BY <1>4, <1>6, <1>7, <2>4, Zenon DEF HTTP!Return, Made, Effects, Responses
  <2> QED BY <2>5 DEF HTTP!HttpNext
<1>10. CASE CleanUp(r)
  <2> DEFINE s == ErrorStatus[pc[r]]
  <2>1. /\ status' = [status EXCEPT ![r] = s] /\ UNCHANGED body
        /\ s \in {500, 503, 504}
        /\ s = 503 => pc[r] = "unavailable"
    <3>1. status' = [status EXCEPT ![r] = s] /\ UNCHANGED body
      BY <1>10 DEF CleanUp
    <3>2. pc[r] \in {"unavailable", "closed", "timeout"}
      BY <1>10 DEF CleanUp, ErrorStatus
    <3>3. s \in {500, 503, 504} /\ (s = 503 => pc[r] = "unavailable")
      BY <3>2 DEF ErrorStatus
    <3> QED BY <3>1, <3>3
  <2> HIDE DEF s
  <2>2. Responses' = [Responses EXCEPT ![r] = [status |-> s, result |-> NoResult]]
    <3>1. /\ status'[r] = s /\ body'[r] = NoRequest
          /\ \A q \in Requests \ {r} : status'[q] = status[q] /\ body'[q] = body[q]
      BY <1>2, <2>1
    <3>2. Responses'[r] = [status |-> s, result |-> NoResult]
      BY <3>1 DEF Responses
    <3>3. ASSUME NEW q \in Requests \ {r} PROVE Responses'[q] = Responses[q]
      BY <1>3, <3>1 DEF Responses
    <3> QED BY <3>2, <3>3, <1>8
  <2>3. ASSUME s = 503 PROVE BodyOf(r, r) = NoResult
    <3>1. r \notin executed
      BY <2>1, <2>3 DEF GatewayInv, SentByTask, Sent
    <3> QED BY <3>1, BodyOfExecuted
  <2>4. s = 503 => Effects[r] = NoResult
    BY <1>5, <2>3
  <2> DEFINE Errs(e) ==
               /\ e = 503 => Effects[r] = NoResult
               /\ Responses' = [Responses EXCEPT ![r] = [status |-> e, result |-> NoResult]]
  <2>5. \E e \in {500, 503, 504} : Errs(e)
    <3>1. Errs(s)
      BY <2>2, <2>4
    <3> HIDE DEF Errs
    <3> QED BY <2>1, <3>1
  <2>6. HTTP!Return(r)
    BY <1>4, <1>6, <1>7, <2>5, Zenon DEF HTTP!Return, Made, Effects, Responses
  <2> QED BY <2>6 DEF HTTP!HttpNext
<1> QED BY <1>9, <1>10 DEF Own

LEMMA HttpOther ==
  ASSUME GatewayInv, StoreInv, OtherSession(OtherTakesEffect)
  PROVE  HTTP!HttpNext
<1>1. UNCHANGED <<command, cmd_id, executed, pc, status, body>>
  BY DEF OtherSession, gatewayVars, requestVars, taskVars, sharedVars, serverVars
<1>2. /\ \A r \in Requests : At(r)' = At(r)
      /\ \A i \in 1..Len(history) : history'[i] = history[i]
      /\ \E cmd \in KVCommand : store' = Effect(store, cmd)
  BY <1>1, OtherAppends DEF OtherSession
<1>3. ASSUME NEW q \in Requests, NEW p \in Requests PROVE BodyOf(p, q)' = BodyOf(p, q)
  <2>1. CASE q \in executed
    <3>1. PICK k \in 1..Len(history) : At(q) = {k}
      BY <2>1 DEF StoreInv, HistoryOfRequests
    <3> QED BY <1>1, <1>2, <3>1, BodyKept
  <2>2. CASE q \notin executed
    <3>1. At(q) = {}
      BY <2>2, NoPlace
    <3> QED BY <1>1, <1>2, <3>1, BodyKept
  <2> QED BY <2>1, <2>2
<1>4. Made' = Made /\ Effects' = Effects
  BY <1>1, <1>3 DEF Made, Effects
<1>5. Responses' = Responses
  BY <1>1, <1>3 DEF Responses, GatewayInv, GatewayTypeOK
<1>6. \E cmd \in HTTP!KVCommand : store' = HTTP!Effect(store, cmd)
  <2>1. HTTP!KVCommand = KVCommand
    BY DEF HTTP!KVCommand, KVCommand, HTTP!Put, Put, HTTP!Delete, Delete, HTTP!Get, Get
  <2>2. \A db, cmd : HTTP!Effect(db, cmd) = Effect(db, cmd)
    BY DEF HTTP!Effect, Effect
  <2> QED BY <1>2, <2>1, <2>2
<1>7. HTTP!OtherEffect
  BY <1>1, <1>4, <1>5, <1>6 DEF HTTP!OtherEffect, Made, Effects, Responses
<1> QED BY <1>7 DEF HTTP!HttpNext

LEMMA HttpStep ==
  ASSUME GatewayInv, StoreInv, [GatewayStoreNext]_gatewayStoreVars
  PROVE  [HTTP!HttpNext]_(HTTP!httpVars)
<1> DEFINE Frame == /\ UNCHANGED <<history, store, command, cmd_id, status, body>>
                    /\ \A r \in Requests : pc'[r] = "idle" <=> pc[r] = "idle"
<1> USE DEF requestVars, sharedVars, taskVars, serverVars, storeVars
<1>1. ASSUME Frame PROVE UNCHANGED HTTP!httpVars
  <2>1. \A p, q : BodyOf(p, q)' = BodyOf(p, q)
    BY <1>1 DEF BodyOf, CommandOf
  <2> QED BY <1>1, <2>1, HttpStutter
<1>2. ASSUME NEW r \in Requests,
             \/ Own(InsertPending(r)) \/ Own(SendCommand(r)) \/ Own(SendFails(r))
             \/ Own(ChannelClosed(r)) \/ Own(TimesOut(r)) \/ Own(Cancel(r))
      PROVE  Frame
  BY <1>2 DEF Own, InsertPending, SendCommand, SendFails, ChannelClosed, TimesOut, Cancel,
     GatewayInv, GatewayTypeOK
<1>3. ASSUME NEW r \in Requests,
             Own(ReceiveReply(r)) \/ Own(ServerLoses(r)) \/ Replies(r)
      PROVE  Frame
  BY <1>3 DEF Own, ReceiveReply, ServerLoses, Replies, ServerReplies, KV!Respond
<1>4. ASSUME \/ Own(WriterStops) \/ Own(PassOn) \/ Own(ReaderStops) \/ Submits
             \/ UNCHANGED gatewayStoreVars
      PROVE  Frame
  BY <1>4 DEF Own, WriterStops, PassOn, ReaderStops, Submits, WriteCommand, KV!Submit,
     gatewayStoreVars, gatewayVars
<1>5. ASSUME NEW r \in Requests, Own(RequestStep(r))
      PROVE  \/ Own(DrawId(r)) \/ Own(InsertPending(r)) \/ Own(SendCommand(r))
             \/ Own(SendFails(r)) \/ Own(Answered(r)) \/ Own(ChannelClosed(r))
             \/ Own(TimesOut(r)) \/ Own(CleanUp(r))
  BY <1>5 DEF Own, RequestStep
<1>6. ASSUME OtherSession(OtherSubmits) \/ OtherSession(OtherIsAnswered) PROVE Frame
  BY <1>6 DEF OtherSession, OtherSubmits, OtherIsAnswered, KV!Submit, KV!Respond, gatewayVars
<1> HIDE DEF Frame
<1> QED BY <1>1, <1>2, <1>3, <1>4, <1>5, <1>6, HttpMake, HttpTakeEffect, HttpReturn, HttpOther
        DEF GatewayStoreNext

(* The gateway in front of a linearizable store is a linearizable store    *)
(* over HTTP: a 200 carries the result its own command had at one moment   *)
(* during the request, a command takes effect at most once, and never if   *)
(* the request returns 503, however timeouts, cancellations, late replies  *)
(* and the ends of writer_task and reader_task fall (submit_command,       *)
(* get_handler, put_handler, delete_handler).                              *)
THEOREM ImplementsHttpKV == GatewayStoreSpec => HttpLinearizable
<1>1. GatewayStoreInit => GatewayInv /\ StoreInv /\ HTTP!HttpInit
  BY GatewayInvInit, StoreInvInit, HttpStart DEF GatewayStoreInit
<1>2. GatewayInv /\ StoreInv /\ [GatewayStoreNext]_gatewayStoreVars
        => GatewayInv' /\ StoreInv' /\ [HTTP!HttpNext]_(HTTP!httpVars)
  BY StepOfGateway, GatewayInvNext, StoreInvNext, HttpStep
<1> QED BY <1>1, <1>2, PTL DEF GatewayStoreSpec, HttpLinearizable, HTTP!HttpSpec
=============================================================================
