------------------------------- MODULE Client -------------------------------
(***************************************************************************)
(* The benchmark client (client/client.rs, network.rs, data_collection.rs) *)
(* and its connection to one server: the event loop, the reader and the    *)
(* writer task, the bounded channels between them, and the records that    *)
(* responses are matched with.                                             *)
(*                                                                         *)
(* The server is external: it reads whatever the client sends, executes a  *)
(* request at most once, in any order, and queues its answers without a    *)
(* limit.  Every other stage is bounded: while the loop waits in           *)
(* send_request it reads nothing, and what is full stays full.  The        *)
(* connection may break.  Time is left to the order of the timers.         *)
(***************************************************************************)
EXTENDS Integers, Sequences, FiniteSets, SequencesExt

CONSTANTS
  Workloads,  (* values of config.requests: sequences of intervals         *)
  QueueCap,   (* NETWORK_BATCH_SIZE: capacity of the channels              *)
  WireCap,    (* messages one direction of the TCP stream holds            *)
  MaxTicks,   (* bound: request ticks per interval                         *)
  NoCount,    (* None of final_request_count                               *)
  StartSignal (* the message that is not a response                        *)

Interval == [duration_sec : Nat, requests_per_sec : Nat]

ASSUME ClientAssumption ==
  /\ \A w \in Workloads : w \in Seq(Interval)
  /\ QueueCap \in Nat \ {0}
  /\ WireCap \in Nat \ {0}
  /\ MaxTicks \in Nat \ {0}
  /\ NoCount \notin Nat
  /\ StartSignal \notin Nat

VARIABLES
  phase,           (* where the loop is: "connecting", "waiting" for the   *)
                   (* start signal, "running", "sending", "done",          *)
                   (* "panicked" or, without a connection, "unregistered"  *)
  requests,        (* config.requests                                      *)
  interval,        (* index of the current interval                        *)
  ticks,           (* request ticks taken in it                            *)
  final_request_count,
  next_request_id,
  is_write,        (* the request being sent writes                        *)
  request_data,    (* the records: [write, answered]                       *)
  response_count,
  slot,            (* the connection is in server_connections              *)
  outgoing,        (* the channel to the writer task                       *)
  buffer,          (* the batch the writer task is sending                 *)
  writer,          (* "running" or "stopped"                               *)
  server_messages, (* the channel from the reader task                     *)
  stream,          (* "up" or "broken"                                     *)
  to_server, from_server,  (* the two directions of the stream             *)
  started,         (* the server has sent its start signal                 *)
  received,        (* requests the server has read, in order               *)
  executed,        (* ids of those it has executed                         *)
  replies          (* its queue of answers                                 *)

loopVars   == <<phase, requests, interval, ticks, final_request_count, is_write>>
dataVars   == <<next_request_id, request_data, response_count>>
taskVars   == <<slot, outgoing, buffer, writer>>
wireVars   == <<stream, to_server, from_server>>
serverVars == <<started, received, executed, replies>>
clientVars == <<loopVars, dataVars, taskVars, server_messages, wireVars, serverVars>>

ClientInit ==
  /\ phase = "connecting"
  /\ requests \in Workloads
  /\ interval = 0
  /\ ticks = 0
  /\ final_request_count = NoCount
  /\ next_request_id = 0
  /\ is_write = FALSE
  /\ request_data = << >>
  /\ response_count = 0
  /\ slot = FALSE
  /\ outgoing = << >>
  /\ buffer = << >>
  /\ writer = "running"
  /\ server_messages = << >>
  /\ stream = "up"
  /\ to_server = << >>
  /\ from_server = << >>
  /\ started = FALSE
  /\ received = << >>
  /\ executed = {}
  /\ replies = << >>

-----------------------------------------------------------------------------
(* Connecting: attempts that fail are repeated and leave no trace.         *)

Connect ==
  /\ phase = "connecting"
  /\ phase' = "waiting"
  /\ slot' = TRUE
  /\ UNCHANGED <<requests, interval, ticks, final_request_count, is_write, dataVars,
                 outgoing, buffer, writer, server_messages, wireVars, serverVars>>

(* The connection was made but the registration cannot be sent: the task   *)
(* panics, and initialize_connections with it.                             *)
RegistrationFails ==
  /\ phase = "connecting"
  /\ phase' = "unregistered"
  /\ UNCHANGED <<requests, interval, ticks, final_request_count, is_write, dataVars,
                 taskVars, server_messages, wireVars, serverVars>>

-----------------------------------------------------------------------------
(* run.                                                                    *)

(* Milliseconds; the assertion of get_request_delay fails for 0.           *)
RequestDelay(requests_per_sec) ==
  IF requests_per_sec = 0 THEN 999999000 ELSE 1000 \div requests_per_sec

(* tokio's interval() panics on a period of zero.                          *)
Usable(i) == i.duration_sec # 0 /\ RequestDelay(i.requests_per_sec) # 0

(* The first message is handled; the sleep until the start time only puts  *)
(* this step off.                                                          *)
Start ==
  /\ phase = "waiting"
  /\ server_messages # << >>
  /\ server_messages' = Tail(server_messages)
  /\ interval' = 1
  /\ phase' = CASE Head(server_messages) # StartSignal -> "panicked"
                [] Head(server_messages) = StartSignal /\ requests = << >> -> "done"
                [] OTHER -> IF Usable(requests[1]) THEN "running" ELSE "panicked"
  /\ UNCHANGED <<requests, ticks, final_request_count, is_write, dataVars, taskVars,
                 wireVars, serverVars>>

(* The first tick of an interval() is due at once, so even an interval of  *)
(* rate 0 sends one request.  The select is biased: server messages first. *)
RequestTick ==
  /\ phase = "running"
  /\ server_messages = << >>
  /\ final_request_count = NoCount
  /\ \/ ticks = 0
     \/ requests[interval].requests_per_sec > 0 /\ ticks < MaxTicks
  /\ ticks' = ticks + 1
  /\ is_write' \in BOOLEAN
  /\ phase' = "sending"
  /\ UNCHANGED <<requests, interval, final_request_count, dataVars, taskVars,
                 server_messages, wireVars, serverVars>>

NewRequest == Append(request_data, [write |-> is_write, answered |-> FALSE])

\* Fault: the id is advanced before it is used.
SendRequestFromOne ==
  /\ phase = "sending"
  /\ writer = "running" /\ Len(outgoing) < QueueCap
  /\ outgoing' = Append(outgoing, [id |-> next_request_id + 1, write |-> is_write])
  /\ request_data' = NewRequest
  /\ next_request_id' = next_request_id + 1
  /\ phase' = "running"
  /\ UNCHANGED <<slot, requests, interval, ticks, final_request_count, is_write,
                 response_count, buffer, writer, server_messages, wireVars, serverVars>>

\* Fault: a request is dropped when the channel is full.
SendRequestTry ==
  /\ phase = "sending"
  /\ outgoing' = IF slot /\ writer = "running" /\ Len(outgoing) < QueueCap
                 THEN Append(outgoing, [id |-> next_request_id, write |-> is_write])
                 ELSE outgoing
  /\ slot' = (slot /\ writer = "running")
  /\ request_data' = NewRequest
  /\ next_request_id' = next_request_id + 1
  /\ phase' = "running"
  /\ UNCHANGED <<requests, interval, ticks, final_request_count, is_write,
                 response_count, buffer, writer, server_messages, wireVars, serverVars>>

(* Network::send waits for room in the channel; when the writer task is    *)
(* gone, the connection is dropped.                                        *)
NetworkSend(request) ==
  IF slot /\ writer = "running"
  THEN /\ Len(outgoing) < QueueCap
       /\ outgoing' = Append(outgoing, request)
       /\ UNCHANGED slot
  ELSE /\ slot' = FALSE
       /\ UNCHANGED outgoing

(* send_request: sent or not, the request is recorded.                     *)
SendRequest ==
  /\ phase = "sending"
  /\ NetworkSend([id |-> next_request_id, write |-> is_write])
  /\ request_data' = NewRequest
  /\ next_request_id' = next_request_id + 1
  /\ phase' = "running"
  /\ UNCHANGED <<requests, interval, ticks, final_request_count, is_write,
                 response_count, buffer, writer, server_messages, wireVars, serverVars>>

\* Fault: the run ends when all responses have come.
RunFinishedAnswered(final) == final # NoCount /\ response_count >= final

(* final_request_count is taken from the same count: the run is over as    *)
(* soon as it is set, whatever responses are missing.                      *)
RunFinished(final) == final # NoCount /\ Len(request_data) >= final

(* network.shutdown aborts both tasks; what they had not sent is dropped.  *)
Shutdown ==
  /\ slot' = FALSE
  /\ outgoing' = << >>
  /\ buffer' = << >>
  /\ writer' = "stopped"

(* Leave the loop when the run has finished.                               *)
EndOfRound(final) ==
  IF RunFinished(final)
  THEN phase' = "done" /\ Shutdown
  ELSE phase' = "running" /\ UNCHANGED taskVars

\* Fault: the next record without a response is taken to be the one.
NewResponseInOrder(id) ==
  /\ request_data' = [request_data EXCEPT ![response_count + 1].answered = TRUE]
  /\ response_count' = response_count + 1

NewResponse(id) ==
  /\ request_data' = [request_data EXCEPT ![id + 1].answered = TRUE]
  /\ response_count' = response_count + 1

(* A response without a record is an index out of bounds.                  *)
HandleServerMessage ==
  /\ phase = "running"
  /\ server_messages # << >>
  /\ server_messages' = Tail(server_messages)
  /\ LET m == Head(server_messages) IN
       IF m = StartSignal \/ m + 1 \in DOMAIN request_data
       THEN /\ IF m = StartSignal
               THEN UNCHANGED <<request_data, response_count>>
               ELSE NewResponse(m)
            /\ EndOfRound(final_request_count)
       ELSE /\ phase' = "panicked"
            /\ UNCHANGED <<request_data, response_count, taskVars>>
  /\ UNCHANGED <<requests, interval, ticks, final_request_count, is_write,
                 next_request_id, wireVars, serverVars>>

(* next_interval has ended.  Its timer runs for at least a second, so the  *)
(* first request tick has been taken.                                      *)
IntervalEnds ==
  /\ phase = "running"
  /\ server_messages = << >>
  /\ ticks > 0

NextInterval ==
  /\ IntervalEnds
  /\ interval < Len(requests)
  /\ interval' = interval + 1
  /\ ticks' = 0
  /\ phase' = IF Usable(requests[interval + 1]) THEN "running" ELSE "panicked"
  /\ UNCHANGED <<requests, final_request_count, is_write, dataVars, taskVars,
                 server_messages, wireVars, serverVars>>

LastIntervalEnds ==
  /\ IntervalEnds
  /\ interval = Len(requests)
  /\ final_request_count' = Len(request_data)
  /\ EndOfRound(final_request_count')
  /\ UNCHANGED <<requests, interval, ticks, is_write, dataVars, server_messages,
                 wireVars, serverVars>>

-----------------------------------------------------------------------------
(* The tasks of the connection: spawned when it is made, gone with run.    *)

Alive == phase \in {"waiting", "running", "sending"}

(* The writer task.                                                        *)

(* recv_many: QueueCap is also the size of a batch.                        *)
TakeBatch ==
  /\ Alive
  /\ writer = "running"
  /\ buffer = << >>
  /\ outgoing # << >>
  /\ buffer' = outgoing
  /\ outgoing' = << >>
  /\ UNCHANGED <<loopVars, dataVars, slot, writer, server_messages, wireVars, serverVars>>

(* On a broken stream a write may still succeed; its message is lost.      *)
WriteRequest ==
  /\ Alive
  /\ writer = "running"
  /\ buffer # << >>
  /\ buffer' = Tail(buffer)
  /\ \/ /\ stream = "up"
        /\ Len(to_server) < WireCap
        /\ to_server' = Append(to_server, Head(buffer))
     \/ stream = "broken" /\ UNCHANGED to_server
  /\ UNCHANGED <<loopVars, dataVars, slot, outgoing, writer, server_messages, stream,
                 from_server, serverVars>>

WriterStops ==
  /\ Alive
  /\ writer = "running"
  /\ stream = "broken"
  /\ buffer # << >>
  /\ writer' = "stopped"
  /\ buffer' = << >>
  /\ outgoing' = << >>
  /\ UNCHANGED <<loopVars, dataVars, slot, server_messages, wireVars, serverVars>>

-----------------------------------------------------------------------------
(* The reader task.                                                        *)

\* Fault: a message is dropped when the channel is full.
ReadMessageTry ==
  /\ Alive
  /\ from_server # << >>
  /\ server_messages' = IF Len(server_messages) < QueueCap
                        THEN Append(server_messages, Head(from_server))
                        ELSE server_messages
  /\ from_server' = Tail(from_server)
  /\ UNCHANGED <<loopVars, dataVars, taskVars, stream, to_server, serverVars>>

(* The chunk it has read counts as part of the stream.  At the end of the  *)
(* stream the task ends; the channel stays open, Network holds a sender.   *)
ReadMessage ==
  /\ Alive
  /\ from_server # << >>
  /\ Len(server_messages) < QueueCap
  /\ server_messages' = Append(server_messages, Head(from_server))
  /\ from_server' = Tail(from_server)
  /\ UNCHANGED <<loopVars, dataVars, taskVars, stream, to_server, serverVars>>

-----------------------------------------------------------------------------
(* The stream and the server.                                              *)

(* What is under way may be cut at any point.                              *)
Break ==
  /\ phase # "connecting"
  /\ stream = "up"
  /\ stream' = "broken"
  /\ \E i \in 0..Len(to_server) : to_server' = SubSeq(to_server, 1, i)
  /\ \E i \in 0..Len(from_server) : from_server' = SubSeq(from_server, 1, i)
  /\ UNCHANGED <<loopVars, dataVars, taskVars, server_messages, serverVars>>

ServerStarts ==
  /\ phase # "connecting"
  /\ ~started
  /\ started' = TRUE
  /\ replies' = Append(replies, StartSignal)
  /\ UNCHANGED <<loopVars, dataVars, taskVars, server_messages, wireVars, received,
                 executed>>

ServerReads ==
  /\ to_server # << >>
  /\ received' = Append(received, Head(to_server))
  /\ to_server' = Tail(to_server)
  /\ UNCHANGED <<loopVars, dataVars, taskVars, server_messages, stream, from_server,
                 started, executed, replies>>

(* A request that is lost is one this never happens to.                    *)
ServerExecutes ==
  /\ \E i \in DOMAIN received :
       /\ received[i].id \notin executed
       /\ executed' = executed \cup {received[i].id}
       /\ replies' = Append(replies, received[i].id)
  /\ UNCHANGED <<loopVars, dataVars, taskVars, server_messages, wireVars, started,
                 received>>

ServerWrites ==
  /\ replies # << >>
  /\ stream = "up"
  /\ Len(from_server) < WireCap
  /\ from_server' = Append(from_server, Head(replies))
  /\ replies' = Tail(replies)
  /\ UNCHANGED <<loopVars, dataVars, taskVars, server_messages, stream, to_server,
                 started, received, executed>>

-----------------------------------------------------------------------------
LoopStep == Start \/ RequestTick \/ SendRequest \/ HandleServerMessage
            \/ NextInterval \/ LastIntervalEnds

WriterStep == TakeBatch \/ WriteRequest \/ WriterStops

ClientNext ==
  \/ Connect \/ RegistrationFails
  \/ LoopStep
  \/ WriterStep
  \/ ReadMessage
  \/ Break
  \/ ServerStarts \/ ServerReads \/ ServerExecutes \/ ServerWrites

ClientSpec == ClientInit /\ [][ClientNext]_clientVars

(* The tasks of the client run and its timers go on, and the server keeps  *)
(* reading: its own queues to clients are unbounded, so that it never      *)
(* waits for this client.  Nothing is assumed about its answers.  MaxTicks *)
(* is an assumption here: request ticks come before the end of an interval *)
(* in the biased select, and if sends took longer than the request delay   *)
(* forever, the interval would not end.                                    *)
ClientFairSpec ==
  /\ ClientSpec
  /\ WF_clientVars(LoopStep)
  /\ WF_clientVars(WriterStep)
  /\ WF_clientVars(ServerReads)

-----------------------------------------------------------------------------
(* Properties.                                                             *)

(* The two panics of the loop that depend on the server do not happen: the *)
(* first message is the start signal, and each response finds its record.  *)
(* Only an interval that is not usable makes the loop panic.               *)
PanicsOnlyByConfig ==
  phase = "panicked" => ~ Usable(requests[interval])

(* The saved results are true: a record that shows a response belongs to a *)
(* request that was executed, of the kind it says, and the number of       *)
(* responses is the number of such records.                                *)
RecordsTruthful ==
  /\ response_count = Cardinality({k \in DOMAIN request_data : request_data[k].answered})
  /\ \A k \in DOMAIN request_data : request_data[k].answered =>
       /\ k - 1 \in executed
       /\ \E i \in DOMAIN received :
            received[i] = [id |-> k - 1, write |-> request_data[k].write]

(* However sends wait and fail, the server reads the recorded requests     *)
(* from the first one on, none missing, none twice, none out of order.     *)
ReceivedInOrder ==
  /\ Len(received) <= Len(request_data)
  /\ \A i \in DOMAIN received :
       received[i] = [id |-> i - 1, write |-> request_data[i].write]

(* A response gets lost only with the connection or at the end of the run: *)
(* until then it is recorded or on its way, however full the channels are. *)
NoResponseLost ==
  stream = "up" /\ phase \in {"running", "sending"} =>
    \A id \in executed :
      \/ request_data[id + 1].answered
      \/ Contains(replies, id) \/ Contains(from_server, id) \/ Contains(server_messages, id)

(* Once started, the client comes to its end if each interval has finitely *)
(* many request ticks, although the loop reads no responses while it waits *)
(* for room, connections fail, and responses may never come.               *)
ClientFinishes == phase = "running" ~> phase \in {"done", "panicked"}
=============================================================================
