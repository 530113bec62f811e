------------------------------ MODULE Gateway ------------------------------
(***************************************************************************)
(* The HTTP gateway (gateway/main.rs): concurrent HTTP requests share one  *)
(* TCP connection to a server and are matched with the replies through     *)
(* the map pending.                                                        *)
(*                                                                         *)
(* Each request is a task running submit_command, which other tasks can    *)
(* interleave with at every await: the two uses of the lock of pending,    *)
(* the send into the bounded channel tcp_tx, and the wait for the answer.  *)
(* Next to them run writer_task and reader_task.  An HTTP client that goes *)
(* away cancels its task at such a point.                                  *)
(*                                                                         *)
(* The server is external: it executes a command it receives at most once  *)
(* and answers in any order, late or never; either direction of the        *)
(* connection may fail.  A command is named by the request it comes from.  *)
(***************************************************************************)
EXTENDS Integers, Sequences, FiniteSets

CONSTANTS
  Requests,    (* HTTP requests                                            *)
  QueueCap,    (* NETWORK_BATCH_SIZE: capacity of the channel tcp_tx       *)
  NoRequest    (* reader_task holds no answer                              *)

ASSUME GatewayAssumption ==
  /\ QueueCap \in Nat \ {0}
  /\ NoRequest \notin Requests
  /\ Requests \cap {"open", "closed"} = {}

VARIABLES
  cmd_id_counter,  (* the shared AtomicUsize                               *)
  cmd_id,          (* cmd_id[r]: the id request r drew, -1 before          *)
  pc,              (* pc[r]: where the task of r is                        *)
  pending,         (* ids with a oneshot sender in the map                 *)
  answer,          (* answer[r]: the oneshot channel of r: "open",         *)
                   (* "closed", or the request whose reply it holds        *)
  status,          (* status[r]: HTTP status returned, 0 before            *)
  body,            (* body[r]: the command whose result r was given        *)
  tcp_tx,          (* the channel to writer_task                           *)
  writer,          (* writer_task: "running" or "stopped"                  *)
  reader,          (* reader_task: "running", "sending" or "stopped"       *)
  reader_answer,   (* the reply reader_task is about to pass on            *)
  at_server,       (* commands the server has received, not yet executed   *)
  executed,        (* commands the server has executed                     *)
  replied,         (* commands whose reply it has sent                     *)
  from_server      (* replies on the wire                                  *)

requestVars == <<cmd_id_counter, cmd_id, pc, status, body>>
sharedVars  == <<pending, answer>>
taskVars    == <<tcp_tx, writer, reader, reader_answer>>
serverVars  == <<at_server, executed, replied, from_server>>
gatewayVars == <<requestVars, sharedVars, taskVars, serverVars>>

GatewayInit ==
  /\ cmd_id_counter = 0
  /\ cmd_id = [r \in Requests |-> -1]
  /\ pc = [r \in Requests |-> "idle"]
  /\ pending = {}
  /\ answer = [r \in Requests |-> "open"]
  /\ status = [r \in Requests |-> 0]
  /\ body = [r \in Requests |-> NoRequest]
  /\ tcp_tx = << >>
  /\ writer = "running"
  /\ reader = "running"
  /\ reader_answer = NoRequest
  /\ at_server = {}
  /\ executed = {}
  /\ replied = {}
  /\ from_server = {}

(* The request whose oneshot sender is stored under id.                    *)
Waiter(id) == CHOOSE r \in Requests : cmd_id[r] = id

-----------------------------------------------------------------------------
(* submit_command.                                                         *)

\* Fault: the counter is read and written back in two steps; two requests
\* may draw the same id.
DrawIdRacy(r) ==
  /\ pc[r] = "idle"
  /\ cmd_id' = [cmd_id EXCEPT ![r] = cmd_id_counter]
  /\ cmd_id_counter' \in {cmd_id_counter, cmd_id_counter + 1}
  /\ pc' = [pc EXCEPT ![r] = "insert"]
  /\ UNCHANGED <<status, body, sharedVars, taskVars, serverVars>>

(* fetch_add.                                                              *)
DrawId(r) ==
  /\ pc[r] = "idle"
  /\ cmd_id' = [cmd_id EXCEPT ![r] = cmd_id_counter]
  /\ cmd_id_counter' = cmd_id_counter + 1
  /\ pc' = [pc EXCEPT ![r] = "insert"]
  /\ UNCHANGED <<status, body, sharedVars, taskVars, serverVars>>

InsertPending(r) ==
  /\ pc[r] = "insert"
  /\ pending' = pending \cup {cmd_id[r]}
  /\ pc' = [pc EXCEPT ![r] = "send"]
  /\ UNCHANGED <<cmd_id_counter, cmd_id, status, body, answer, taskVars, serverVars>>

(* send waits for room and fails when writer_task is gone.                 *)
SendCommand(r) ==
  /\ pc[r] = "send"
  /\ writer = "running"
  /\ Len(tcp_tx) < QueueCap
  /\ tcp_tx' = Append(tcp_tx, r)
  /\ pc' = [pc EXCEPT ![r] = "wait"]
  /\ UNCHANGED <<cmd_id_counter, cmd_id, status, body, sharedVars, writer, reader,
                 reader_answer, serverVars>>

SendFails(r) ==
  /\ pc[r] = "send"
  /\ writer = "stopped"
  /\ pc' = [pc EXCEPT ![r] = "unavailable"]
  /\ UNCHANGED <<cmd_id_counter, cmd_id, status, body, sharedVars, taskVars, serverVars>>

(* The answer is there: timeout polls the channel before the clock.        *)
Answered(r) ==
  /\ pc[r] = "wait"
  /\ answer[r] \in Requests
  /\ status' = [status EXCEPT ![r] = 200]
  /\ body' = [body EXCEPT ![r] = answer[r]]
  /\ pc' = [pc EXCEPT ![r] = "done"]
  /\ UNCHANGED <<cmd_id_counter, cmd_id, sharedVars, taskVars, serverVars>>

(* The sender was dropped.                                                 *)
ChannelClosed(r) ==
  /\ pc[r] = "wait"
  /\ answer[r] = "closed"
  /\ pc' = [pc EXCEPT ![r] = "closed"]
  /\ UNCHANGED <<cmd_id_counter, cmd_id, status, body, sharedVars, taskVars, serverVars>>

\* Fault: the answer is awaited without a timeout.
TimesOutNever(r) == pc[r] = "wait" /\ FALSE /\ UNCHANGED gatewayVars

TimesOut(r) ==
  /\ pc[r] = "wait"
  /\ answer[r] = "open"
  /\ pc' = [pc EXCEPT ![r] = "timeout"]
  /\ UNCHANGED <<cmd_id_counter, cmd_id, status, body, sharedVars, taskVars, serverVars>>

\* Fault: a timeout is reported as 503.
ErrorStatusOneForAll == [unavailable |-> 503, closed |-> 500, timeout |-> 503]

ErrorStatus == [unavailable |-> 503, closed |-> 500, timeout |-> 504]

\* Fault: the error paths do not clean up.
CleanUpNothing(r) ==
  /\ pc[r] \in DOMAIN ErrorStatus
  /\ status' = [status EXCEPT ![r] = ErrorStatus[pc[r]]]
  /\ pc' = [pc EXCEPT ![r] = "done"]
  /\ UNCHANGED <<cmd_id_counter, cmd_id, body, sharedVars, taskVars, serverVars>>

(* The three error paths end alike: remove the entry, return the error.    *)
CleanUp(r) ==
  /\ pc[r] \in DOMAIN ErrorStatus
  /\ pending' = pending \ {cmd_id[r]}
  /\ status' = [status EXCEPT ![r] = ErrorStatus[pc[r]]]
  /\ pc' = [pc EXCEPT ![r] = "done"]
  /\ UNCHANGED <<cmd_id_counter, cmd_id, body, answer, taskVars, serverVars>>

(* The HTTP client disconnects and the task is dropped where it waits; its *)
(* entry stays in pending.                                                 *)
Cancel(r) ==
  /\ pc[r] \notin {"idle", "done", "cancelled"}
  /\ pc' = [pc EXCEPT ![r] = "cancelled"]
  /\ UNCHANGED <<cmd_id_counter, cmd_id, status, body, sharedVars, taskVars, serverVars>>

-----------------------------------------------------------------------------
(* writer_task.                                                            *)

WriteCommand ==
  /\ writer = "running"
  /\ tcp_tx # << >>
  /\ at_server' = at_server \cup {Head(tcp_tx)}
  /\ tcp_tx' = Tail(tcp_tx)
  /\ UNCHANGED <<requestVars, sharedVars, writer, reader, reader_answer,
                 executed, replied, from_server>>

(* A send fails: the message it had taken and the rest of the channel are  *)
(* dropped with the task.                                                  *)
WriterStops ==
  /\ writer = "running"
  /\ tcp_tx # << >>
  /\ writer' = "stopped"
  /\ tcp_tx' = << >>
  /\ UNCHANGED <<requestVars, sharedVars, reader, reader_answer, serverVars>>

-----------------------------------------------------------------------------
(* reader_task.                                                            *)

(* The reply to the command of r: its entry is taken out of pending ...    *)
ReceiveReply(r) ==
  /\ reader = "running"
  /\ r \in from_server
  /\ from_server' = from_server \ {r}
  /\ pending' = pending \ {cmd_id[r]}
  /\ IF cmd_id[r] \in pending
     THEN reader' = "sending" /\ reader_answer' = r
     ELSE UNCHANGED <<reader, reader_answer>>
  /\ UNCHANGED <<requestVars, answer, tcp_tx, writer, at_server, executed, replied>>

\* Fault: the sender is dropped instead of used.
PassOnNothing ==
  /\ reader = "sending"
  /\ reader' = "running"
  /\ reader_answer' = NoRequest
  /\ UNCHANGED <<requestVars, sharedVars, tcp_tx, writer, serverVars>>

(* ... and, the lock released, the sender found there is used; nothing     *)
(* happens when its receiver is gone.                                      *)
PassOn ==
  /\ reader = "sending"
  /\ LET r == Waiter(cmd_id[reader_answer]) IN
       answer' = IF pc[r] = "wait" THEN [answer EXCEPT ![r] = reader_answer] ELSE answer
  /\ reader' = "running"
  /\ reader_answer' = NoRequest
  /\ UNCHANGED <<requestVars, pending, tcp_tx, writer, serverVars>>

(* End of the stream: every waiting sender is dropped.                     *)
ReaderStops ==
  /\ reader = "running"
  /\ reader' = "stopped"
  /\ answer' = [r \in Requests |->
       IF cmd_id[r] \in pending /\ answer[r] = "open" THEN "closed" ELSE answer[r]]
  /\ pending' = {}
  /\ UNCHANGED <<requestVars, tcp_tx, writer, reader_answer, serverVars>>

-----------------------------------------------------------------------------
(* The server.                                                             *)

ServerExecutes(r) ==
  /\ r \in at_server
  /\ at_server' = at_server \ {r}
  /\ executed' = executed \cup {r}
  /\ UNCHANGED <<requestVars, sharedVars, taskVars, replied, from_server>>

ServerReplies(r) ==
  /\ r \in executed \ replied
  /\ replied' = replied \cup {r}
  /\ from_server' = from_server \cup {r}
  /\ UNCHANGED <<requestVars, sharedVars, taskVars, at_server, executed>>

(* A command may never be executed: it may also have been read together    *)
(* with the registration and dropped with the framing of that.             *)
ServerLoses(r) ==
  /\ r \in at_server
  /\ at_server' = at_server \ {r}
  /\ UNCHANGED <<requestVars, sharedVars, taskVars, executed, replied, from_server>>

-----------------------------------------------------------------------------
RequestStep(r) ==
  \/ DrawId(r) \/ InsertPending(r) \/ SendCommand(r) \/ SendFails(r)
  \/ Answered(r) \/ ChannelClosed(r) \/ TimesOut(r) \/ CleanUp(r)

GatewayNext ==
  \/ \E r \in Requests : RequestStep(r) \/ Cancel(r)
  \/ WriteCommand \/ WriterStops
  \/ \E r \in Requests : ReceiveReply(r)
  \/ PassOn \/ ReaderStops
  \/ \E r \in Requests : ServerExecutes(r) \/ ServerReplies(r) \/ ServerLoses(r)

GatewaySpec == GatewayInit /\ [][GatewayNext]_gatewayVars

-----------------------------------------------------------------------------
(* Properties.                                                             *)

(* Answers are not mixed up: a request that returns 200 was given the      *)
(* result of its own command, which the server has executed.               *)
OwnAnswer ==
  \A r \in Requests : status[r] = 200 => body[r] = r /\ r \in executed

(* 503 is safe to retry: the command was not, and never will be, given to  *)
(* the server.                                                             *)
UnavailableMeansUnsent ==
  \A r \in Requests : status[r] = 503 =>
    r \notin at_server \cup executed /\ \A i \in 1..Len(tcp_tx) : tcp_tx[i] # r

(* No leak: a request that has returned has no entry in pending, whichever *)
(* way timeouts, late replies and the end of the reader raced.             *)
NothingLeftPending ==
  \A r \in Requests : pc[r] = "done" => cmd_id[r] \notin pending

(* A reply that arrives while its request is waiting is not thrown away:   *)
(* a reply the server has sent is still on its way to the request, or has  *)
(* reached it, or the reader has ended, as long as the request has not     *)
(* given up.                                                               *)
NoAnswerLost ==
  \A r \in Requests : r \in replied /\ pc[r] = "wait" =>
    \/ r \in from_server
    \/ reader_answer = r
    \/ answer[r] = r
    \/ reader = "stopped"
=============================================================================
