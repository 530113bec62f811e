------------------------------ MODULE KVStore ------------------------------
(***************************************************************************)
(* The key-value commands of the store, the database one server keeps, and *)
(* the messages a server sends to its clients.                             *)
(*                                                                         *)
(* The HashMap of a server is a total function in which NoValue stands for *)
(* an absent key, so that insert, remove and get are update and            *)
(* application.                                                            *)
(***************************************************************************)
EXTENDS Naturals

CONSTANTS
  Keys,     (* the strings used as keys                                    *)
  Values,   (* the strings stored under them                               *)
  NoValue   (* Option::None of a read: the key is absent                   *)

ASSUME KVAssumption == NoValue \notin Values

Option == Values \cup {NoValue}

-----------------------------------------------------------------------------
(* The commands a client can submit.                                       *)

Put(k, v) == [op |-> "Put", key |-> k, value |-> v]
Delete(k) == [op |-> "Delete", key |-> k, value |-> NoValue]
Get(k)    == [op |-> "Get", key |-> k, value |-> NoValue]

KVCommand ==
       {Put(k, v) : k \in Keys, v \in Values}
  \cup {Delete(k) : k \in Keys}
  \cup {Get(k) : k \in Keys}

-----------------------------------------------------------------------------
(* The database: its new contents, and what a command returns.             *)

Database == [Keys -> Option]

NewDatabase == [k \in Keys |-> NoValue]

\* Fault: remove is lost, a deleted key keeps its value.
HandleCommandKeepsDeleted(db, cmd) ==
  IF cmd.op = "Put" THEN [db EXCEPT ![cmd.key] = cmd.value] ELSE db

\* Fault: a deletion stores a marker in place of removing the key.
HandleCommandTombstone(db, cmd) ==
  CASE cmd.op = "Put"    -> [db EXCEPT ![cmd.key] = cmd.value]
    [] cmd.op = "Delete" -> [db EXCEPT ![cmd.key] = "deleted"]
    [] cmd.op = "Get"    -> db

HandleCommand(db, cmd) ==
  CASE cmd.op = "Put"    -> [db EXCEPT ![cmd.key] = cmd.value]
    [] cmd.op = "Delete" -> [db EXCEPT ![cmd.key] = NoValue]
    [] cmd.op = "Get"    -> db

-----------------------------------------------------------------------------
(* Messages to clients.  The timestamp of a start signal is left out: the  *)
(* servers only pass it on.                                                *)

WriteReply(id)   == [type |-> "Write", id |-> id]
ReadReply(id, v) == [type |-> "Read", id |-> id, value |-> v]
StartSignal      == [type |-> "StartSignal"]

Reply == [type : {"Write"}, id : Nat] \cup [type : {"Read"}, id : Nat, value : Option]

ServerMessage == Reply \cup {StartSignal}

\* Fault: the two Options are flattened, so that reading an absent key looks
\* like a write.
ReplyToFlattened(db, id, cmd) ==
  IF cmd.op = "Get" /\ db[cmd.key] # NoValue THEN ReadReply(id, db[cmd.key]) ELSE WriteReply(id)

(* What a coordinator answers to command number id: handle_command returns *)
(* Some(..) for a Get and None for a write.                                *)
ReplyTo(db, id, cmd) ==
  IF cmd.op = "Get" THEN ReadReply(id, db[cmd.key]) ELSE WriteReply(id)

-----------------------------------------------------------------------------
(* What the commands mean, stated without the database code: a command     *)
(* changes at most its own key, and a read reports that key.  The          *)
(* specifications are written with these two operators.                    *)

Effect(store, cmd) ==
  [k \in Keys |-> IF cmd.op # "Get" /\ k = cmd.key THEN cmd.value ELSE store[k]]

Answer(store, id, cmd) ==
  IF cmd.op \in {"Put", "Delete"} THEN WriteReply(id) ELSE ReadReply(id, store[cmd.key])
=============================================================================
