------------------------------- MODULE HttpKV -------------------------------
(***************************************************************************)
(* What the HTTP interface promises, without gateway, tasks or channels.   *)
(* A request carries one command, which takes effect on the store at most  *)
(* once, at some moment after the request was made.  200 comes after that  *)
(* moment and carries the result of it.  500 and 504 leave open whether    *)
(* the command took effect or still will.  503 means it never will.        *)
(* Others use the store at the same time, without HTTP.                    *)
(***************************************************************************)
EXTENDS KVStore

CONSTANTS
  Requests,   (* HTTP requests                                             *)
  NoResult    (* no effect yet, or no result in the response               *)

VARIABLES
  command,    (* command[r]: the command of request r                      *)
  made,       (* requests that have been made                              *)
  store,      (* the store                                                 *)
  effect,     (* effect[r]: the result of r's command once it took effect  *)
  response    (* response[r]: status, 0 before, and result                 *)

httpVars == <<command, made, store, effect, response>>

HttpInit ==
  /\ command \in [Requests -> KVCommand]
  /\ made = {}
  /\ store = NewDatabase
  /\ effect = [r \in Requests |-> NoResult]
  /\ response = [r \in Requests |-> [status |-> 0, result |-> NoResult]]

(* The JSON object of a success: a read has a value.                       *)
Result(db, cmd) ==
  IF cmd.op = "Get" THEN [ok |-> TRUE, value |-> db[cmd.key]] ELSE [ok |-> TRUE]

Make(r) ==
  /\ r \notin made
  /\ made' = made \cup {r}
  /\ UNCHANGED <<command, store, effect, response>>

TakeEffect(r) ==
  /\ r \in made
  /\ effect[r] = NoResult
  /\ response[r].status # 503
  /\ effect' = [effect EXCEPT ![r] = Result(store, command[r])]
  /\ store' = Effect(store, command[r])
  /\ UNCHANGED <<command, made, response>>

Return(r) ==
  /\ r \in made
  /\ response[r].status = 0
  /\ \/ /\ effect[r] # NoResult
        /\ response' = [response EXCEPT ![r] = [status |-> 200, result |-> effect[r]]]
     \/ \E s \in {500, 503, 504} :
          /\ s = 503 => effect[r] = NoResult
          /\ response' = [response EXCEPT ![r] = [status |-> s, result |-> NoResult]]
  /\ UNCHANGED <<command, made, store, effect>>

(* A command of somebody else.                                             *)
OtherEffect ==
  /\ \E cmd \in KVCommand : store' = Effect(store, cmd)
  /\ UNCHANGED <<command, made, effect, response>>

HttpNext ==
  \/ \E r \in Requests : Make(r) \/ TakeEffect(r) \/ Return(r)
  \/ OtherEffect

HttpSpec == HttpInit /\ [][HttpNext]_httpVars
=============================================================================
