--------------------------- MODULE LinearizableKV ---------------------------
(***************************************************************************)
(* What the replicated store promises its clients, without servers,        *)
(* consensus or networks: there is one store; each command submitted in a  *)
(* session takes effect on it at most once, at some moment between its     *)
(* submission and its reply; a session receives at most one reply to a     *)
(* command, and that reply is the one determined when the command took     *)
(* effect.                                                                 *)
(*                                                                         *)
(* A session is a server (the coordinator of its commands) together with   *)
(* the number of a client connection at that server.  Two sessions at      *)
(* different servers use the same client and command numbers.              *)
(***************************************************************************)
EXTENDS KVStore, Sequences

CONSTANTS Servers, ClientIds

Command ==
  [client_id : ClientIds, coordinator_id : Servers, id : Nat, kv_cmd : KVCommand]

VARIABLES
  submitted,  (* the commands clients have submitted                       *)
  history,    (* the commands that took effect, in order, with their reply *)
  store,      (* the store after all of history                            *)
  delivered   (* delivered[n][c]: the replies session <<n, c>> was given   *)

kvVars == <<submitted, history, store, delivered>>

KVInit ==
  /\ submitted = {}
  /\ history = << >>
  /\ store = NewDatabase
  /\ delivered = [n \in Servers |-> [c \in ClientIds |-> << >>]]

Submit ==
  /\ submitted \subseteq submitted'
  /\ UNCHANGED <<history, store, delivered>>

TakeEffect(cmd) ==
  /\ \A i \in 1..Len(history) : history[i].cmd # cmd
  /\ history' = Append(history,
       [cmd |-> cmd, reply |-> Answer(store, cmd.id, cmd.kv_cmd)])
  /\ store' = Effect(store, cmd.kv_cmd)
  /\ UNCHANGED <<submitted, delivered>>

Respond(i) ==
  LET n == history[i].cmd.coordinator_id
      c == history[i].cmd.client_id
  IN  /\ \A j \in 1..Len(delivered[n][c]) : delivered[n][c][j].id # history[i].cmd.id
      /\ delivered' = [delivered EXCEPT ![n][c] = Append(@, history[i].reply)]
      /\ UNCHANGED <<submitted, history, store>>

KVNext ==
  \/ Submit
  \/ \E cmd \in submitted : TakeEffect(cmd)
  \/ \E i \in 1..Len(history) : Respond(i)

KVSpec == KVInit /\ [][KVNext]_kvVars
=============================================================================
