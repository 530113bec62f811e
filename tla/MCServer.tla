------------------------------ MODULE MCServer ------------------------------
(* Instances of Server for TLC; the cfg files give the other constants.    *)
EXTENDS Server

\* Which commands the clients of each server send: writes at the initial
\* leader and reads elsewhere ...
WritesAndReads == [n \in Servers |->
  IF n = InitialLeader
  THEN {cmd \in KVCommand : cmd.op # "Get"}
  ELSE {cmd \in KVCommand : cmd.op = "Get"}]

\* ... or a single command, where it does not matter which.
Deletes == [n \in Servers |-> {Delete(k) : k \in Keys}]

\* How many clients the servers have.
OneEach == [n \in Servers |-> 1]

\* The ids, hence the number, of the requests of a client.
One         == [n \in Servers |-> {0}]
TwoAtLeader == [n \in Servers |-> IF n = InitialLeader THEN {0, 1} ELSE {0}]
=============================================================================
