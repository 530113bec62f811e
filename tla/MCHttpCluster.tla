--------------------------- MODULE MCHttpCluster ---------------------------
(* An instance of HttpCluster for TLC.                                     *)
EXTENDS HttpCluster

\* How many clients the servers have, the gateway included.
OneEach == [n \in Servers |-> 1]

\* The gateway reads what a client elsewhere writes.
ReadAndWrite == [n \in Servers |->
  IF n = GatewayServer THEN {Get(k) : k \in Keys} ELSE {Put(k, v) : k \in Keys, v \in Values}]

\* The gateway has an id for each request, the others have one.
IdForEach == [n \in Servers |->
  IF n = GatewayServer THEN 0..(Cardinality(Requests) - 1) ELSE {0}]
=============================================================================
