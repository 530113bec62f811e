--------------------------- MODULE MCGatewayStore ---------------------------
(* An instance of GatewayStore for TLC.                                    *)
EXTENDS GatewayStore

\* The client with the gateway's number at another server, with the ids the
\* gateway uses, writes.
OneWriteElsewhere ==
  {[client_id |-> GatewayClient, coordinator_id |-> n, id |-> 0, kv_cmd |-> Put(k, v)] :
     n \in Servers \ {GatewayServer}, k \in Keys, v \in Values}
=============================================================================
