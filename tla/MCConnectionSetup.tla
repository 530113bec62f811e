------------------------- MODULE MCConnectionSetup -------------------------
(* Instances of ConnectionSetup for TLC.                                   *)
EXTENDS ConnectionSetup, TLC

CONSTANTS c1, c2, c3

\* A client at server 1, and a gateway whose list names servers 1 and 2.
ClientAndGateway == (c1 :> <<1>>) @@ (c2 :> <<1, 2>>)
OneAtOneCount == [n \in Servers |-> IF n = 1 THEN 1 ELSE 0]

\* The same, and a client at server 2.
TwoClientsAndGateway == ClientAndGateway @@ (c3 :> <<2>>)
TwoAtOneCount == [n \in Servers |-> IF n = 1 THEN 2 ELSE 1]
=============================================================================
