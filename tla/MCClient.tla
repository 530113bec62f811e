------------------------------ MODULE MCClient ------------------------------
(* Instances of Client for TLC.                                            *)
EXTENDS Client

Busy    == [duration_sec |-> 1, requests_per_sec |-> 500]
Idle    == [duration_sec |-> 1, requests_per_sec |-> 0]
TooFast == [duration_sec |-> 1, requests_per_sec |-> 1001]
Empty   == [duration_sec |-> 0, requests_per_sec |-> 1]

\* No interval, one, an idle one after a busy one, and intervals that are
\* not usable, first or later.
AllWorkloads == {<< >>, <<Busy>>, <<Busy, Idle>>, <<TooFast>>, <<Idle, Empty>>}
=============================================================================
