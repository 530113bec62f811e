----------------------------- MODULE MCTakeover -----------------------------
(* Instances of Takeover for TLC.                                          *)
EXTENDS Takeover, TLC

CONSTANT c1

\* One client, at server 2.
AtTwo == (c1 :> <<2>>)
AtTwoCount == [n \in Servers |-> IF n = 2 THEN 1 ELSE 0]
=============================================================================
