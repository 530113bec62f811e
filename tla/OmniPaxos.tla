----------------------------- MODULE OmniPaxos -----------------------------
(***************************************************************************)
(* The contract of the OmniPaxos library, as far as the server uses it.    *)
(* The library is not part of the repository; what is written here is what *)
(* server.rs relies on when it calls append, handle_incoming, tick,        *)
(* try_become_leader, get_current_leader, get_decided_idx,                 *)
(* read_decided_suffix and take_outgoing_messages.                         *)
(*                                                                         *)
(* - The decided entries form one log shared by all servers, which only    *)
(*   grows.  A server knows a prefix of it, decided_idx long.              *)
(* - A proposal is decided at most once, or never (it can be lost with the *)
(*   leader that held it).                                                 *)
(* - decided_idx moves only inside handle_incoming: a decision needs a     *)
(*   write quorum of at least two servers, hence a message from a peer.    *)
(* - Protocol messages are opaque.  outgoing[n] is the set of servers for  *)
(*   which the instance of n has buffered some.                            *)
(***************************************************************************)
EXTENDS Naturals, Sequences

CONSTANTS
  Servers,        (* the nodes of the cluster                              *)
  InitialLeader   (* cluster.initial_leader                                *)

ASSUME ServersAssumption == InitialLeader \in Servers

VARIABLES
  log,          (* the decided commands, in order                          *)
  proposals,    (* every command ever given to append                      *)
  decided_idx,  (* decided_idx[n]: how much of log server n knows          *)
  role,         (* the role of InitialLeader's instance while it takes     *)
                (* over: get_current_leader returns (self, true) exactly   *)
                (* when it is "accept"                                     *)
  outgoing      (* outgoing[n]: receivers of n's buffered messages         *)

omniVars == <<log, proposals, decided_idx, role, outgoing>>

Peers(n) == Servers \ {n}

OmniInit ==
  /\ log = << >>
  /\ proposals = {}
  /\ decided_idx = [n \in Servers |-> 0]
  /\ role = "follower"
  /\ outgoing = [n \in Servers |-> {}]

Decided(cmd) == \E i \in 1..Len(log) : log[i] = cmd

(* A proposal is chosen by a quorum and takes the next slot of the log.    *)
OmniDecide(cmd) ==
  /\ cmd \in proposals
  /\ ~Decided(cmd)
  /\ log' = Append(log, cmd)
  /\ UNCHANGED <<proposals, decided_idx, role, outgoing>>

(* handle_incoming of one message: the instance of n may learn of          *)
(* decisions, complete its takeover, and buffer messages for any peers.    *)
(* Nobody competes with the takeover: only InitialLeader calls             *)
(* try_become_leader, and no instance is ticked (so none starts an         *)
(* election) before the takeover has succeeded.                            *)
OmniHandleIncoming(n, newIdx) ==
  /\ newIdx \in decided_idx[n]..Len(log)
  /\ decided_idx' = [decided_idx EXCEPT ![n] = newIdx]
  /\ \E dest \in SUBSET Peers(n) :
       outgoing' = [outgoing EXCEPT ![n] = @ \cup dest]
  /\ \/ role' = role
     \/ n = InitialLeader /\ role = "prepare" /\ role' = "accept"
  /\ UNCHANGED <<log, proposals>>

(* read_decided_suffix: the known decided entries after the first idx.     *)
ReadDecidedSuffix(idx, newIdx) == SubSeq(log, idx + 1, newIdx)
=============================================================================
