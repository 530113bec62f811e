------------------------------ MODULE Takeover ------------------------------
(***************************************************************************)
(* The start of the cluster as a whole: ConnectionSetup at all servers,    *)
(* composed with the takeover by the initial leader that each server       *)
(* begins as soon as its own Network::new has returned (server.rs,         *)
(* establish_initial_leader).                                              *)
(*                                                                         *)
(* The two overlap.  A connection counts as made at the connecting server  *)
(* when its handshake is written, and the server may go on and send while  *)
(* the other end has not read the handshake yet.  That end reads it with a *)
(* framing of its own, frame_registration_connection, which takes from the *)
(* socket what is there; into_inner() then gives back the bare stream, and *)
(* what had been read beyond the handshake is gone.                        *)
(*                                                                         *)
(* Only the messages of the leader are followed: a Prepare, answered by a  *)
(* promise, and the LeaderStartSignal.  A burst of Prepares is one         *)
(* element.  A frame is read whole or not at all; one that is cut in two   *)
(* would make the rest of the stream unreadable, which is left out.        *)
(***************************************************************************)
EXTENDS ConnectionSetup

CONSTANTS
  InitialLeader,  (* cluster.initial_leader                                *)
  ReadQuorum      (* servers whose promise an election needs, the leader   *)
                  (* counted: read_quorum_size of initial_flexible_quorum, *)
                  (* a majority when there is none                         *)

ASSUME TakeoverAssumption ==
  /\ InitialLeader \in Servers
  /\ ReadQuorum \in 1..Cardinality(Servers)

VARIABLES
  stream,    (* stream[p]: messages of the leader p has not read           *)
  promised,  (* servers whose promise the leader has                       *)
  started    (* servers that have left establish_initial_leader            *)

leaderVars   == <<stream, promised, started>>
takeoverVars == <<setupVars, leaderVars>>

Followers == Peers(InitialLeader)

TakeoverInit ==
  /\ SetupInit
  /\ stream = [p \in Followers |-> << >>]
  /\ promised = {}
  /\ started = {}

-----------------------------------------------------------------------------
(* Reading the leader's handshake takes any number of the messages behind  *)
(* it out of the socket, and drops them with the registration framing.     *)
Reframe ==
  LET readers == {p \in Lower(InitialLeader) :
                    /\ handler[p][InitialLeader] = "accepted"
                    /\ handler'[p][InitialLeader] = "identified"}
  IN  \/ readers = {} /\ UNCHANGED stream
      \/ \E p \in readers : \E k \in 0..Len(stream[p]) :
           stream' = [stream EXCEPT ![p] = SubSeq(@, k + 1, Len(@))]

(* A step of the set-up, seen together with the streams.                   *)
During(setupStep) ==
  /\ setupStep
  /\ Reframe
  /\ UNCHANGED <<promised, started>>

-----------------------------------------------------------------------------
(* establish_initial_leader.                                               *)

(* send_to_cluster: dropped without a connection.                          *)
SendToFollowers(msg) ==
  stream' = [p \in Followers |->
    IF p \notin peer_connections[InitialLeader]
       \/ (stream[p] # << >> /\ stream[p][Len(stream[p])] = msg)
    THEN stream[p]
    ELSE Append(stream[p], msg)]

(* The library is in the accept phase: enough servers have promised.       *)
AcceptPhase == Cardinality(promised \cup {InitialLeader}) >= ReadQuorum

TakeoverTick ==
  /\ running[InitialLeader]
  /\ InitialLeader \notin started
  /\ IF AcceptPhase
     THEN /\ SendToFollowers("LeaderStartSignal")
          /\ started' = started \cup {InitialLeader}
     ELSE /\ SendToFollowers("Prepare")
          /\ UNCHANGED started
  /\ UNCHANGED <<setupVars, promised>>

(* The loop of p reads only after its own set-up.                          *)
HandleClusterMessage(p) ==
  /\ running[p]
  /\ stream[p] # << >>
  /\ promised' = IF Head(stream[p]) = "Prepare" THEN promised \cup {p} ELSE promised
  /\ started' = IF Head(stream[p]) = "LeaderStartSignal" THEN started \cup {p} ELSE started
  /\ stream' = [stream EXCEPT ![p] = Tail(@)]
  /\ UNCHANGED setupVars

-----------------------------------------------------------------------------
TakeoverNext ==
  \/ During(SetupNext)
  \/ TakeoverTick
  \/ \E p \in Followers : HandleClusterMessage(p)

TakeoverSpec == TakeoverInit /\ [][TakeoverNext]_takeoverVars

(* As in ConnectionSetup; timers fire and the loops handle what they get.  *)
TakeoverFairSpec ==
  /\ TakeoverSpec
  /\ \A n \in Servers : WF_takeoverVars(During(TaskStep(n)))
  /\ \A n \in Servers : \A c \in Local(n) :
       WF_takeoverVars(During(ClientConnect(c, n) \/ ClientRefused(c, n)))
  /\ WF_takeoverVars(TakeoverTick)
  /\ \A p \in Followers : WF_takeoverVars(HandleClusterMessage(p))

-----------------------------------------------------------------------------
(* Properties.                                                             *)

(* The start signal, which is sent once, is not lost: every follower has   *)
(* relayed it to its clients or still has it to read, although the leader  *)
(* begins as soon as its own set-up is done and followers may be anywhere  *)
(* in theirs.                                                              *)
StartSignalsArrive ==
  InitialLeader \in started =>
    \A p \in Followers :
      p \in started \/ \E i \in 1..Len(stream[p]) : stream[p][i] = "LeaderStartSignal"

(* If no handshake fails, the cluster gets connected, no server waiting    *)
(* for another in a cycle, the leader takes over, and every server starts  *)
(* its clients.                                                            *)
ClusterBegins == <>(started = Servers \/ failures > 0)
=============================================================================
