--------------------------- MODULE TakeoverProofs ---------------------------
(***************************************************************************)
(* What the overlap of set-up and takeover leaves intact, for every        *)
(* cluster: the set-up goes on as if there were no takeover, and when the  *)
(* leader is the server with the lowest id, which connects to nobody and   *)
(* whose handshake nobody reads, the start signal reaches everyone.        *)
(***************************************************************************)
EXTENDS Takeover, ConnectionSetupProofs

(* The takeover does not disturb the set-up: every step of the composition *)
(* is, for the connections, a step of the set-up or none.                  *)
THEOREM TakeoverImplementsSetup == TakeoverSpec => SetupSpec
<1>1. TakeoverInit => SetupInit
  BY DEF TakeoverInit
<1>2. [TakeoverNext]_takeoverVars => [SetupNext]_setupVars
  BY DEF TakeoverNext, During, TakeoverTick, HandleClusterMessage, takeoverVars
<1> QED BY <1>1, <1>2, PTL DEF TakeoverSpec, SetupSpec

(* No connection between servers is lost to one that is done first while   *)
(* leader and followers are already exchanging messages.                   *)
THEOREM PeersMeetDuringTakeover == TakeoverSpec => []PeersMeet
  BY TakeoverImplementsSetup, PeersAlwaysMeet, PTL

-----------------------------------------------------------------------------
Message == {"Prepare", "LeaderStartSignal"}

(* The messages of the leader, and the start signal among them.            *)
SignalInv ==
  /\ stream \in [Followers -> Seq(Message)]
  /\ StartSignalsArrive

LEMMA NobodyReadsTheHandshake ==
  ASSUME Lower(InitialLeader) = {}, Reframe
  PROVE  UNCHANGED stream
  BY DEF Reframe

(* The leader sends the start signal to every follower, because it has a   *)
(* connection to each.                                                     *)
LEMMA SignalToAll ==
  ASSUME SetupInv, SignalInv, TakeoverTick
  PROVE  SignalInv'
<1>1. /\ stream \in [Followers -> Seq(Message)]
      /\ peer_connections[InitialLeader] = Followers
  BY TakeoverAssumption DEF SignalInv, TakeoverTick, SetupInv, PeerInv, Complete, Followers
<1>2. CASE AcceptPhase
  <2>1. \A p \in Followers : stream'[p] =
          IF stream[p] # << >> /\ stream[p][Len(stream[p])] = "LeaderStartSignal"
          THEN stream[p] ELSE Append(stream[p], "LeaderStartSignal")
    BY <1>1, <1>2 DEF TakeoverTick, SendToFollowers
  <2>2. ASSUME NEW p \in Followers
        PROVE  /\ stream'[p] \in Seq(Message)
               /\ \E i \in 1..Len(stream'[p]) : stream'[p][i] = "LeaderStartSignal"
    <3>1. stream[p] \in Seq(Message) /\ "LeaderStartSignal" \in Message
      BY <1>1 DEF Message
    <3>2. CASE stream[p] # << >> /\ stream[p][Len(stream[p])] = "LeaderStartSignal"
      BY <2>1, <3>1, <3>2
    <3>3. CASE ~(stream[p] # << >> /\ stream[p][Len(stream[p])] = "LeaderStartSignal")
      <4>1. stream'[p] = Append(stream[p], "LeaderStartSignal")
        BY <2>1, <3>3
      <4>2. /\ Len(stream'[p]) = Len(stream[p]) + 1 /\ Len(stream[p]) \in Nat
            /\ stream'[p][Len(stream[p]) + 1] = "LeaderStartSignal"
            /\ stream'[p] \in Seq(Message)
        BY <3>1, <4>1
      <4> QED BY <4>2
    <3> QED BY <3>2, <3>3
  <2>3. stream' = [p \in Followers |-> stream'[p]]
    BY <1>2 DEF TakeoverTick, SendToFollowers
  <2>4. stream' \in [Followers -> Seq(Message)]
    BY <2>2, <2>3
  <2> QED BY <2>2, <2>4 DEF SignalInv, StartSignalsArrive
<1>3. CASE ~AcceptPhase
  <2>1. /\ InitialLeader \notin started'
        /\ stream' = [p \in Followers |->
             IF stream[p] # << >> /\ stream[p][Len(stream[p])] = "Prepare"
             THEN stream[p] ELSE Append(stream[p], "Prepare")]
    BY <1>1, <1>3 DEF TakeoverTick, SendToFollowers
  <2>2. ASSUME NEW p \in Followers
        PROVE  stream[p] \in Seq(Message) /\ Append(stream[p], "Prepare") \in Seq(Message)
    BY <1>1 DEF Message
  <2>3. stream' \in [Followers -> Seq(Message)]
    BY <2>1, <2>2
  <2> QED BY <2>1, <2>3 DEF SignalInv, StartSignalsArrive
<1> QED BY <1>2, <1>3

(* A follower starts when it takes the start signal out of its stream.     *)
LEMMA SignalRead ==
  ASSUME SignalInv, NEW p \in Followers, HandleClusterMessage(p)
  PROVE  SignalInv'
<1>1. /\ stream \in [Followers -> Seq(Message)]
      /\ stream[p] # << >>
      /\ started' = IF Head(stream[p]) = "LeaderStartSignal" THEN started \cup {p} ELSE started
      /\ stream' = [stream EXCEPT ![p] = Tail(@)]
      /\ p # InitialLeader
  BY DEF SignalInv, HandleClusterMessage, Followers, Peers
<1>2. /\ stream[p] \in Seq(Message) /\ Tail(stream[p]) \in Seq(Message)
      /\ Head(stream[p]) = stream[p][1]
      /\ Len(stream[p]) \in Nat /\ Len(Tail(stream[p])) = Len(stream[p]) - 1
      /\ \A i \in 1..(Len(stream[p]) - 1) : Tail(stream[p])[i] = stream[p][i + 1]
  BY <1>1
<1>3. /\ stream' \in [Followers -> Seq(Message)]
      /\ stream'[p] = Tail(stream[p])
      /\ \A q \in Followers \ {p} : stream'[q] = stream[q]
  BY <1>1, <1>2
<1>4. ASSUME InitialLeader \in started', NEW q \in Followers
      PROVE  q \in started' \/ \E i \in 1..Len(stream'[q]) : stream'[q][i] = "LeaderStartSignal"
  <2>1. q \in started \/ \E i \in 1..Len(stream[q]) : stream[q][i] = "LeaderStartSignal"
    BY <1>1, <1>4 DEF SignalInv, StartSignalsArrive
  <2>2. CASE q \in started \/ q # p
    BY <1>1, <1>3, <2>1, <2>2
  <2>3. CASE q \notin started /\ q = p
    <3>1. PICK i \in 1..Len(stream[p]) : stream[p][i] = "LeaderStartSignal"
      BY <2>1, <2>3
    <3>2. CASE i = 1
      BY <1>1, <1>2, <2>3, <3>1, <3>2
    <3>3. CASE i # 1
      <4>1. /\ i - 1 \in 1..(Len(stream[p]) - 1)
            /\ Tail(stream[p])[i - 1] = "LeaderStartSignal"
        BY <1>2, <3>1, <3>3
      <4> QED BY <1>2, <1>3, <2>3, <4>1
    <3> QED BY <3>2, <3>3
  <2> QED BY <2>2, <2>3
<1> QED BY <1>3, <1>4 DEF SignalInv, StartSignalsArrive

(* With the server of the lowest id as initial leader, the one start       *)
(* signal each follower is sent is never lost, wherever the followers are  *)
(* in their set-up when the leader begins.                                 *)
THEOREM LowestLeaderStartsAll ==
  ASSUME Lower(InitialLeader) = {}
  PROVE  TakeoverSpec => []StartSignalsArrive
<1>1. TakeoverInit => SignalInv
  BY DEF TakeoverInit, SignalInv, StartSignalsArrive
<1>2. SetupInv /\ SignalInv /\ [TakeoverNext]_takeoverVars => SignalInv'
  <2> SUFFICES ASSUME SetupInv, SignalInv, [TakeoverNext]_takeoverVars
               PROVE  SignalInv'
    OBVIOUS
  <2>1. CASE During(SetupNext)
    <3>1. UNCHANGED <<stream, started>>
      BY <2>1, NobodyReadsTheHandshake DEF During
    <3> QED BY <3>1 DEF SignalInv, StartSignalsArrive
  <2>2. CASE TakeoverTick
    BY <2>2, SignalToAll
  <2>3. ASSUME NEW p \in Followers, HandleClusterMessage(p)
        PROVE  SignalInv'
    BY <2>3, SignalRead
  <2>4. CASE UNCHANGED takeoverVars
    BY <2>4 DEF takeoverVars, leaderVars, SignalInv, StartSignalsArrive
  <2> QED BY <2>1, <2>2, <2>3, <2>4 DEF TakeoverNext
<1>3. SignalInv => StartSignalsArrive
  BY DEF SignalInv
<1> QED BY <1>1, <1>2, <1>3, TakeoverImplementsSetup, SetupInvariant, PTL DEF TakeoverSpec
=============================================================================
