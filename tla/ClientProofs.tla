---------------------------- MODULE ClientProofs ----------------------------
(***************************************************************************)
(* What the benchmark client records, for every workload and every         *)
(* capacity of its channels and of the stream.                             *)
(*                                                                         *)
(* On the way out the requests the server has read, those in the stream,   *)
(* in the writer's batch and in its channel follow one another without a   *)
(* gap while the stream is up (RequestInv).  On the way back a response is *)
(* in at most one place, and its record still waits for it (ResponseInv).  *)
(***************************************************************************)
EXTENDS Client, FiniteSetTheorems, SequenceTheorems, TLAPS

Record   == [write : BOOLEAN, answered : BOOLEAN]
Request  == [id : Nat, write : BOOLEAN]
Response == Nat \cup {StartSignal}
Phase    == {"connecting", "unregistered", "waiting", "running", "sending", "done", "panicked"}

(* The state that the properties are about has its types.                  *)
ClientTypeOK ==
  /\ phase \in Phase
  /\ request_data \in Seq(Record) /\ is_write \in BOOLEAN
  /\ slot \in BOOLEAN /\ writer \in {"running", "stopped"} /\ stream \in {"up", "broken"}
  /\ outgoing \in Seq(Request) /\ buffer \in Seq(Request)
  /\ to_server \in Seq(Request) /\ received \in Seq(Request)
  /\ server_messages \in Seq(Response)
  /\ from_server \in Seq(Response) /\ replies \in Seq(Response)
  /\ executed \in SUBSET Nat

(* Where the loop is, and what it has then.                                *)
PhaseInv ==
  /\ next_request_id = Len(request_data)
  /\ phase \in {"connecting", "unregistered", "waiting"} => request_data = << >>
  /\ phase \in {"connecting", "waiting", "running", "sending"} /\ stream = "up" =>
       writer = "running"
  /\ Alive /\ stream = "up" => slot
  /\ PanicsOnlyByConfig

(* The request that the j-th record of rd is about; s holds the requests   *)
(* of rd from the (k+1)-th on.                                             *)
Req(rd, j) == [id |-> j - 1, write |-> rd[j].write]
Follows(rd, s, k) == \A i \in 1..Len(s) : s[i] = Req(rd, k + i)

Read   == Len(received)
OnWire == Read + Len(to_server)
Taken  == OnWire + Len(buffer)
Sent   == Taken + Len(outgoing)

Open == phase \in {"connecting", "waiting", "running", "sending"}

(* The way out.                                                            *)
RequestInv ==
  /\ Follows(request_data, received, 0) /\ Follows(request_data, to_server, Read)
  /\ OnWire <= Len(request_data)
  /\ stream = "up" =>
       /\ Follows(request_data, buffer, OnWire) /\ Follows(request_data, outgoing, Taken)
       /\ Sent <= Len(request_data)
       /\ Open => Sent = Len(request_data)

Answered(rd, k) == rd[k].answered

(* No response twice in s; none both in s and in t.                        *)
Once(s) == \A i, j \in 1..Len(s) : s[i] = s[j] /\ s[i] # StartSignal => i = j
Apart(s, t) == \A id \in Nat : ~(Contains(s, id) /\ Contains(t, id))

(* The response to request id is on its way.                               *)
Returning(id) ==
  Contains(replies, id) \/ Contains(from_server, id) \/ Contains(server_messages, id)

Distinct ==
  /\ Once(replies) /\ Once(from_server) /\ Once(server_messages)
  /\ Apart(replies, from_server) /\ Apart(replies, server_messages)
  /\ Apart(from_server, server_messages)

(* A response is in one place, and its record has not been filled in.      *)
Awaited ==
  \A id \in Nat : Returning(id) => id \in executed /\ ~Answered(request_data, id + 1)

(* Records are filled in for requests executed, one response each.         *)
Counted ==
  /\ \A k \in 1..Len(request_data) : Answered(request_data, k) => k - 1 \in executed
  /\ response_count = Cardinality({k \in 1..Len(request_data) : Answered(request_data, k)})

(* The way back.                                                           *)
ResponseInv ==
  /\ \A id \in executed : id + 1 \in 1..Read
  /\ Distinct /\ Awaited /\ Counted

ClientInv == ClientTypeOK /\ PhaseInv /\ RequestInv /\ ResponseInv /\ NoResponseLost

-----------------------------------------------------------------------------
(* Sequences of requests.                                                  *)

LEMMA FollowsHead ==
  ASSUME NEW rd, NEW t \in Seq(Request), t # << >>, NEW k \in Nat, NEW l \in Nat, l = k + 1,
         Follows(rd, t, k)
  PROVE  Head(t) = Req(rd, l) /\ Follows(rd, Tail(t), l)
<1>1. /\ Len(t) \in Nat /\ 1 \in 1..Len(t) /\ Head(t) = t[1]
      /\ Tail(t) \in Seq(Request) /\ Len(Tail(t)) = Len(t) - 1
      /\ \A i \in 1..(Len(t) - 1) : Tail(t)[i] = t[i + 1]
  OBVIOUS
<1>2. Head(t) = Req(rd, l)
  BY <1>1 DEF Follows
<1>3. ASSUME NEW i \in 1..Len(Tail(t))
      PROVE  Tail(t)[i] = Req(rd, l + i)
  <2>1. i + 1 \in 1..Len(t) /\ Tail(t)[i] = t[i + 1] /\ k + (i + 1) = l + i
    BY <1>1
  <2>2. t[i + 1] = Req(rd, k + (i + 1))
    BY <2>1 DEF Follows
  <2> QED BY <2>1, <2>2
<1> QED BY <1>2, <1>3 DEF Follows

LEMMA FollowsAppend ==
  ASSUME NEW rd, NEW s \in Seq(Request), NEW k \in Nat, NEW e, NEW l, l = k + Len(s) + 1,
         e = Req(rd, l), Follows(rd, s, k)
  PROVE  Follows(rd, Append(s, e), k)
<1>1. /\ Len(s) \in Nat /\ Len(Append(s, e)) = Len(s) + 1
      /\ \A i \in 1..Len(s) : Append(s, e)[i] = s[i]
      /\ Append(s, e)[Len(s) + 1] = e
  OBVIOUS
<1>2. ASSUME NEW i \in 1..Len(Append(s, e))
      PROVE  Append(s, e)[i] = Req(rd, k + i)
  <2>1. CASE i \in 1..Len(s)
    BY <1>1, <2>1 DEF Follows
  <2>2. CASE i = Len(s) + 1
    <3>1. k + i = l
      BY <1>1, <2>2
    <3> QED BY <1>1, <2>2, <3>1
  <2> QED BY <1>1, <2>1, <2>2
<1> QED BY <1>2 DEF Follows

LEMMA FollowsPrefix ==
  ASSUME NEW rd, NEW s \in Seq(Request), NEW k \in Nat, NEW i \in 0..Len(s), Follows(rd, s, k)
  PROVE  /\ SubSeq(s, 1, i) \in Seq(Request) /\ Len(SubSeq(s, 1, i)) = i
         /\ Follows(rd, SubSeq(s, 1, i), k)
<1>1. /\ SubSeq(s, 1, i) \in Seq(Request) /\ Len(SubSeq(s, 1, i)) = i
      /\ \A j \in 1..i : SubSeq(s, 1, i)[j] = s[j] /\ j \in 1..Len(s)
  OBVIOUS
<1> QED BY <1>1 DEF Follows

(* Records may be added and filled in: requests sent stay the same.        *)
LEMMA FollowsKept ==
  ASSUME NEW rd, NEW rd2, NEW s \in Seq(Request), NEW k \in Nat, Len(rd) \in Nat,
         Follows(rd, s, k), k + Len(s) <= Len(rd),
         \A j \in 1..Len(rd) : Req(rd2, j) = Req(rd, j)
  PROVE  Follows(rd2, s, k)
<1>1. \A i \in 1..Len(s) : k + i \in 1..Len(rd)
  OBVIOUS
<1> QED BY <1>1 DEF Follows

(* Sequences of responses.                                                 *)

LEMMA TakeResponse ==
  ASSUME NEW s \in Seq(Response), s # << >>
  PROVE  /\ Head(s) \in Response /\ Tail(s) \in Seq(Response)
         /\ \A m : Contains(s, m) <=> (m = Head(s) \/ Contains(Tail(s), m))
         /\ Once(s) => Once(Tail(s))
         /\ Once(s) /\ Head(s) # StartSignal => ~Contains(Tail(s), Head(s))
<1>1. /\ Len(s) \in Nat /\ 1 \in 1..Len(s) /\ Head(s) = s[1]
      /\ Head(s) \in Response /\ Tail(s) \in Seq(Response) /\ Len(Tail(s)) = Len(s) - 1
      /\ \A i \in 1..(Len(s) - 1) : Tail(s)[i] = s[i + 1] /\ i + 1 \in 1..Len(s) /\ i + 1 # 1
      /\ \A i \in 1..Len(s) : i # 1 => i - 1 \in 1..(Len(s) - 1) /\ Tail(s)[i - 1] = s[i]
  <2>1. /\ Len(s) \in Nat /\ 1 \in 1..Len(s) /\ Head(s) = s[1]
        /\ Head(s) \in Response /\ Tail(s) \in Seq(Response) /\ Len(Tail(s)) = Len(s) - 1
    OBVIOUS
  <2>2. \A i \in 1..(Len(s) - 1) : Tail(s)[i] = s[i + 1] /\ i + 1 \in 1..Len(s) /\ i + 1 # 1
    OBVIOUS
  <2>3. ASSUME NEW i \in 1..Len(s), i # 1
        PROVE  i - 1 \in 1..(Len(s) - 1) /\ Tail(s)[i - 1] = s[i]
    <3>1. i - 1 \in 1..(Len(s) - 1) /\ (i - 1) + 1 = i
      BY <2>1, <2>3
    <3> QED BY <2>2, <3>1
  <2> QED BY <2>1, <2>2, <2>3
<1>2. \A m : Contains(s, m) <=> (m = Head(s) \/ Contains(Tail(s), m))
  <2>1. ASSUME NEW m, Contains(s, m) PROVE m = Head(s) \/ Contains(Tail(s), m)
    <3>1. PICK i \in 1..Len(s) : s[i] = m
      BY <2>1 DEF Contains
    <3> QED BY <1>1, <3>1 DEF Contains
  <2>2. Contains(s, Head(s))
    BY <1>1 DEF Contains
  <2>3. ASSUME NEW m, Contains(Tail(s), m) PROVE Contains(s, m)
    BY <1>1, <2>3 DEF Contains
  <2> QED BY <2>1, <2>2, <2>3
<1>3. Once(s) => Once(Tail(s))
  <2> SUFFICES ASSUME Once(s), NEW i \in 1..Len(Tail(s)), NEW j \in 1..Len(Tail(s)),
                      Tail(s)[i] = Tail(s)[j], Tail(s)[i] # StartSignal
               PROVE  i = j
    BY DEF Once
  <2>1. i + 1 \in 1..Len(s) /\ j + 1 \in 1..Len(s) /\ s[i + 1] = s[j + 1] /\ s[i + 1] # StartSignal
    BY <1>1
  <2>2. i + 1 = j + 1
    BY <2>1 DEF Once
  <2> QED BY <1>1, <2>2
<1>4. Once(s) /\ Head(s) # StartSignal => ~Contains(Tail(s), Head(s))
  BY <1>1 DEF Once, Contains
<1> QED BY <1>1, <1>2, <1>3, <1>4

LEMMA AddResponse ==
  ASSUME NEW s \in Seq(Response), NEW e \in Response
  PROVE  /\ Append(s, e) \in Seq(Response)
         /\ \A m : Contains(Append(s, e), m) <=> (m = e \/ Contains(s, m))
         /\ Once(s) /\ (e = StartSignal \/ ~Contains(s, e)) => Once(Append(s, e))
<1>1. /\ Append(s, e) \in Seq(Response) /\ Len(s) \in Nat /\ Len(Append(s, e)) = Len(s) + 1
      /\ \A i \in 1..Len(s) : Append(s, e)[i] = s[i] /\ i \in 1..Len(Append(s, e))
      /\ Append(s, e)[Len(s) + 1] = e /\ Len(s) + 1 \in 1..Len(Append(s, e))
      /\ \A i \in 1..Len(Append(s, e)) : i \in 1..Len(s) \/ i = Len(s) + 1
  OBVIOUS
<1>2. \A m : Contains(Append(s, e), m) <=> (m = e \/ Contains(s, m))
  BY <1>1 DEF Contains
<1>3. ASSUME Once(s), e = StartSignal \/ ~Contains(s, e)
      PROVE  Once(Append(s, e))
  BY <1>1, <1>3 DEF Once, Contains
<1> QED BY <1>1, <1>2, <1>3

LEMMA CutResponses ==
  ASSUME NEW s \in Seq(Response), NEW i \in 0..Len(s)
  PROVE  /\ SubSeq(s, 1, i) \in Seq(Response)
         /\ \A m : Contains(SubSeq(s, 1, i), m) => Contains(s, m)
         /\ Once(s) => Once(SubSeq(s, 1, i))
<1>1. /\ SubSeq(s, 1, i) \in Seq(Response) /\ Len(SubSeq(s, 1, i)) = i
      /\ \A j \in 1..i : SubSeq(s, 1, i)[j] = s[j] /\ j \in 1..Len(s)
  OBVIOUS
<1> QED BY <1>1 DEF Once, Contains

-----------------------------------------------------------------------------
(* Records.                                                                *)

LEMMA RecordAdded ==
  ASSUME ClientTypeOK, request_data' = NewRequest, NEW n \in Nat, n = Len(request_data),
         NEW l, l = n + 1
  PROVE  /\ request_data' \in Seq(Record) /\ Len(request_data') = l
         /\ \A j \in 1..n : Req(request_data', j) = Req(request_data, j)
         /\ \A j \in 1..n : Answered(request_data', j) <=> Answered(request_data, j)
         /\ Req(request_data', l) = [id |-> n, write |-> is_write]
         /\ ~Answered(request_data', l)
<1>1. request_data \in Seq(Record) /\ is_write \in BOOLEAN
  BY DEF ClientTypeOK
<1>2. [write |-> is_write, answered |-> FALSE] \in Record
  BY <1>1 DEF Record
<1>3. PICK r \in Record : r = [write |-> is_write, answered |-> FALSE]
  BY <1>2
<1>4. request_data' = Append(request_data, r)
  BY <1>3 DEF NewRequest
<1>5. /\ request_data' \in Seq(Record) /\ Len(request_data') = l
      /\ \A j \in 1..n : request_data'[j] = request_data[j]
      /\ request_data'[l] = r
  BY <1>1, <1>4
<1>6. r.write = is_write /\ r.answered = FALSE /\ l - 1 = n
  BY <1>3
<1> QED BY <1>5, <1>6 DEF Req, Answered

LEMMA RecordFilled ==
  ASSUME ClientTypeOK, NEW id \in Nat, NEW k \in 1..Len(request_data), k = id + 1,
         NewResponse(id)
  PROVE  /\ request_data' \in Seq(Record) /\ Len(request_data') = Len(request_data)
         /\ \A j \in 1..Len(request_data) : Req(request_data', j) = Req(request_data, j)
         /\ \A j \in 1..Len(request_data) \ {k} :
              Answered(request_data', j) <=> Answered(request_data, j)
         /\ Answered(request_data', k)
<1>1. request_data \in Seq(Record)
  BY DEF ClientTypeOK
<1>2. request_data' = [request_data EXCEPT ![k] = [request_data[k] EXCEPT !.answered = TRUE]]
  BY DEF NewResponse
<1>3. PICK r : r = [request_data[k] EXCEPT !.answered = TRUE]
  OBVIOUS
<1>4. r \in Record /\ r.answered = TRUE /\ r.write = request_data[k].write
  <2>1. PICK q \in Record : q = request_data[k]
    BY <1>1
  <2>2. r = [q EXCEPT !.answered = TRUE]
    BY <1>3, <2>1
  <2> QED BY <2>1, <2>2 DEF Record
<1>5. /\ request_data' \in Seq(Record) /\ Len(request_data') = Len(request_data)
      /\ \A j \in 1..Len(request_data) \ {k} : request_data'[j] = request_data[j]
      /\ request_data'[k] = r
  <2>1. request_data' = [request_data EXCEPT ![k] = r]
    BY <1>2, <1>3
  <2>2. DOMAIN request_data = 1..Len(request_data)
    BY <1>1
  <2> QED BY <1>1, <1>4, <2>1, <2>2, ExceptSeq
<1> QED BY <1>4, <1>5 DEF Req, Answered

-----------------------------------------------------------------------------
(* Parts of the invariant under steps that leave their variables alone.    *)

(* A response goes from the front of s to the end of t.                    *)
Moved(s, t, s2, t2) == s # << >> /\ s2 = Tail(s) /\ t2 = Append(t, Head(s))

LEMMA MoveResponse ==
  ASSUME NEW s \in Seq(Response), NEW t \in Seq(Response),
         NEW s2, NEW t2, Moved(s, t, s2, t2), Once(s), Once(t), Apart(s, t)
  PROVE  /\ s2 \in Seq(Response) /\ t2 \in Seq(Response) /\ Once(s2) /\ Once(t2)
         /\ Apart(s2, t2)
         /\ \A id \in Nat :
              Contains(s2, id) \/ Contains(t2, id) <=> Contains(s, id) \/ Contains(t, id)
<1>1. /\ Head(s) \in Response /\ s2 \in Seq(Response) /\ Once(s2)
      /\ \A m : Contains(s, m) <=> (m = Head(s) \/ Contains(s2, m))
      /\ Head(s) # StartSignal => ~Contains(s2, Head(s))
  BY TakeResponse DEF Moved
<1>2. Head(s) = StartSignal \/ (Head(s) \in Nat /\ ~Contains(t, Head(s)))
  BY <1>1 DEF Apart, Response
<1>3. /\ t2 \in Seq(Response) /\ Once(t2)
      /\ \A m : Contains(t2, m) <=> (m = Head(s) \/ Contains(t, m))
  BY <1>1, <1>2, AddResponse DEF Moved
<1>4. StartSignal \notin Nat
  BY ClientAssumption
<1> QED BY <1>1, <1>2, <1>3, <1>4 DEF Apart

LEMMA ApartBoth ==
  ASSUME NEW s, NEW t, Apart(s, t) PROVE Apart(t, s)
  BY DEF Apart

LEMMA RequestFrame ==
  ASSUME RequestInv, UNCHANGED <<request_data, received, to_server, buffer, outgoing, stream>>,
         Open' => Open
  PROVE  RequestInv'
  BY DEF RequestInv, Read, OnWire, Taken, Sent

(* Responses may disappear from the queues.                                *)
LEMMA ResponseLess ==
  ASSUME ResponseInv, UNCHANGED <<request_data, response_count, executed, received>>,
         Once(replies'), Once(from_server'), Once(server_messages'),
         \A id \in Nat : /\ Contains(replies', id) => Contains(replies, id)
                         /\ Contains(from_server', id) => Contains(from_server, id)
                         /\ Contains(server_messages', id) => Contains(server_messages, id)
  PROVE  ResponseInv'
<1>1. Distinct'
  BY DEF ResponseInv, Distinct, Apart
<1>2. Awaited'
  BY DEF ResponseInv, Awaited, Returning
<1> QED BY <1>1, <1>2 DEF ResponseInv, Counted, Read

LEMMA ResponseFrame ==
  ASSUME ResponseInv, UNCHANGED <<request_data, response_count, executed, received,
                                  replies, from_server, server_messages>>
  PROVE  ResponseInv'
  BY DEF ResponseInv, Distinct, Awaited, Returning, Counted, Read

LEMMA LossFrame ==
  ASSUME NoResponseLost,
         UNCHANGED <<request_data, executed, replies, from_server, server_messages>>,
         stream' = "up" /\ phase' \in {"running", "sending"} =>
           stream = "up" /\ phase \in {"running", "sending"}
  PROVE  NoResponseLost'
  BY DEF NoResponseLost

(* A step of the loop that sends and receives nothing.                     *)
LEMMA LoopFrame ==
  ASSUME ClientInv,
         UNCHANGED <<next_request_id, request_data, response_count, outgoing, buffer, writer,
                     server_messages, stream, to_server, from_server, received, executed, replies>>,
         phase' \in Phase, is_write' \in BOOLEAN, slot' \in BOOLEAN, Open' => Open,
         phase' \in {"running", "sending"} => phase \in {"running", "sending"},
         phase' \in {"connecting", "unregistered", "waiting"} => request_data = << >>,
         Alive' /\ stream = "up" => slot',
         PanicsOnlyByConfig'
  PROVE  ClientInv'
<1>1. ClientTypeOK'
  BY DEF ClientInv, ClientTypeOK
<1>2. PhaseInv'
  BY DEF ClientInv, PhaseInv, Open
<1>3. RequestInv'
  BY RequestFrame DEF ClientInv
<1>4. ResponseInv'
  BY ResponseFrame DEF ClientInv
<1>5. NoResponseLost'
  BY LossFrame DEF ClientInv
<1> QED BY <1>1, <1>2, <1>3, <1>4, <1>5 DEF ClientInv

(* A step of the tasks, the stream or the server: the loop stays as it is. *)
LEMMA PhaseFrame ==
  ASSUME PhaseInv, UNCHANGED <<phase, requests, interval, next_request_id, request_data, slot>>,
         Open /\ stream' = "up" => stream = "up" /\ writer' = writer
  PROVE  PhaseInv'
  BY DEF PhaseInv, Open, Alive, PanicsOnlyByConfig

-----------------------------------------------------------------------------
(* The loop.                                                               *)

LEMMA ConnectStep ==
  ASSUME ClientInv, Connect \/ RegistrationFails
  PROVE  ClientInv'
<1>1. request_data = << >> /\ slot \in BOOLEAN /\ is_write \in BOOLEAN
  BY DEF ClientInv, PhaseInv, ClientTypeOK, Connect, RegistrationFails
<1>2. CASE Connect
  BY <1>1, <1>2, LoopFrame DEF Connect, Phase, Open, Alive, PanicsOnlyByConfig,
     dataVars, taskVars, wireVars, serverVars
<1>3. CASE RegistrationFails
  BY <1>1, <1>3, LoopFrame DEF RegistrationFails, Phase, Open, Alive, PanicsOnlyByConfig,
     dataVars, taskVars, wireVars, serverVars
<1> QED BY <1>2, <1>3

LEMMA RequestTickStep ==
  ASSUME ClientInv, RequestTick
  PROVE  ClientInv'
<1>1. slot \in BOOLEAN /\ (stream = "up" => slot)
  BY DEF ClientInv, PhaseInv, ClientTypeOK, RequestTick, Alive
<1> QED BY <1>1, LoopFrame DEF RequestTick, Phase, Open, Alive, PanicsOnlyByConfig,
        dataVars, taskVars, wireVars, serverVars

LEMMA NextIntervalStep ==
  ASSUME ClientInv, NextInterval
  PROVE  ClientInv'
<1>1. slot \in BOOLEAN /\ is_write \in BOOLEAN /\ (stream = "up" => slot)
  BY DEF ClientInv, PhaseInv, ClientTypeOK, NextInterval, IntervalEnds, Alive
<1>2. phase' \in {"running", "panicked"} /\ phase = "running"
  BY DEF NextInterval, IntervalEnds
<1>3. PanicsOnlyByConfig'
  <2>1. ASSUME phase' = "panicked" PROVE ~Usable(requests'[interval'])
    BY <2>1 DEF NextInterval, Usable
  <2> QED BY <2>1 DEF PanicsOnlyByConfig, Usable
<1> QED BY <1>1, <1>2, <1>3, LoopFrame DEF NextInterval, Phase, Open, Alive,
        dataVars, taskVars, wireVars, serverVars

(* Lengths are numbers, and a request that was executed has its record.    *)
LEMMA Lengths ==
  ASSUME ClientInv
  PROVE  /\ Read \in Nat /\ OnWire \in Nat /\ Taken \in Nat /\ Sent \in Nat
         /\ Len(request_data) \in Nat /\ DOMAIN request_data = 1..Len(request_data)
         /\ Len(to_server) \in Nat /\ Len(buffer) \in Nat /\ Len(outgoing) \in Nat
         /\ Read <= OnWire /\ OnWire <= Len(request_data)
         /\ \A id \in executed : id \in Nat /\ id + 1 \in 1..Len(request_data)
<1>1. /\ Len(received) \in Nat /\ Len(to_server) \in Nat /\ Len(buffer) \in Nat
      /\ Len(outgoing) \in Nat
  BY DEF ClientInv, ClientTypeOK
<1>2. Len(request_data) \in Nat /\ DOMAIN request_data = 1..Len(request_data)
  BY DEF ClientInv, ClientTypeOK
<1>3. OnWire <= Len(request_data) /\ \A id \in executed : id \in Nat /\ id + 1 \in 1..Read
  BY DEF ClientInv, RequestInv, ResponseInv, ClientTypeOK
<1>4. /\ Read \in Nat /\ OnWire \in Nat /\ Taken \in Nat /\ Sent \in Nat /\ Read <= OnWire
  BY <1>1 DEF Read, OnWire, Taken, Sent
<1>5. \A id \in executed : id \in Nat /\ id + 1 \in 1..Len(request_data)
  BY <1>2, <1>3, <1>4
<1> QED BY <1>1, <1>2, <1>3, <1>4, <1>5

(* The message at the front of the channel.                                *)
LEMMA NextMessage ==
  ASSUME ClientInv, server_messages # << >>
  PROVE  /\ Head(server_messages) \in Response
         /\ Tail(server_messages) \in Seq(Response) /\ Once(Tail(server_messages))
         /\ \A id \in Nat : Contains(server_messages, id) <=>
              (id = Head(server_messages) \/ Contains(Tail(server_messages), id))
         /\ Head(server_messages) # StartSignal =>
              /\ Head(server_messages) \in executed
              /\ ~Answered(request_data, Head(server_messages) + 1)
              /\ ~Contains(Tail(server_messages), Head(server_messages))
              /\ ~Contains(replies, Head(server_messages))
              /\ ~Contains(from_server, Head(server_messages))
<1>1. server_messages \in Seq(Response) /\ Once(server_messages)
  BY DEF ClientInv, ClientTypeOK, ResponseInv, Distinct
<1>2. /\ Head(server_messages) \in Response
      /\ Tail(server_messages) \in Seq(Response) /\ Once(Tail(server_messages))
      /\ \A m : Contains(server_messages, m) <=>
           (m = Head(server_messages) \/ Contains(Tail(server_messages), m))
      /\ Head(server_messages) # StartSignal =>
           ~Contains(Tail(server_messages), Head(server_messages))
  BY <1>1, TakeResponse
<1>3. ASSUME NEW id \in Nat, id = Head(server_messages)
      PROVE  /\ id \in executed /\ ~Answered(request_data, id + 1)
             /\ ~Contains(replies, id) /\ ~Contains(from_server, id)
  BY <1>2, <1>3 DEF ClientInv, ResponseInv, Awaited, Returning, Distinct, Apart
<1> QED BY <1>2, <1>3 DEF Response

(* The first message is the start signal: nothing has been sent yet.       *)
LEMMA StartStep ==
  ASSUME ClientInv, Start
  PROVE  ClientInv'
<1>1. /\ phase = "waiting" /\ server_messages # << >> /\ server_messages' = Tail(server_messages)
      /\ interval' = 1
      /\ UNCHANGED <<requests, is_write, next_request_id, request_data, response_count, slot,
                     outgoing, buffer, writer, stream, to_server, from_server, received,
                     executed, replies>>
  BY DEF Start, dataVars, taskVars, wireVars, serverVars
<1>2. request_data = << >>
  BY <1>1 DEF ClientInv, PhaseInv
<1>3. executed = {}
  BY <1>2, Lengths
<1>4. Head(server_messages) = StartSignal
  BY <1>1, <1>3, NextMessage
<1>5. phase' = IF requests = << >> THEN "done"
               ELSE IF Usable(requests[1]) THEN "running" ELSE "panicked"
  BY <1>4 DEF Start
<1>6. ClientTypeOK'
  <2>1. server_messages' \in Seq(Response)
    BY <1>1, NextMessage
  <2>2. phase' \in Phase
    BY <1>5 DEF Phase
  <2> QED BY <1>1, <2>1, <2>2 DEF ClientInv, ClientTypeOK
<1>7. PhaseInv'
  <2>1. PanicsOnlyByConfig'
    <3>1. phase' = "panicked" => ~Usable(requests'[interval'])
      BY <1>1, <1>5 DEF Usable
    <3> QED BY <3>1 DEF PanicsOnlyByConfig, Usable
  <2> QED BY <1>1, <1>5, <2>1 DEF ClientInv, PhaseInv, Alive
<1>8. RequestInv'
  BY <1>1, <1>5, RequestFrame DEF ClientInv, Open
<1>9. ResponseInv'
  <2>1. \A id \in Nat : Contains(server_messages', id) => Contains(server_messages, id)
    BY <1>1, NextMessage
  <2>2. Once(server_messages')
    BY <1>1, NextMessage
  <2> QED BY <1>1, <2>1, <2>2, ResponseLess DEF ClientInv, ResponseInv, Distinct
<1>10. NoResponseLost'
  BY <1>1, <1>3 DEF NoResponseLost
<1> QED BY <1>6, <1>7, <1>8, <1>9, <1>10 DEF ClientInv

(* A new record changes nothing about the others.                          *)
LEMMA SendRequestStep ==
  ASSUME ClientInv, SendRequest
  PROVE  ClientInv'
<1> DEFINE n == Len(request_data)
           l == n + 1
           req == [id |-> next_request_id, write |-> is_write]
<1>1. /\ phase = "sending" /\ phase' = "running" /\ request_data' = NewRequest
      /\ next_request_id' = next_request_id + 1
      /\ NetworkSend(req)
      /\ UNCHANGED <<requests, interval, is_write, response_count, buffer, writer, server_messages,
                     stream, to_server, from_server, received, executed, replies>>
  BY DEF SendRequest, wireVars, serverVars
<1>2. n \in Nat /\ l \in Nat /\ next_request_id = n
  BY Lengths DEF ClientInv, PhaseInv
<1>3. /\ request_data' \in Seq(Record) /\ Len(request_data') = l
      /\ \A j \in 1..n : Req(request_data', j) = Req(request_data, j)
      /\ \A j \in 1..n : Answered(request_data', j) <=> Answered(request_data, j)
      /\ Req(request_data', l) = req
      /\ ~Answered(request_data', l)
  <2>1. ClientTypeOK
    BY DEF ClientInv
  <2> QED BY <1>1, <1>2, <2>1, RecordAdded
<1>4. /\ slot \in BOOLEAN /\ slot' \in BOOLEAN
      /\ outgoing' \in Seq(Request)
      /\ stream = "up" => slot' /\ outgoing' = Append(outgoing, req)
  <2>1. slot \in BOOLEAN /\ outgoing \in Seq(Request) /\ is_write \in BOOLEAN
    BY DEF ClientInv, ClientTypeOK
  <2>2. req \in Request
    BY <1>2, <2>1 DEF Request
  <2>3. stream = "up" => slot /\ writer = "running"
    BY <1>1 DEF ClientInv, PhaseInv, Alive
  <2>4. \/ slot /\ writer = "running" /\ outgoing' = Append(outgoing, req) /\ slot' = slot
        \/ ~(slot /\ writer = "running") /\ slot' = FALSE /\ outgoing' = outgoing
    BY <1>1 DEF NetworkSend
  <2>5. outgoing' \in Seq(Request)
    <3> HIDE DEF req
    <3> QED BY <2>1, <2>2, <2>4
  <2> QED BY <2>1, <2>3, <2>4, <2>5
<1> HIDE DEF req
<1>5. ClientTypeOK'
  BY <1>1, <1>3, <1>4 DEF ClientInv, ClientTypeOK, Phase
<1>6. PhaseInv'
  BY <1>1, <1>2, <1>3, <1>4 DEF ClientInv, PhaseInv, PanicsOnlyByConfig, Alive
<1>7. RequestInv'
  <2>1. /\ received \in Seq(Request) /\ to_server \in Seq(Request)
        /\ buffer \in Seq(Request) /\ outgoing \in Seq(Request)
    BY DEF ClientInv, ClientTypeOK
  <2>2. /\ Read \in Nat /\ OnWire \in Nat /\ Taken \in Nat /\ Sent \in Nat
        /\ OnWire <= n /\ Read <= OnWire
    BY Lengths
  <2>3. Follows(request_data', received, 0) /\ Follows(request_data', to_server, Read)
    <3>1. Follows(request_data, received, 0) /\ 0 + Len(received) <= n
      <4>1. Len(received) \in Nat /\ Len(received) <= n
        BY <1>2, <2>2 DEF Read
      <4> HIDE DEF n
      <4> QED BY <4>1 DEF ClientInv, RequestInv
    <3>2. Follows(request_data, to_server, Read) /\ Read + Len(to_server) <= n
      BY <2>2 DEF ClientInv, RequestInv, OnWire
    <3> QED BY <1>2, <1>3, <2>1, <2>2, <3>1, <3>2, FollowsKept
  <2>4. Read' = Read /\ OnWire' = OnWire /\ Taken' = Taken
    BY <1>1 DEF Read, OnWire, Taken
  <2>5. ASSUME stream = "up"
        PROVE  /\ Follows(request_data', buffer, OnWire)
               /\ Follows(request_data', outgoing', Taken)
               /\ Sent' = Len(request_data')
    <3>1. /\ Follows(request_data, buffer, OnWire) /\ Follows(request_data, outgoing, Taken)
          /\ Sent = n
      BY <1>1, <2>5 DEF ClientInv, RequestInv, Open
    <3>2. OnWire + Len(buffer) <= n /\ Taken + Len(outgoing) <= n /\ l = Taken + Len(outgoing) + 1
      BY <2>1, <2>2, <3>1 DEF Sent, Taken
    <3>3. Follows(request_data', buffer, OnWire) /\ Follows(request_data', outgoing, Taken)
      BY <1>2, <1>3, <2>1, <2>2, <3>1, <3>2, FollowsKept
    <3>4. Follows(request_data', Append(outgoing, req), Taken)
      <4>1. req = Req(request_data', l)
        BY <1>3
      <4> HIDE DEF l
      <4> QED BY <2>1, <2>2, <3>2, <3>3, <4>1, FollowsAppend
    <3>5. Len(outgoing') = Len(outgoing) + 1
      BY <1>4, <2>1, <2>5
    <3>6. Sent' = Len(request_data')
      <4>1. Len(outgoing) \in Nat
        BY <2>1
      <4>2. Sent' = Taken + (Len(outgoing) + 1)
        BY <2>4, <3>5 DEF Sent
      <4> HIDE DEF l
      <4> QED BY <1>3, <2>2, <3>2, <4>1, <4>2
    <3> QED BY <1>4, <2>5, <3>3, <3>4, <3>6
  <2> QED BY <1>1, <1>2, <1>3, <2>2, <2>3, <2>4, <2>5 DEF RequestInv
<1>8. \A id \in executed : Answered(request_data', id + 1) <=> Answered(request_data, id + 1)
  BY <1>3, Lengths
<1>9. ResponseInv'
  <2>1. Awaited'
    BY <1>1, <1>8 DEF ClientInv, ResponseInv, Awaited, Returning
  <2>2. {k \in 1..Len(request_data') : Answered(request_data', k)}
          = {k \in 1..Len(request_data) : Answered(request_data, k)}
    <3>1. 1..l = (1..n) \cup {l}
      BY <1>2
    <3> HIDE DEF l, n
    <3> QED BY <1>3, <3>1 DEF n
  <2>3. \A k \in 1..Len(request_data') : Answered(request_data', k) => k - 1 \in executed
    <3>1. \A k \in 1..Len(request_data) : Answered(request_data, k) => k - 1 \in executed
      BY DEF ClientInv, ResponseInv, Counted
    <3> QED BY <2>2, <3>1
  <2>4. Counted'
    BY <1>1, <2>2, <2>3 DEF ClientInv, ResponseInv, Counted
  <2> QED BY <1>1, <2>1, <2>4 DEF ClientInv, ResponseInv, Distinct, Read
<1>10. NoResponseLost'
  BY <1>1, <1>8 DEF ClientInv, NoResponseLost, Answered
<1> QED BY <1>5, <1>6, <1>7, <1>9, <1>10 DEF ClientInv

(* The loop goes on or, its requests all made, shuts the connection down.  *)
LEMMA RoundEnds ==
  ASSUME ClientInv, phase = "running", NEW f, EndOfRound(f),
         UNCHANGED <<received, to_server, stream, next_request_id, requests, interval>>,
         Len(request_data') = Len(request_data),
         \A j \in 1..Len(request_data) : Req(request_data', j) = Req(request_data, j)
  PROVE  /\ RequestInv' /\ PhaseInv'
         /\ phase' \in {"done", "running"}
         /\ slot' \in BOOLEAN /\ writer' \in {"running", "stopped"}
         /\ outgoing' \in Seq(Request) /\ buffer' \in Seq(Request)
<1>1. \/ /\ phase' = "done" /\ slot' = FALSE /\ writer' = "stopped"
         /\ outgoing' = << >> /\ buffer' = << >>
      \/ phase' = "running" /\ UNCHANGED <<slot, outgoing, buffer, writer>>
  BY DEF EndOfRound, Shutdown, taskVars
<1>2. /\ received \in Seq(Request) /\ to_server \in Seq(Request)
      /\ buffer \in Seq(Request) /\ outgoing \in Seq(Request)
      /\ slot \in BOOLEAN /\ writer \in {"running", "stopped"}
  BY DEF ClientInv, ClientTypeOK
<1>3. /\ slot' \in BOOLEAN /\ writer' \in {"running", "stopped"}
      /\ outgoing' \in Seq(Request) /\ buffer' \in Seq(Request)
      /\ phase' \in {"done", "running"}
  <2>1. << >> \in Seq(Request)
    OBVIOUS
  <2> QED BY <1>1, <1>2, <2>1, Zenon
<1>4. PhaseInv'
  BY <1>1 DEF ClientInv, PhaseInv, PanicsOnlyByConfig, Alive
<1>5. /\ Read \in Nat /\ OnWire \in Nat /\ Taken \in Nat /\ Sent \in Nat
      /\ OnWire <= Len(request_data) /\ Read <= OnWire /\ Len(request_data) \in Nat
  BY Lengths
<1>6. Read' = Read /\ OnWire' = OnWire
  BY DEF Read, OnWire
<1>7. Follows(request_data', received, 0) /\ Follows(request_data', to_server, Read)
  <2>1. Follows(request_data, received, 0) /\ 0 + Len(received) <= Len(request_data)
    <3>1. Len(received) \in Nat /\ Len(received) <= Len(request_data)
      BY <1>5 DEF Read
    <3> QED BY <3>1 DEF ClientInv, RequestInv
  <2>2. Follows(request_data, to_server, Read) /\ Read + Len(to_server) <= Len(request_data)
    BY <1>5 DEF ClientInv, RequestInv, OnWire
  <2> QED BY <1>2, <1>5, <2>1, <2>2, FollowsKept
<1>8. CASE phase' = "done" /\ outgoing' = << >> /\ buffer' = << >>
  <2>1. Follows(request_data', buffer', OnWire') /\ Follows(request_data', outgoing', Taken')
    BY <1>8 DEF Follows
  <2>2. Len(outgoing') = 0 /\ Len(buffer') = 0
    BY <1>8
  <2>3. Taken' = OnWire' /\ Sent' = OnWire'
    BY <1>5, <1>6, <2>2 DEF Taken, Sent
  <2> QED BY <1>3, <1>4, <1>5, <1>6, <1>7, <1>8, <2>1, <2>3 DEF RequestInv, Open
<1>9. CASE phase' = "running" /\ UNCHANGED <<outgoing, buffer>>
  <2>1. Taken' = Taken /\ Sent' = Sent
    BY <1>6, <1>9 DEF Taken, Sent
  <2>2. ASSUME stream = "up"
        PROVE  /\ Follows(request_data', buffer, OnWire) /\ Follows(request_data', outgoing, Taken)
               /\ Sent = Len(request_data)
    <3>1. /\ Follows(request_data, buffer, OnWire) /\ Follows(request_data, outgoing, Taken)
          /\ Sent = Len(request_data)
      BY <2>2 DEF ClientInv, RequestInv, Open
    <3>2. OnWire + Len(buffer) <= Len(request_data) /\ Taken + Len(outgoing) <= Len(request_data)
      BY <1>2, <1>5, <3>1 DEF Sent, Taken
    <3> QED BY <1>2, <1>5, <3>1, <3>2, FollowsKept
  <2> QED BY <1>3, <1>4, <1>5, <1>6, <1>7, <1>9, <2>1, <2>2 DEF RequestInv
<1> QED BY <1>1, <1>8, <1>9

(* A response fills in its record, which exists and is still empty.        *)
LEMMA HandleServerMessageStep ==
  ASSUME ClientInv, HandleServerMessage
  PROVE  ClientInv'
<1> DEFINE m == Head(server_messages)
<1>1. /\ phase = "running" /\ server_messages # << >> /\ server_messages' = Tail(server_messages)
      /\ UNCHANGED <<requests, interval, is_write, next_request_id, stream, to_server,
                     from_server, received, executed, replies>>
  BY DEF HandleServerMessage, wireVars, serverVars
<1>2. /\ m \in Response
      /\ Tail(server_messages) \in Seq(Response) /\ Once(Tail(server_messages))
      /\ \A id \in Nat : Contains(server_messages, id) <=>
           (id = m \/ Contains(Tail(server_messages), id))
      /\ m # StartSignal =>
           /\ m \in executed /\ ~Answered(request_data, m + 1)
           /\ ~Contains(Tail(server_messages), m)
           /\ ~Contains(replies, m) /\ ~Contains(from_server, m)
  BY <1>1, NextMessage
<1>3. CASE m = StartSignal
  <2>1. EndOfRound(final_request_count) /\ UNCHANGED <<request_data, response_count>>
    BY <1>3 DEF HandleServerMessage
  <2>2. /\ RequestInv' /\ PhaseInv' /\ phase' \in {"done", "running"}
        /\ slot' \in BOOLEAN /\ writer' \in {"running", "stopped"}
        /\ outgoing' \in Seq(Request) /\ buffer' \in Seq(Request)
    BY <1>1, <2>1, RoundEnds
  <2>3. ClientTypeOK'
    BY <1>1, <1>2, <2>1, <2>2 DEF ClientInv, ClientTypeOK, Phase
  <2>4. ResponseInv'
    BY <1>1, <1>2, <2>1, ResponseLess DEF ClientInv, ResponseInv, Distinct
  <2>5. NoResponseLost'
    <3>1. \A id \in executed : id \in Nat /\ id # m
      BY <1>3, Lengths, ClientAssumption
    <3> QED BY <1>1, <1>2, <2>1, <3>1 DEF ClientInv, NoResponseLost
  <2> QED BY <2>2, <2>3, <2>4, <2>5 DEF ClientInv
<1>4. CASE m # StartSignal
  <2>1. PICK id \in Nat, k \in 1..Len(request_data) : id = m /\ k = id + 1
    BY <1>2, <1>4, Lengths DEF Response
  <2>2. /\ id \in executed /\ ~Answered(request_data, k)
        /\ ~Contains(server_messages', id) /\ ~Contains(replies, id) /\ ~Contains(from_server, id)
        /\ \A d \in Nat : Contains(server_messages, d) <=> (d = id \/ Contains(server_messages', d))
    BY <1>1, <1>2, <1>4, <2>1
  <2>3. NewResponse(id) /\ EndOfRound(final_request_count)
    <3>1. m + 1 \in DOMAIN request_data
      BY <2>1, Lengths
    <3> QED BY <1>4, <2>1, <3>1 DEF HandleServerMessage
  <2>4. /\ request_data' \in Seq(Record) /\ Len(request_data') = Len(request_data)
        /\ \A j \in 1..Len(request_data) : Req(request_data', j) = Req(request_data, j)
        /\ \A j \in 1..Len(request_data) \ {k} :
             Answered(request_data', j) <=> Answered(request_data, j)
        /\ Answered(request_data', k)
    <3>1. ClientTypeOK
      BY DEF ClientInv
    <3> QED BY <2>1, <2>3, <3>1, RecordFilled
  <2>5. /\ RequestInv' /\ PhaseInv' /\ phase' \in {"done", "running"}
        /\ slot' \in BOOLEAN /\ writer' \in {"running", "stopped"}
        /\ outgoing' \in Seq(Request) /\ buffer' \in Seq(Request)
    BY <1>1, <2>3, <2>4, RoundEnds
  <2>6. ClientTypeOK'
    BY <1>1, <1>2, <2>4, <2>5 DEF ClientInv, ClientTypeOK, Phase
  <2>7. \A d \in executed : d # id =>
          (Answered(request_data', d + 1) <=> Answered(request_data, d + 1))
    <3>1. ASSUME NEW d \in executed, d # id
          PROVE  d + 1 \in 1..Len(request_data) \ {k}
      BY <2>1, <3>1, Lengths
    <3> QED BY <2>4, <3>1
  <2>8. Distinct'
    BY <1>1, <1>2, <2>2 DEF ClientInv, ResponseInv, Distinct, Apart
  <2>9. Awaited'
    <3>1. ASSUME NEW d \in Nat, Returning(d)'
          PROVE  d # id /\ Returning(d)
      BY <1>1, <2>2, <3>1 DEF Returning
    <3> QED BY <1>1, <2>7, <3>1 DEF ClientInv, ResponseInv, Awaited
  <2>10. Counted'
    <3> DEFINE Filled == {j \in 1..Len(request_data) : Answered(request_data, j)}
    <3>1. {j \in 1..Len(request_data') : Answered(request_data', j)} = Filled \cup {k}
      BY <2>4
    <3>2. k \notin Filled
      BY <2>2
    <3>3. IsFiniteSet(Filled)
      <4>1. IsFiniteSet(1..Len(request_data))
        <5>1. 1 \in Int /\ Len(request_data) \in Int
          BY Lengths
        <5> QED BY <5>1, FS_Interval
      <4>2. Filled \in SUBSET (1..Len(request_data))
        OBVIOUS
      <4> HIDE DEF Filled
      <4> QED BY <4>1, <4>2, FS_Subset
    <3>4. response_count = Cardinality(Filled) /\ response_count' = response_count + 1
      BY <2>3 DEF ClientInv, ResponseInv, Counted, NewResponse
    <3>5. Cardinality(Filled \cup {k}) = Cardinality(Filled) + 1
      <4> HIDE DEF Filled
      <4> QED BY <3>2, <3>3, FS_AddElement
    <3>6. \A j \in 1..Len(request_data') : Answered(request_data', j) => j - 1 \in executed
      <4>1. k - 1 = id
        BY <2>1
      <4> QED BY <2>1, <2>2, <2>4, <4>1 DEF ClientInv, ResponseInv, Counted
    <3> QED BY <1>1, <3>1, <3>4, <3>5, <3>6 DEF Counted
  <2>11. ResponseInv'
    BY <1>1, <2>8, <2>9, <2>10 DEF ClientInv, ResponseInv, Read
  <2>12. NoResponseLost'
    <3>1. \A d \in executed : d \in Nat
      BY Lengths
    <3>2. Answered(request_data', id + 1)
      BY <2>1, <2>4
    <3> QED BY <1>1, <2>2, <2>7, <3>1, <3>2 DEF ClientInv, NoResponseLost, Answered
  <2> QED BY <2>5, <2>6, <2>11, <2>12 DEF ClientInv
<1> QED BY <1>3, <1>4

LEMMA LastIntervalStep ==
  ASSUME ClientInv, LastIntervalEnds
  PROVE  ClientInv'
<1>1. /\ phase = "running" /\ EndOfRound(final_request_count')
      /\ UNCHANGED <<requests, interval, is_write, next_request_id, request_data, response_count,
                     server_messages, stream, to_server, from_server, received, executed, replies>>
  BY DEF LastIntervalEnds, IntervalEnds, dataVars, wireVars, serverVars
<1>2. /\ RequestInv' /\ PhaseInv' /\ phase' \in {"done", "running"}
      /\ slot' \in BOOLEAN /\ writer' \in {"running", "stopped"}
      /\ outgoing' \in Seq(Request) /\ buffer' \in Seq(Request)
  BY <1>1, RoundEnds
<1>3. ClientTypeOK'
  BY <1>1, <1>2 DEF ClientInv, ClientTypeOK, Phase
<1>4. ResponseInv'
  BY <1>1, ResponseFrame DEF ClientInv
<1>5. NoResponseLost'
  BY <1>1, <1>2, LossFrame DEF ClientInv
<1> QED BY <1>2, <1>3, <1>4, <1>5 DEF ClientInv

-----------------------------------------------------------------------------
(* The writer task: requests go on in order, and one that is lost is lost  *)
(* with the stream.                                                        *)
LEMMA WriterKeeps ==
  ASSUME ClientInv, WriterStep
  PROVE  ClientInv'
<1>1. /\ UNCHANGED <<phase, requests, interval, is_write, next_request_id, request_data,
                     response_count, slot, server_messages, stream, from_server, received,
                     executed, replies>>
      /\ Alive
  BY DEF WriterStep, TakeBatch, WriteRequest, WriterStops, loopVars, dataVars, wireVars, serverVars
<1>2. /\ outgoing \in Seq(Request) /\ buffer \in Seq(Request) /\ to_server \in Seq(Request)
      /\ received \in Seq(Request)
  BY DEF ClientInv, ClientTypeOK
<1>3. /\ Read \in Nat /\ OnWire \in Nat /\ Taken \in Nat /\ Sent \in Nat
      /\ Len(request_data) \in Nat
      /\ Len(to_server) \in Nat /\ Len(buffer) \in Nat /\ Len(outgoing) \in Nat
      /\ Read <= OnWire /\ OnWire <= Len(request_data)
  BY Lengths
<1>4. /\ Follows(request_data, received, 0) /\ Follows(request_data, to_server, Read)
      /\ stream = "up" =>
           /\ Follows(request_data, buffer, OnWire) /\ Follows(request_data, outgoing, Taken)
           /\ Sent = Len(request_data)
  BY <1>1 DEF ClientInv, RequestInv, Open, Alive
<1>5. ResponseInv' /\ NoResponseLost'
  BY <1>1, ResponseFrame, LossFrame DEF ClientInv
<1>6. Read' = Read
  BY <1>1 DEF Read
<1>7. CASE TakeBatch
  <2>1. /\ buffer = << >> /\ buffer' = outgoing /\ outgoing' = << >>
        /\ UNCHANGED <<writer, to_server>>
    BY <1>7 DEF TakeBatch, wireVars
  <2>2. << >> \in Seq(Request) /\ Len(outgoing') = 0 /\ Len(buffer) = 0
    BY <2>1
  <2>3. ClientTypeOK'
    BY <1>1, <1>2, <2>1, <2>2 DEF ClientInv, ClientTypeOK
  <2>4. PhaseInv'
    BY <1>1, <2>1, PhaseFrame DEF ClientInv
  <2>5. OnWire' = OnWire /\ Taken = OnWire /\ Taken' = Sent /\ Sent' = Sent
    BY <1>3, <1>6, <2>1, <2>2 DEF OnWire, Taken, Sent
  <2>6. Follows(request_data, outgoing', Taken')
    BY <2>2 DEF Follows
  <2>7. RequestInv'
    BY <1>1, <1>3, <1>4, <1>6, <2>1, <2>5, <2>6 DEF RequestInv
  <2> QED BY <1>5, <2>3, <2>4, <2>7 DEF ClientInv
<1>8. CASE WriteRequest
  <2>1. /\ buffer # << >> /\ buffer' = Tail(buffer) /\ UNCHANGED <<writer, outgoing>>
        /\ \/ stream = "up" /\ to_server' = Append(to_server, Head(buffer))
           \/ stream = "broken" /\ to_server' = to_server
    BY <1>8 DEF WriteRequest
  <2>2. /\ Head(buffer) \in Request /\ Tail(buffer) \in Seq(Request)
        /\ Len(Tail(buffer)) = Len(buffer) - 1
    BY <1>2, <2>1
  <2>3. /\ Append(to_server, Head(buffer)) \in Seq(Request)
        /\ Len(Append(to_server, Head(buffer))) = Len(to_server) + 1
    BY <1>2, <2>2
  <2>4. ClientTypeOK'
    BY <1>1, <1>2, <2>1, <2>2, <2>3 DEF ClientInv, ClientTypeOK
  <2>5. PhaseInv'
    BY <1>1, <2>1, PhaseFrame DEF ClientInv
  <2>6. CASE stream = "broken"
    <3>1. to_server' = to_server /\ OnWire' = OnWire
      BY <1>6, <2>1, <2>6 DEF OnWire
    <3>2. RequestInv'
      BY <1>1, <1>3, <1>4, <1>6, <2>6, <3>1 DEF RequestInv
    <3> QED BY <1>5, <2>4, <2>5, <3>2 DEF ClientInv
  <2>7. CASE stream = "up"
    <3>1. PICK l \in Nat : l = OnWire + 1
      BY <1>3
    <3>2. to_server' = Append(to_server, Head(buffer))
      BY <2>1, <2>7
    <3>3. OnWire' = l /\ Taken' = Taken /\ Sent' = Sent
      BY <1>3, <1>6, <2>1, <2>2, <2>3, <3>1, <3>2 DEF OnWire, Taken, Sent
    <3>4. Head(buffer) = Req(request_data, l) /\ Follows(request_data, buffer', l)
      BY <1>2, <1>3, <1>4, <2>1, <2>7, <3>1, FollowsHead
    <3>5. l = Read + Len(to_server) + 1
      BY <1>3, <3>1 DEF OnWire
    <3>6. Follows(request_data, to_server', Read)
      BY <1>2, <1>3, <1>4, <3>2, <3>4, <3>5, FollowsAppend
    <3>7. l <= Len(request_data)
      BY <1>3, <1>4, <2>1, <2>2, <2>7, <3>1 DEF Sent, Taken
    <3>8. RequestInv'
      BY <1>1, <1>3, <1>4, <1>6, <2>1, <2>7, <3>3, <3>4, <3>6, <3>7 DEF RequestInv
    <3> QED BY <1>5, <2>4, <2>5, <3>8 DEF ClientInv
  <2> QED BY <2>1, <2>6, <2>7
<1>9. CASE WriterStops
  <2>1. /\ stream = "broken" /\ writer' = "stopped" /\ buffer' = << >> /\ outgoing' = << >>
        /\ UNCHANGED to_server
    BY <1>9 DEF WriterStops, wireVars
  <2>2. << >> \in Seq(Request)
    OBVIOUS
  <2>3. ClientTypeOK'
    BY <1>1, <2>1, <2>2 DEF ClientInv, ClientTypeOK
  <2>4. PhaseInv'
    BY <1>1, <2>1, PhaseFrame DEF ClientInv
  <2>5. OnWire' = OnWire
    BY <1>6, <2>1 DEF OnWire
  <2>6. RequestInv'
    BY <1>1, <1>3, <1>4, <1>6, <2>1, <2>5 DEF RequestInv
  <2> QED BY <1>5, <2>3, <2>4, <2>6 DEF ClientInv
<1> QED BY <1>7, <1>8, <1>9 DEF WriterStep

-----------------------------------------------------------------------------
(* Responses on their way.                                                 *)

(* Responses move, none is added or lost, or the stream goes.              *)
LEMMA ReturnFrame ==
  ASSUME ClientInv,
         UNCHANGED <<phase, requests, interval, is_write, next_request_id, request_data,
                     response_count, slot, outgoing, buffer, writer, stream, to_server,
                     received, executed>>,
         replies' \in Seq(Response), from_server' \in Seq(Response),
         server_messages' \in Seq(Response), Distinct',
         \A id \in Nat : Returning(id)' <=> Returning(id)
  PROVE  ClientInv'
<1>1. ClientTypeOK'
  BY DEF ClientInv, ClientTypeOK
<1>2. PhaseInv'
  BY PhaseFrame DEF ClientInv
<1>3. RequestInv'
  BY RequestFrame DEF ClientInv, Open
<1>4. ResponseInv'
  <2>1. Awaited'
    BY DEF ClientInv, ResponseInv, Awaited
  <2> QED BY <2>1 DEF ClientInv, ResponseInv, Counted, Read
<1>5. NoResponseLost'
  <2>1. \A id \in executed : id \in Nat
    BY Lengths
  <2> QED BY <2>1 DEF ClientInv, NoResponseLost, Returning
<1> QED BY <1>1, <1>2, <1>3, <1>4, <1>5 DEF ClientInv

LEMMA ReadMessageStep ==
  ASSUME ClientInv, ReadMessage
  PROVE  ClientInv'
<1>1. /\ from_server # << >> /\ server_messages' = Append(server_messages, Head(from_server))
      /\ from_server' = Tail(from_server)
      /\ UNCHANGED <<phase, requests, interval, is_write, next_request_id, request_data,
                     response_count, slot, outgoing, buffer, writer, stream, to_server,
                     received, executed, replies>>
  BY DEF ReadMessage, loopVars, dataVars, taskVars, serverVars
<1>2. /\ from_server \in Seq(Response) /\ server_messages \in Seq(Response)
      /\ replies \in Seq(Response) /\ Distinct
  BY DEF ClientInv, ClientTypeOK, ResponseInv
<1>3. Apart(from_server, replies) /\ Apart(server_messages, replies)
  BY <1>2, ApartBoth DEF Distinct
<1>4. /\ from_server' \in Seq(Response) /\ server_messages' \in Seq(Response)
      /\ Once(from_server') /\ Once(server_messages')
      /\ Apart(from_server', server_messages')
      /\ Apart(from_server', replies) /\ Apart(server_messages', replies)
      /\ \A id \in Nat : Contains(from_server', id) \/ Contains(server_messages', id) <=>
                         Contains(from_server, id) \/ Contains(server_messages, id)
  <2>1. /\ Moved(from_server, server_messages, from_server', server_messages')
        /\ Once(from_server) /\ Once(server_messages) /\ Apart(from_server, server_messages)
    BY <1>1, <1>2 DEF Moved, Distinct
  <2>2. from_server \in Seq(Response) /\ server_messages \in Seq(Response)
    BY <1>2
  <2>3. /\ from_server' \in Seq(Response) /\ server_messages' \in Seq(Response)
        /\ Once(from_server') /\ Once(server_messages')
    BY <2>1, <2>2, MoveResponse
  <2>4. Apart(from_server', server_messages')
    BY <2>1, <2>2, MoveResponse
  <2>5. \A id \in Nat : Contains(from_server', id) \/ Contains(server_messages', id) <=>
                       Contains(from_server, id) \/ Contains(server_messages, id)
    BY <2>1, <2>2, MoveResponse
  <2>6. Apart(from_server', replies) /\ Apart(server_messages', replies)
    BY <1>3, <2>1, <2>5 DEF Apart
  <2> QED BY <2>3, <2>4, <2>5, <2>6
<1>5. Distinct'
  BY <1>1, <1>2, <1>4, ApartBoth DEF Distinct
<1>6. \A id \in Nat : Returning(id)' <=> Returning(id)
  BY <1>1, <1>4 DEF Returning
<1> QED BY <1>1, <1>2, <1>4, <1>5, <1>6, ReturnFrame

LEMMA ServerWritesStep ==
  ASSUME ClientInv, ServerWrites
  PROVE  ClientInv'
<1>1. /\ replies # << >> /\ from_server' = Append(from_server, Head(replies))
      /\ replies' = Tail(replies)
      /\ UNCHANGED <<phase, requests, interval, is_write, next_request_id, request_data,
                     response_count, slot, outgoing, buffer, writer, stream, to_server,
                     received, executed, server_messages>>
  BY DEF ServerWrites, loopVars, dataVars, taskVars
<1>2. /\ from_server \in Seq(Response) /\ server_messages \in Seq(Response)
      /\ replies \in Seq(Response) /\ Distinct
  BY DEF ClientInv, ClientTypeOK, ResponseInv
<1>3. /\ replies' \in Seq(Response) /\ from_server' \in Seq(Response)
      /\ Once(replies') /\ Once(from_server')
      /\ Apart(replies', from_server')
      /\ Apart(replies', server_messages) /\ Apart(from_server', server_messages)
      /\ \A id \in Nat : Contains(replies', id) \/ Contains(from_server', id) <=>
                         Contains(replies, id) \/ Contains(from_server, id)
  <2>1. /\ Moved(replies, from_server, replies', from_server')
        /\ Once(replies) /\ Once(from_server) /\ Apart(replies, from_server)
        /\ Apart(replies, server_messages) /\ Apart(from_server, server_messages)
    BY <1>1, <1>2 DEF Moved, Distinct
  <2>2. replies \in Seq(Response) /\ from_server \in Seq(Response)
    BY <1>2
  <2>3. /\ replies' \in Seq(Response) /\ from_server' \in Seq(Response)
        /\ Once(replies') /\ Once(from_server')
    BY <2>1, <2>2, MoveResponse
  <2>4. Apart(replies', from_server')
    BY <2>1, <2>2, MoveResponse
  <2>5. \A id \in Nat : Contains(replies', id) \/ Contains(from_server', id) <=>
                       Contains(replies, id) \/ Contains(from_server, id)
    BY <2>1, <2>2, MoveResponse
  <2>6. Apart(replies', server_messages) /\ Apart(from_server', server_messages)
    BY <2>1, <2>5 DEF Apart
  <2> QED BY <2>3, <2>4, <2>5, <2>6
<1>4. Distinct'
  BY <1>1, <1>2, <1>3 DEF Distinct
<1>5. \A id \in Nat : Returning(id)' <=> Returning(id)
  BY <1>1, <1>3 DEF Returning
<1> QED BY <1>1, <1>2, <1>3, <1>4, <1>5, ReturnFrame

LEMMA ServerStartsStep ==
  ASSUME ClientInv, ServerStarts
  PROVE  ClientInv'
<1>1. /\ replies' = Append(replies, StartSignal)
      /\ UNCHANGED <<phase, requests, interval, is_write, next_request_id, request_data,
                     response_count, slot, outgoing, buffer, writer, stream, to_server,
                     received, executed, server_messages, from_server>>
  BY DEF ServerStarts, loopVars, dataVars, taskVars, wireVars
<1>2. /\ from_server \in Seq(Response) /\ server_messages \in Seq(Response)
      /\ replies \in Seq(Response) /\ Distinct
  BY DEF ClientInv, ClientTypeOK, ResponseInv
<1>3. /\ replies' \in Seq(Response) /\ Once(replies')
      /\ \A m : Contains(replies', m) <=> (m = StartSignal \/ Contains(replies, m))
  BY <1>1, <1>2, AddResponse DEF Distinct, Response
<1>4. \A id \in Nat : Contains(replies', id) <=> Contains(replies, id)
  BY <1>3, ClientAssumption
<1>5. Distinct'
  BY <1>1, <1>2, <1>3, <1>4 DEF Distinct, Apart
<1>6. \A id \in Nat : Returning(id)' <=> Returning(id)
  BY <1>1, <1>4 DEF Returning
<1> QED BY <1>1, <1>2, <1>3, <1>5, <1>6, ReturnFrame

(* What is cut off is the end of what is under way.                        *)
LEMMA BreakStep ==
  ASSUME ClientInv, Break
  PROVE  ClientInv'
<1>1. /\ stream' = "broken"
      /\ UNCHANGED <<phase, requests, interval, is_write, next_request_id, request_data,
                     response_count, slot, outgoing, buffer, writer,
                     received, executed, replies, server_messages>>
  BY DEF Break, loopVars, dataVars, taskVars, serverVars
<1>2. PICK i \in 0..Len(to_server) : to_server' = SubSeq(to_server, 1, i)
  BY DEF Break
<1>3. PICK j \in 0..Len(from_server) : from_server' = SubSeq(from_server, 1, j)
  BY DEF Break
<1>4. /\ to_server \in Seq(Request) /\ from_server \in Seq(Response)
      /\ Read \in Nat /\ OnWire <= Len(request_data) /\ Len(to_server) \in Nat
      /\ Len(request_data) \in Nat
  BY Lengths DEF ClientInv, ClientTypeOK
<1>5. /\ to_server' \in Seq(Request) /\ Len(to_server') = i
      /\ Follows(request_data, to_server', Read)
  BY <1>2, <1>4, FollowsPrefix DEF ClientInv, RequestInv
<1>6. /\ from_server' \in Seq(Response) /\ Once(from_server')
      /\ \A m : Contains(from_server', m) => Contains(from_server, m)
  BY <1>3, <1>4, CutResponses DEF ClientInv, ResponseInv, Distinct
<1>7. ClientTypeOK'
  BY <1>1, <1>5, <1>6 DEF ClientInv, ClientTypeOK
<1>8. PhaseInv'
  BY <1>1, PhaseFrame DEF ClientInv
<1>9. RequestInv'
  <2>1. Read' = Read /\ OnWire' = Read + i
    BY <1>1, <1>5 DEF Read, OnWire
  <2>2. OnWire' <= Len(request_data)
    BY <1>2, <1>4, <2>1 DEF OnWire
  <2> QED BY <1>1, <1>5, <2>1, <2>2 DEF ClientInv, RequestInv
<1>10. ResponseInv'
  BY <1>1, <1>6, ResponseLess DEF ClientInv, ResponseInv, Distinct
<1>11. NoResponseLost'
  BY <1>1 DEF NoResponseLost
<1> QED BY <1>7, <1>8, <1>9, <1>10, <1>11 DEF ClientInv

(* The server reads the next request.                                      *)
LEMMA ServerReadsStep ==
  ASSUME ClientInv, ServerReads
  PROVE  ClientInv'
<1>1. /\ to_server # << >> /\ received' = Append(received, Head(to_server))
      /\ to_server' = Tail(to_server)
      /\ UNCHANGED <<phase, requests, interval, is_write, next_request_id, request_data,
                     response_count, slot, outgoing, buffer, writer, stream, from_server,
                     executed, replies, server_messages>>
  BY DEF ServerReads, loopVars, dataVars, taskVars
<1>2. /\ to_server \in Seq(Request) /\ received \in Seq(Request)
      /\ Read \in Nat /\ OnWire \in Nat /\ Taken \in Nat /\ Sent \in Nat
      /\ Len(to_server) \in Nat
  BY Lengths DEF ClientInv, ClientTypeOK
<1>3. PICK l \in Nat : l = Read + 1
  BY <1>2
<1>4. /\ Head(to_server) \in Request /\ Tail(to_server) \in Seq(Request)
      /\ Len(Tail(to_server)) = Len(to_server) - 1
      /\ Append(received, Head(to_server)) \in Seq(Request)
      /\ Len(Append(received, Head(to_server))) = Len(received) + 1
  BY <1>1, <1>2
<1>5. Read' = l /\ OnWire' = OnWire /\ Taken' = Taken /\ Sent' = Sent
  <2>1. Len(received) = Read
    BY DEF Read
  <2>2. Read' = l
    BY <1>1, <1>3, <1>4, <2>1 DEF Read
  <2>3. OnWire' = OnWire
    BY <1>1, <1>2, <1>3, <1>4, <2>2 DEF OnWire
  <2> QED BY <1>1, <2>2, <2>3 DEF Taken, Sent
<1>6. /\ Head(to_server) = Req(request_data, l) /\ Follows(request_data, to_server', l)
  <2>1. Follows(request_data, to_server, Read)
    BY DEF ClientInv, RequestInv
  <2> QED BY <1>1, <1>2, <1>3, <2>1, FollowsHead
<1>7. Follows(request_data, received', 0)
  <2>1. Follows(request_data, received, 0)
    BY DEF ClientInv, RequestInv
  <2>2. l = 0 + Len(received) + 1
    BY <1>2, <1>3 DEF Read
  <2> QED BY <1>1, <1>2, <1>6, <2>1, <2>2, FollowsAppend
<1>8. ClientTypeOK'
  BY <1>1, <1>4 DEF ClientInv, ClientTypeOK
<1>9. PhaseInv'
  BY <1>1, PhaseFrame DEF ClientInv
<1>10. RequestInv'
  BY <1>1, <1>5, <1>6, <1>7 DEF ClientInv, RequestInv, Open
<1>11. ResponseInv'
  <2>1. \A id \in executed : id + 1 \in 1..l
    BY <1>2, <1>3 DEF ClientInv, ResponseInv
  <2> QED BY <1>1, <1>5, <2>1 DEF ClientInv, ResponseInv, Distinct, Awaited, Returning, Counted
<1>12. NoResponseLost'
  BY <1>1, LossFrame DEF ClientInv
<1> QED BY <1>8, <1>9, <1>10, <1>11, <1>12 DEF ClientInv

(* The server answers a request it has not answered before.                *)
LEMMA ServerExecutesStep ==
  ASSUME ClientInv, ServerExecutes
  PROVE  ClientInv'
<1>1. PICK i \in DOMAIN received :
        /\ received[i].id \notin executed
        /\ executed' = executed \cup {received[i].id}
        /\ replies' = Append(replies, received[i].id)
  BY DEF ServerExecutes
<1>2. UNCHANGED <<phase, requests, interval, is_write, next_request_id, request_data,
                  response_count, slot, outgoing, buffer, writer, stream, to_server, from_server,
                  received, server_messages>>
  BY DEF ServerExecutes, loopVars, dataVars, taskVars, wireVars
<1>3. PICK id \in Nat : id = received[i].id /\ id + 1 \in 1..Read
  <2>1. received \in Seq(Request) /\ Len(received) \in Nat
    BY DEF ClientInv, ClientTypeOK
  <2>2. i \in 1..Len(received) /\ i \in Nat /\ 0 + i = i
    BY <2>1
  <2>3. received[i] = Req(request_data, 0 + i)
    BY <2>2 DEF ClientInv, RequestInv, Follows
  <2>4. received[i].id = i - 1
    BY <2>2, <2>3 DEF Req
  <2> QED BY <2>1, <2>2, <2>4 DEF Read
<1>4. /\ id \notin executed /\ executed' = executed \cup {id} /\ replies' = Append(replies, id)
  BY <1>1, <1>3
<1>5. /\ from_server \in Seq(Response) /\ server_messages \in Seq(Response)
      /\ replies \in Seq(Response) /\ id \in Response
      /\ ResponseInv /\ Distinct /\ Awaited /\ Counted
  BY DEF ClientInv, ClientTypeOK, ResponseInv, Response
<1>6. ~Returning(id)
  BY <1>4, <1>5 DEF Awaited
<1>7. /\ replies' \in Seq(Response) /\ Once(replies')
      /\ \A m : Contains(replies', m) <=> (m = id \/ Contains(replies, m))
  <2>1. ~Contains(replies, id)
    BY <1>6 DEF Returning
  <2> QED BY <1>4, <1>5, <2>1, AddResponse DEF Distinct
<1>8. ClientTypeOK'
  BY <1>2, <1>4, <1>7 DEF ClientInv, ClientTypeOK
<1>9. PhaseInv'
  BY <1>2, PhaseFrame DEF ClientInv
<1>10. RequestInv'
  BY <1>2, RequestFrame DEF ClientInv, Open
<1>11. ResponseInv'
  <2>1. ~Answered(request_data, id + 1)
    <3>1. PICK k \in 1..Len(request_data) : k = id + 1
      BY <1>3, Lengths
    <3>2. k - 1 = id
      BY <3>1
    <3> QED BY <1>4, <1>5, <3>1, <3>2 DEF Counted
  <2>2. Distinct'
    BY <1>2, <1>5, <1>6, <1>7 DEF Distinct, Apart, Returning
  <2>3. Awaited'
    BY <1>2, <1>4, <1>5, <1>7, <2>1 DEF Awaited, Returning
  <2>4. Counted'
    BY <1>2, <1>4, <1>5 DEF Counted
  <2> QED BY <1>2, <1>3, <1>4, <1>5, <2>2, <2>3, <2>4 DEF ResponseInv, Read
<1>12. NoResponseLost'
  <2>1. Contains(replies', id)
    BY <1>7
  <2> QED BY <1>2, <1>4, <1>7, <2>1 DEF ClientInv, NoResponseLost
<1> QED BY <1>8, <1>9, <1>10, <1>11, <1>12 DEF ClientInv

-----------------------------------------------------------------------------
(* The invariant.                                                          *)

LEMMA ClientStart ==
  ASSUME ClientInit
  PROVE  ClientInv
<1>1. /\ phase = "connecting" /\ next_request_id = 0 /\ is_write = FALSE /\ request_data = << >>
      /\ response_count = 0 /\ slot = FALSE /\ outgoing = << >> /\ buffer = << >>
      /\ writer = "running" /\ server_messages = << >> /\ stream = "up" /\ to_server = << >>
      /\ from_server = << >> /\ received = << >> /\ executed = {} /\ replies = << >>
  BY DEF ClientInit
<1>2. ClientTypeOK
  <2>1. /\ request_data \in Seq(Record)
        /\ outgoing \in Seq(Request) /\ buffer \in Seq(Request)
        /\ to_server \in Seq(Request) /\ received \in Seq(Request)
    BY <1>1
  <2>2. /\ server_messages \in Seq(Response)
        /\ from_server \in Seq(Response) /\ replies \in Seq(Response)
    BY <1>1
  <2>3. /\ phase \in Phase /\ is_write \in BOOLEAN /\ slot \in BOOLEAN
        /\ writer \in {"running", "stopped"} /\ stream \in {"up", "broken"}
        /\ executed \in SUBSET Nat
    BY <1>1 DEF Phase
  <2> QED BY <2>1, <2>2, <2>3 DEF ClientTypeOK
<1>3. Len(<< >>) = 0
  OBVIOUS
<1>4. PhaseInv
  BY <1>1, <1>3 DEF PhaseInv, Alive, PanicsOnlyByConfig
<1>5. RequestInv
  <2>1. /\ Len(request_data) = 0 /\ Len(received) = 0 /\ Len(to_server) = 0
        /\ Len(buffer) = 0 /\ Len(outgoing) = 0
    BY <1>1, <1>3
  <2>2. Read = 0 /\ OnWire = 0 /\ Taken = 0 /\ Sent = 0
    BY <2>1 DEF Read, OnWire, Taken, Sent
  <2> QED BY <2>1, <2>2 DEF RequestInv, Follows
<1>6. ResponseInv
  <2>1. \A id : ~Contains(<< >>, id)
    BY <1>3 DEF Contains
  <2>2. Distinct /\ Awaited
    BY <1>1, <1>3, <2>1 DEF Distinct, Once, Apart, Awaited, Returning
  <2>3. {k \in 1..Len(request_data) : Answered(request_data, k)} = {}
    BY <1>1, <1>3
  <2>4. Counted
    BY <1>1, <1>3, <2>3, FS_EmptySet DEF Counted
  <2> QED BY <1>1, <2>2, <2>4 DEF ResponseInv
<1>7. NoResponseLost
  BY <1>1 DEF NoResponseLost
<1> QED BY <1>2, <1>4, <1>5, <1>6, <1>7 DEF ClientInv

LEMMA ClientKeeps ==
  ASSUME ClientInv, [ClientNext]_clientVars
  PROVE  ClientInv'
<1>1. CASE Connect \/ RegistrationFails
  BY <1>1, ConnectStep
<1>2. CASE LoopStep
  BY <1>2, StartStep, RequestTickStep, SendRequestStep, HandleServerMessageStep,
     NextIntervalStep, LastIntervalStep DEF LoopStep
<1>3. CASE WriterStep
  BY <1>3, WriterKeeps
<1>4. CASE ReadMessage
  BY <1>4, ReadMessageStep
<1>5. CASE Break
  BY <1>5, BreakStep
<1>6. CASE ServerStarts \/ ServerReads \/ ServerExecutes \/ ServerWrites
  BY <1>6, ServerStartsStep, ServerReadsStep, ServerExecutesStep, ServerWritesStep
<1>7. CASE UNCHANGED clientVars
  <2>1. /\ UNCHANGED <<phase, requests, interval, is_write, next_request_id, request_data,
                       response_count, slot, outgoing, buffer, writer, stream, to_server,
                       from_server, received, executed, replies, server_messages>>
    BY <1>7 DEF clientVars, loopVars, dataVars, taskVars, wireVars, serverVars
  <2>2. /\ replies \in Seq(Response) /\ from_server \in Seq(Response)
        /\ server_messages \in Seq(Response) /\ Distinct
    BY DEF ClientInv, ClientTypeOK, ResponseInv
  <2>3. Distinct' /\ \A id \in Nat : Returning(id)' <=> Returning(id)
    BY <2>1, <2>2 DEF Distinct, Returning
  <2> QED BY <2>1, <2>2, <2>3, ReturnFrame
<1> QED BY <1>1, <1>2, <1>3, <1>4, <1>5, <1>6, <1>7 DEF ClientNext

LEMMA ClientInvariant == ClientSpec => []ClientInv
  BY ClientStart, ClientKeeps, PTL DEF ClientSpec

-----------------------------------------------------------------------------
(* The loop panics only on an interval it cannot use, for every workload   *)
(* and however slow or broken the connection is.                           *)
THEOREM OnlyConfigPanics == ClientSpec => []PanicsOnlyByConfig
<1>1. ClientInv => PanicsOnlyByConfig
  BY DEF ClientInv, PhaseInv
<1> QED BY <1>1, ClientInvariant, PTL

(* The server reads the recorded requests in order, without gap or repeat. *)
THEOREM RequestsArriveInOrder == ClientSpec => []ReceivedInOrder
<1>1. ClientInv => ReceivedInOrder
  <2> SUFFICES ASSUME ClientInv PROVE ReceivedInOrder
    OBVIOUS
  <2>1. received \in Seq(Request) /\ Len(received) \in Nat /\ DOMAIN received = 1..Len(received)
    BY DEF ClientInv, ClientTypeOK
  <2>2. Len(received) <= Len(request_data)
    BY <2>1, Lengths DEF Read
  <2>3. ASSUME NEW i \in DOMAIN received
        PROVE  received[i] = [id |-> i - 1, write |-> request_data[i].write]
    <3>1. i \in 1..Len(received) /\ 0 + i = i
      BY <2>1
    <3>2. received[i] = Req(request_data, 0 + i)
      BY <3>1 DEF ClientInv, RequestInv, Follows
    <3> QED BY <3>1, <3>2 DEF Req
  <2> QED BY <2>2, <2>3 DEF ReceivedInOrder
<1> QED BY <1>1, ClientInvariant, PTL

(* The saved records are true and their number is right.                   *)
THEOREM ResultsTruthful == ClientSpec => []RecordsTruthful
<1>1. ClientInv /\ ReceivedInOrder => RecordsTruthful
  <2> SUFFICES ASSUME ClientInv, ReceivedInOrder PROVE RecordsTruthful
    OBVIOUS
  <2>1. /\ DOMAIN request_data = 1..Len(request_data) /\ Read \in Nat
        /\ Len(request_data) \in Nat
    BY Lengths
  <2>2. /\ response_count = Cardinality({k \in DOMAIN request_data : request_data[k].answered})
    BY <2>1 DEF ClientInv, ResponseInv, Counted, Answered
  <2>3. ASSUME NEW k \in DOMAIN request_data, request_data[k].answered
        PROVE  /\ k - 1 \in executed
               /\ \E i \in DOMAIN received :
                    received[i] = [id |-> k - 1, write |-> request_data[k].write]
    <3>1. k - 1 \in executed /\ k \in Nat
      BY <2>1, <2>3 DEF ClientInv, ResponseInv, Counted, Answered
    <3>2. (k - 1) + 1 \in 1..Read /\ (k - 1) + 1 = k
      BY <3>1 DEF ClientInv, ResponseInv
    <3>3. k \in DOMAIN received
      <4>1. received \in Seq(Request)
        BY DEF ClientInv, ClientTypeOK
      <4> QED BY <3>2, <4>1 DEF Read
    <3> QED BY <3>1, <3>3 DEF ReceivedInOrder
  <2> QED BY <2>2, <2>3 DEF RecordsTruthful
<1> QED BY <1>1, ClientInvariant, RequestsArriveInOrder, PTL

(* While the connection lasts and the run goes on, the response to every   *)
(* request executed is recorded or on its way.                             *)
THEOREM ResponsesKept == ClientSpec => []NoResponseLost
<1>1. ClientInv => NoResponseLost
  BY DEF ClientInv
<1> QED BY <1>1, ClientInvariant, PTL
=============================================================================
