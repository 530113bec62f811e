# Verification of the OmniPaxos key-value store

TLA+ specifications of this repository's replicated key-value store: the server
event loop, the way servers and clients get connected and the cluster starts,
the HTTP gateway, the benchmark client and the log snapshots. TLC checks them on
small instances; TLAPS proves their safety properties and refinements for every
instance, up to the whole system: a gateway in front of a cluster is a
linearizable store over HTTP.

Paths below are relative to the repository root (`src/server/server.rs` is the
server's event loop); `PROJECT.json` maps every definition to its lines.

## 1. The system

A cluster of servers replicates a log of key-value commands with the OmniPaxos
library. A client connects to one server, its *coordinator*, and sends commands;
the coordinator appends them to the log, every server executes the decided log
on its own database, and the coordinator alone answers.

| Component | State | Operations | Talks to |
|---|---|---|---|
| Database (`server/database.rs`, `common.rs`) | a `HashMap` | `handle_command`: put, delete, get | server loop |
| Server loop (`server/server.rs`) | `current_decided_idx`, the database, which of two loops it runs | takeover tick, election tick, batches of cluster messages, batches of client messages | OmniPaxos (calls), network (channels) |
| Run-time connections (`server/network.rs`) | one slot per peer and client, an unbounded queue behind each | `send_to_cluster`, `send_to_client`; reader and writer tasks | server loop, TCP |
| Connection setup (`server/network.rs`) | client-id counter, channel of finished connections, slots | listener, connectors, handlers of incoming streams, `initialize_connections` | other servers, clients |
| OmniPaxos (external crate) | the replicated log | `append`, `handle_incoming`, `tick`, `try_become_leader`, `read_decided_suffix`, ... | server loop |
| Snapshots (`common.rs`) | `snapshotted`, `deleted_keys` | `create`, `merge` | would be called by OmniPaxos; not attached to `Command` today |
| HTTP gateway (`gateway/main.rs`) | id counter, `pending` map, bounded channel | one task per HTTP request, `writer_task`, `reader_task` | HTTP clients, one server |
| Benchmark client (`client/*.rs`) | request records, send queue | start signal, request and interval timers, responses | one server |

What is hard here:

* **Interleaving.** Servers, reader and writer tasks, HTTP requests and setup
  tasks run concurrently. Client and command numbers repeat across servers, so a
  reply is told apart from another server's only by `coordinator_id`.
* **Failure.** A broken connection is never replaced. Messages to it are lost
  silently until its writer task ends; then the slot is emptied.
* **Bounded channels.** The gateway and the client send through channels that
  fill up; the client does not read responses while it waits for room.
* **Ordering and timing.** Decisions arrive in pieces; nothing polls for them.
  Start signals must wait for the forced leader. HTTP timeouts race replies.
  Client ids are given in one order and connections installed in another. A
  server that is done with its set-up takes over while others are still in theirs.
* **Nothing is persisted** (`MemoryStorage`), and no process restarts: there is
  no crash recovery to model. To the others a crashed server is one whose
  connections broke.

What makes each part correct is written down as the properties of section 4;
the hazards behind them, with their lines, are listed in `PROJECT.json`.

## 2. The modules

```
KVStore ──────────┬── LinearizableKV (abstract: one linearizable store)
                  │          ▲ implemented by
OmniPaxos ────────┴── Server ┴── MCServer
 (external contract)
KVStore ── KVSnapshot
ConnectionSetup ─┬─ MCConnectionSetup
                 └─ Takeover ── MCTakeover
Gateway + LinearizableKV ── GatewayStore ─┬─ MCGatewayStore
                                          └─ implements ── HttpKV (abstract)
Server + Gateway ── HttpCluster ─┬─ MCHttpCluster
                                 └─ implements ── GatewayStore, HttpKV
Client ── MCClient
```

The proofs, each module extending the specification it is about:

```
Server ── ServerProofs ── ReplyProofs ─────────────────────┐
Gateway + GatewayStore ── GatewayProofs ── HttpClusterProofs ── HttpCluster
ConnectionSetup ── ConnectionSetupProofs ─┐
Takeover ─────────────────────────────────┴─ TakeoverProofs
KVSnapshot ── KVSnapshotProofs
Client ── ClientProofs
```

**KVStore.** Commands, the database and replies. The `HashMap` is a total
function with `NoValue` for an absent key. `HandleCommand` and `ReplyTo` are the
code; `Effect` and `Answer` say independently what a command means, and the
specifications use only these two.

**OmniPaxos.** What `server.rs` relies on, nothing more: the decided entries
form one log that only grows, a server knows a prefix of it, this prefix grows
only inside `handle_incoming` (a decision needs at least two servers), a proposal
is decided at most once or is lost. Messages are opaque: `outgoing[n]` is the
set of servers for which `n` has buffered messages. `role` is the state of the
forced takeover. It only moves forward, because only the initial leader calls
`try_become_leader` and no instance is ticked before the takeover is done.

**Server.** One action per branch of the two `select!` loops of
`establish_initial_leader` and `run`, with everything the branch calls:

| Action | Code |
|---|---|
| `NetworkReady` | `Network::new` returns: the phase goes from `setup` to `establish` |
| `ReadHandshake` | in its set-up a server reads a peer's handshake, and may drop what came behind it |
| `LeaderInitialized`, `AttemptLeadership` | takeover tick, the two outcomes |
| `ElectionTick` | election tick of `run` |
| `HandleClientMessages` | a batch of client messages: stamp, append, send |
| `HandleOmniPaxosMessage` | one message of a batch: `handle_incoming`, then `handle_decided_entries` up to the loop over commands |
| `ExecuteCommand` | one round of that loop: execute, answer if coordinator |
| `HandleLeaderStartSignal` | one start signal, relayed to the clients |
| `FinishBatch` | trailing `send_outgoing_msgs`; a start signal ends the first loop |
| `ClientRequest` | a client's request put into the channel by its reader task |
| `Decide` | the library chooses a proposal (external) |
| `BreakPeer`, `BreakClient`, `PeerWriterEnds`, `ClientWriterEnds` | connections failing |

A batch of cluster messages is several steps although the task does not yield
inside it; other servers and tasks run in parallel, and properties can look inside
a batch. A batch of client messages is one step: nothing it touches is visible
elsewhere before its trailing send. `link[n][p]` is the whole way of a message
from `n` to the loop of `p` (writer queue, TCP, reader, channel); a burst of
consecutive protocol messages is one element, and `last` says whether handling one
message used the burst up. Timestamps of start signals are left out. Each server
enters its loop by itself, while others may still be in their set-up; what they
are sent there waits in `link`, or is lost when they read the handshake of a peer
with a higher number (`ReadHandshake`; `Takeover` has the details).
`NumClients[n]` is the configuration of `n`. The reader task of a client goes on
feeding requests when the writer of the connection has failed and when its slot is
emptied, as in the code (`ClientRequest` looks at neither). A client numbers its
commands as it likes: `RequestIds[n]` is the set of ids the clients of `n` use,
each at most once and in any order, because the server does not look at them and
several HTTP requests share a connection. `requests[n][c]` are those the server
has read. `ref` is a history variable: the store after each prefix of the log.

A connection goes from `up` to `failing` when its stream breaks (the messages
on the way may be cut at any point), to `closed` when its writer ends, to `none`
when the next send sees the error.

**LinearizableKV.** The abstract specification: one store; a submitted command
takes effect at most once; its reply is fixed at that moment and delivered at
most once, to the session that submitted it. `Server` implements it under the
mapping `KV` (submitted commands are the proposals, history is the log with the
answers the log determines, delivered are the replies sent on working
connections).

**ConnectionSetup.** `Network::new` at all servers at once. A stream passes the
stages of its tasks (`connecting`, `connected`, `identified`, `queued` at the
connecting server; `backlog`, `accepted`, `identified`, `queued` at the listening
one). A handshake may fail at the connecting end (`HandshakeFails`), or the stream
may break before the listening end has read a registration that the other end
takes to be written (`RegistrationLost`). `Receive` is one round of
`initialize_connections`; when everything is connected it aborts the listener and
closes the channel, and what comes later is `lost`. A client tries the addresses
in `Addresses[c]` in turn: a benchmark client has one and panics when its
registration cannot be sent, a gateway has a list and goes on to the next.
`ReadyForServerLoop` is what `Server` has when a server leaves its phase `setup`.

**Takeover.** The start of the cluster: `ConnectionSetup` at all servers,
composed with the takeover loop of the initial leader, which begins as soon as
the leader's own set-up is done. Every step of the set-up is a step of the
composition (`During`). `stream[p]` is what the leader has sent `p` and `p` has
not read: `Prepare` (answered by a promise, repeated on every tick) and
`LeaderStartSignal` (sent once). `Reframe` is the change of framings in
`handle_incoming_connection`: reading the handshake may take messages behind it
out of the socket, and `into_inner()` drops them. The leader needs the promises of
`ReadQuorum` servers, itself included: the read quorum of
`initial_flexible_quorum`, or a majority. Client messages and everything
after the start are left to `Server`, which has the set-up only as a phase.

**Gateway.** `submit_command` cut at its awaits, `writer_task`, `reader_task`
(removing the entry and using its sender are two steps), cancellation by an HTTP
client that disconnects, and a server that executes each command at most once
and may answer late or never. A command is named by its request.

**HttpKV, GatewayStore.** `HttpKV` says what the HTTP interface promises: a
command takes effect at most once, after its request was made; 200 carries the
result of that moment; 500 and 504 leave the effect open; 503 excludes it.
`GatewayStore` puts the gateway in front of `LinearizableKV`, so that together
with `Server`'s refinement the HTTP side is connected with the code of the
cluster: writing a command submits it, the server's steps are the store's
`TakeEffect` and `Respond`, all others leave the store alone. The gateway is one
session of the store; other sessions submit `OtherCommands`, which may carry the
gateway's client number and ids but then come from another server. `GetBody` and
`WriteBody` are what the three handlers make of a reply. Routing and JSON are
left out.

**HttpCluster.** The whole system: `Gateway`, whose server is now one of the
cluster of `Server`. They share three steps. `ReadCommand`: the reader task of the
server takes a command off the gateway's connection; those on the way are read in
any order or never, which covers a swallowed or cut stream. `DecideCommand`: the
cluster decides it, which is when the gateway's model calls it executed.
`AnswerCommand`: the gateway's server executes it and sends the reply. Everything
else is a step of one side alone (`GatewayAlone`, `ClusterAlone`). The guards
of the shared steps belong to both sides; that neither is kept from a step by the
other is a property (`InStep`).

**Client.** `Client::run`: the start signal, then the biased select with its
branches `HandleServerMessage`, `RequestTick` (which leaves the loop waiting in
`SendRequest`) and the end of an interval (`NextInterval`, `LastIntervalEnds`).
The writer task takes batches (`TakeBatch`) and writes them one by one, the reader
fills `server_messages`; both channels and the stream are bounded, the server's
queue of replies is not (`network.rs:399`). The clock is reduced to the
order of the timers: the first request tick of an interval is due at once, so an
interval of rate 0 sends exactly one request; others come at any moment, at most
`MaxTicks` per interval. Waiting for the start time only delays `Start`. The
server executes what it has read in any order, at most once, or not at all.

**KVSnapshot.** `Create` and `Merge` as operators on sequences of commands (the
loop of `create` as a recursive function on its rounds), in a state machine that
appends to a log and compacts it.

Operators introduced by a comment `Fault:` are deliberately wrong variants of
the definition they precede, used to see that the properties notice (see
`mutants` in `PROJECT.json`). No specification uses them.

## 3. The runs

| Run | Instance | Result |
|---|---|---|
| `replication` | 2 servers, 1 client each; 2 writes (put or delete) at the leader, 1 read at the other; no failures | holds, 672 000 states |
| `failures` | 2 servers, 1 request per client, 1 broken connection | holds, 739 000 states |
| `server_liveness` | 2 servers, 1 request per client, with fairness | holds, 18 000 states |
| `snapshot` | all logs of at most 4 entries over 2 keys, all splits | holds |
| `snapshot_restore` | 1 key | **violated** (finding) |
| `connection_setup` | 2 servers expecting 2 and 1 clients, 2 clients and a gateway that knows both, 2 failures (handshakes or registrations) | holds, 66 000 states |
| `excess_client` | a client and a gateway at a server configured for 1 | **violated** (finding) |
| `takeover` | 3 servers, the lowest is the initial leader, read quorum 2, 1 client, 1 failed handshake or registration, with fairness | holds, 203 000 states |
| `early_start` | the same with the highest as initial leader, no failures | **violated** (finding) |
| `http_store` | 2 requests with any of put, delete, get; channel capacity 1; a put by the client with the same number and id at another server; with fairness | holds, 880 000 states |
| `http_cluster` | 2 servers, a gateway at the second with 1 request (get), a client of the first that puts | holds, 398 000 states |
| `client` | 5 workloads (none, busy, idle, unusable first or later), 3 ticks each, channels and stream of capacity 1, with fairness | holds, 108 000 states |

Deadlock checking is off everywhere: the instances are finite (bounded requests,
a set-up that ends) and the system may come to rest.

**Bounds.** Two servers are enough for a coordinator and a replica that lags, and
for equal client numbers at two servers, which is what the reply properties are
about. In the `MCServer` runs the initial leader has the higher number, so that
the other server may swallow its first messages in its set-up. Three are used
where a third party matters: a server that goes on while two others are still
connecting. The set-up of clients needs no third server but several clients, one
of which can go to either server. Two writes and a read make the order of writes
and the moment of the read visible; a decision of two commands at once, and of one
after the other, both occur. A channel of capacity one is full as soon as two
tasks want it. Two HTTP requests are enough for a read during, before or after a
write, and for a late reply that could be given to the other request. In
`http_cluster` the read is decided before or after a write elsewhere, and executed
by a server that lags behind; a second HTTP request or a broken connection takes
the composition out of TLC's reach, but each side is checked with them by itself
(`http_store`, `failures`), and the theorems about `HttpCluster` cover them.
`BatchSize` 2 allows one or several client messages per batch. The proofs remove
the bounds for the properties they cover.

## 4. The properties

Server: `ReplicaState` (a database is the executed prefix of the log),
`NothingForgotten` (a waiting server has executed all its instance decided),
`RepliesFollowLog` (a client's replies are, one by one and in log order, the
answers to exactly its session's commands among the first `m` log entries; `m` is
all the server has executed while the connection is up, and some earlier point
of the log after a failure), `StartDiscipline` (start signals once
and after the takeover, and no server in its main loop with a connected client it
has not told), `Linearizable` (refinement of `LinearizableKV`),
`ClusterStarts` and `RequestsAnswered` (liveness).

Connection setup: `ReadyForServerLoop`, `PeersMeet` (no connection between
servers is ever dropped by a server that finished first).

Cluster start: `StartSignalsArrive` (the start signal, sent once, is relayed or
still to be read by every follower, wherever that is in its set-up),
`ClusterBegins` (unless a handshake or registration fails, every server gets
connected, the leader takes over, every server starts its clients).

Gateway: `OwnAnswer` (200 carries the result of the request's own, executed
command), `UnavailableMeansUnsent` (503 is safe to retry; 500 and 504 are not:
the command may be executed later), `NothingLeftPending`, `NoAnswerLost`.
Together with the store: `HttpLinearizable` (refinement of `HttpKV`) and
`RequestsEnd`.

Whole system: `InStep` (what the server has proposed for the gateway and is not
decided, the gateway has sent and holds to be unexecuted; what it is about to
answer, the gateway holds to be executed and unanswered), `ServesGateway`
(refinement of `GatewayStore`: the cluster is the store behind the gateway),
`EndToEnd` (refinement of `HttpKV` by the whole system).

Client: `PanicsOnlyByConfig` (a response always finds its record, the first
message is the start signal; only an interval with duration 0 or more than 1000
requests per second panics), `RecordsTruthful` (what is saved as answered was
executed, and is of the recorded kind), `ReceivedInOrder` (the server reads the
recorded requests from the first on, without gaps), `NoResponseLost`,
`ClientFinishes`.

Snapshots: `CreateIsReplay`, `MergeIsReplayBut` (exactly when merging a delta
differs from executing it).

`ClusterStarts` is about servers that enter their loops in any order and lose
attempts of the leader in their set-up. With two servers it does not matter which
of them leads: the leader cannot take over without the other, which has left its
set-up when it promises. With more it can lose a start signal to a third server;
this is what `StartSignalsArrive` and the run `early_start` are about.

**Fairness.** `tokio::select!` picks at random among ready branches, and a
branch is not ready while its task is in a handler: strong fairness for timers
and client messages. A handler that has begun goes on: weak fairness for its
steps. Of the library it is assumed that attempts to lead and ticks reach all
peers, that handling messages elects the only candidate and finally tells every
server all decisions, and that proposals are decided. In `Server` the set-up of
every server ends (`ClusterBegins` says when it does). No fairness is given to
failures or clients. In the set-up every task and every retrying client goes on,
timers fire and the loops handle what arrives. `ClusterBegins` says
nothing after a failed handshake or a lost registration, which the code never
retries.
In the gateway, tasks and the clock go on, and the writer task makes progress or
fails; without that last assumption `RequestsEnd` is false, because the send
into the full channel is not covered by `request_timeout`. In the client the
loop and the writer go on and the server keeps reading, which it can because it
never waits for a client; nothing is assumed about its answers. `ClientFinishes`
rests on one more assumption, the bound `MaxTicks`: request ticks come before the
end of an interval in the biased select, so an interval ends only if the loop
catches up with them now and then.

## 5. Findings

* **A delta snapshot can bring a deleted key back** (`snapshot_restore`).
  `create` records a deletion only if the key is absent *from the delta*
  (`common.rs:86`). A delta that puts and then deletes a key mentions it
  nowhere; merged into a snapshot with the key, it leaves the old value in
  place. `MergeIsReplayBut` shows this is the only case, and
  `RestoresUnlessHidden` proves that without it a restart is right. The code is
  latent: `Command` does not use `KVSnapshot` yet.
* **A connected client may never be started** (`excess_client`). Start signals
  go to ids 1..`num_clients` (`server.rs:214`), but with one client too many the
  connection that is kept may be the one with id 2; the server runs, and its only
  client waits forever. The example configurations lead there: every server
  expects one client, `run-local-client.sh` starts one for servers 1 and 2, and
  `gateway.toml` lists server 1 first. `AllClientsStarted` proves that it takes a
  client too many.
* **A follower can swallow the start signal** (`early_start`). A server counts a
  connection it made as ready when its handshake is written. If the initial
  leader has made all its connections, it may take over, with the promises of a
  read quorum, and send the start signal while some follower has not read the
  handshake yet. That follower reads it through `frame_registration_connection`,
  which buffers what the socket holds, and `into_inner().into_inner()`
  (`network.rs:165`) throws the buffer away. It never leaves
  `establish_initial_leader`, and its clients wait forever. A leader with the
  lowest id only accepts connections and is safe (`takeover`, and for every cluster
  `LowestLeaderStartsAll`), as in `cluster-config.toml`; the benchmark
  (`benchmarks.py:30`) uses the highest.

## 6. What is proved

Every safety property that a passing run checks is a theorem, for every value of
the constants, and so is every refinement. For each property that a run of
section 5 violates there is a theorem with the condition under which it holds.

| Module | Theorem | Property |
|---|---|---|
| `ServerProofs` | `TypeCorrect`, `StateMachineSafety`, `DecisionsExecuted`, `StartsOnce` | `TypeOK`, `ReplicaState`, `NothingForgotten`, `StartDiscipline` |
| `ReplyProofs` | `RepliesInLogOrder`, `ImplementsLinearizableKV` | `RepliesFollowLog`, `Linearizable` |
| `ConnectionSetupProofs` | `ServersReady`, `PeersAlwaysMeet`, `AllClientsStarted` | `ReadyForServerLoop`, `PeersMeet`, `StartSignalsReachClients` unless too many clients come |
| `TakeoverProofs` | `TakeoverImplementsSetup`, `PeersMeetDuringTakeover`, `LowestLeaderStartsAll` | –, `PeersMeet`, `StartSignalsArrive` |
| `GatewayProofs` | `AnswersOwn`, `UnavailableIsUnsent`, `PendingCleanedUp`, `AnswersArrive`, `ImplementsHttpKV` | `OwnAnswer`, `UnavailableMeansUnsent`, `NothingLeftPending`, `NoAnswerLost`, `HttpLinearizable` |
| `HttpClusterProofs` | `KeepsBothParts`, `NeverOutOfStep`, `ClusterServesGateway`, `LinearizableOverHttp` | `Server` and `Gateway` each as they are, `InStep`, `ServesGateway`, `EndToEnd` |
| `KVSnapshotProofs` | `SnapshotOfLog`, `MergeOfDelta`, `RestoresUnlessHidden` | `CreateIsReplay`, `MergeIsReplayBut`, `SnapshotRestores` unless a deletion is hidden |
| `ClientProofs` | `OnlyConfigPanics`, `RequestsArriveInOrder`, `ResultsTruthful`, `ResponsesKept` | `PanicsOnlyByConfig`, `ReceivedInOrder`, `RecordsTruthful`, `NoResponseLost` |

**Assumptions.** Those named in the modules, which TLC evaluates on every run: the
constants have their types, and the values that stand for "none" are not data
(`NoValue`, `NoClient`, `NoRequest`, `NoResult`, `NoCount`, `StartSignal`; in the
gateway the two states of an empty oneshot channel are not requests). Two say
more. `ServersAssumption`: the initial leader is a server; a configuration that
names another one never starts. `SetupAssumption`: finitely many clients connect,
none of them is a server, each has at least one address. Server numbers are
naturals (`ServerAssumption`, `SetupAssumption`), because `Network::new` compares
them, and `ReadQuorum` is any number from 1 to that of the servers
(`TakeoverAssumption`). Servers and keys may be infinitely many, and nothing
bounds requests, failures, queues or logs (`MaxFailures` and `MaxEntries` are
arbitrary). `LowestLeaderStartsAll` has the hypothesis that no server has a lower
number than the initial leader. It cannot be dropped: `early_start` violates the
same property with another leader.

**The replicas.** `ReplicaState` is not inductive: to know what executing the
next command leads to, one must know that the pending commands are the next ones
of the log. `ReplicaInv` adds that a server has picked up exactly what its
instance decided (`PickedUp`), that its pending commands are the log segment
ending there (`PendingSegment`), that nothing is pending outside a handler
(`IdleHasNothingPending`), and that `ref` follows the log (`RefFollowsLog`).
Three actions disturb it, each with a lemma: `HandleOmniPaxosMessage`,
`ExecuteCommand` (where `HandleCommandEffect`, the code against the meaning of a
command, is used) and `Decide`. All others fall under `ReplicaInvFrame`.

**The replies.** Given `ReplicaInv`, `RepliesFollowLog` is inductive.
`ExecuteIsNextEntry` says that `ExecuteCommand` handles the entry after the
executed prefix, so its reply, if it is sent, extends the enumeration of the
session's entries by one (`EnumerationGrows`); when the connection has failed it
is dropped, and the point `m` stays where it is.

**Linearizability.** The refinement needs to know whose reply a reply is. `IdInv`:
no two messages of a session, waiting or proposed, have the same id, and the log
holds proposals, each once. Hence a reply names one entry of the history. The
steps of `LinearizableKV` are then `HandleClientMessages` (`Submit`), `Decide`
(`TakeEffect`, with the answer `ref` determines) and, at a coordinator whose
client is connected, `ExecuteCommand` (`Respond`); everything else stutters.

**The start.** A server starts its clients when it has taken over or when it
handles a start signal, so `StartInv` follows the signals through the connections:
there is at most one on a link, it comes from the initial leader after its
takeover, and it finds a server that is not in its main loop and has started
nobody (`SignalsOnTheWay`); a server in its set-up may lose it, which leaves these
facts alone. A follower tells its clients while it handles the signal, still in
`establish_initial_leader`; a server that is started, or will be at the end of its
batch, has started its clients (`ClientsStarted`).

**The set-up.** For the peers, `PeerInv`: both ends of a stream begin together; a
connection that waits in the channel or is installed has been handed over once; a
server that has returned holds all its peers, so nothing between servers is left
that closing its channel could lose. For the clients, `ClientInv`: a client is at
one server, and the id counter never exceeds the number of clients named, those
whose registration failed left out. `ReadyForServerLoop` follows by counting: a
server that returned has installed at least `num_clients` different ids, and if no
more clients came all of these are at most `num_clients`. `AllClientsStarted` is
the other half: ids are given to clients that are at the server, so with no more
clients than configured no id exceeds `num_clients`, and the start signals reach
every client the server holds.

**The takeover.** The composition implements `SetupSpec` step by step, so `PeersMeet`
carries over to a leader that is already sending. For the leader with the
lowest id, `SignalInv` needs one fact from `SetupInv`: when the leader ticks, it
has a connection to every follower. Nobody reads a handshake of that leader,
so `Reframe` never drops a message.

**The gateway.** `GatewayInv`: ids are not shared (`UniqueIds`); a command is
beyond its task only after the send (`SentByTask`); a reply moves along one way
and its entry in `pending` is gone once the reader has it (`ReplyPath`); the
sender of a waiting request is in `pending`, with the reader, used, or dropped
with the reader (`SenderKept`). For `HttpKV`, `StoreInv` adds that of the
gateway's session the history of the store holds the commands of the executed
requests, each once, and that only a 200 has a body; a command carries its
session and its id, so it belongs to one request, whatever numbers other sessions
use, and the reply in the history is the body its handler writes.

**The whole system.** `HttpClusterInv` puts together what is known of the cluster
(`ReplicaInv`, `RepliesFollowLog`, `IdInv`) and of the gateway (`GatewayInv`). Each
carries over because every step is, for each side, one of its own or a stutter
(`StepOfCluster`, `StepOfGateway`). What is new is that they agree
(`KnownToGateway`): what is in flight in the cluster for the gateway, it has sent
(`KnownInFlight`); what the log holds for it, it holds to be executed
(`KnownInLog`); what it holds to be answered, its server has executed
(`AnsweredIsApplied`). A server executes an entry once and a command occurs once in
the log, so what the server is about to answer is still unanswered: that is
`InStep`. For `ServesGateway`, one lemma per kind of step shows which step of
`GatewayStore` it is: writing a command submits it (`StoreGateway`), reading it
stutters (`StoreRead`), deciding it is `Executes` (`StoreDecide`), executing it at
the coordinator is `Replies` (`StoreAnswer`), and the cluster alone serves the other
sessions or stutters (`StoreCluster`). `EndToEnd` then follows from
`ImplementsHttpKV`. `SameKV`, `SameStoreStep` and `SameHttp` only say that the
instance of the proof module means the same as that of the specification.

**The snapshots.** `create` and a replay are loops over the log, so the
arguments are inductions over its length. They are stated in first-order form: a set
of lengths that holds 0 and is closed under successor holds all (`PrefixInduction`,
from the least element of a set of naturals), and a loop has a result
(`LoopExists`, by the same induction). `KeyStateAlways` is the invariant of both
loops run side by side: for each key, what `create` has collected and what a replay
holds after `i` commands are functions of the last write of that key and of whether
its deletions found it in the delta. `CreateReplays` and `MergeReplaysBut` read the
two properties off it. `CompactRestoresIff` says that a compaction keeps the
snapshot right if and only if no deletion of a key in the snapshot is hidden by
the delta, whence `RestoresUnlessHidden`.

**The client.** On the way out the requests the server has read, those on the
stream, in the writer's batch and in the channel follow one another in
`request_data` without a gap while the stream is up (`RequestInv`). On the
way back a response is in one place and once, its request was executed, and its
record is still open (`ResponseInv`); so no response finds a record filled in or
missing, which is what the loop would panic on.

**Only model-checked.** Liveness, which the prover does not reach: `ClusterStarts`,
`RequestsAnswered`, `ClusterBegins`, `RequestsEnd`, `ClientFinishes`. The
properties that the runs of section 5 violate are refuted on their instances.

## 7. Not modelled

* The OmniPaxos protocol (external; its contract is assumed).
* Serialisation, and configuration files (the values appear as constants). Of the
  framing only the change after a registration is modelled, by whole messages: a
  frame cut in two there would make the rest of the stream unreadable.
* Memory: outgoing queues are unbounded in the code and in the model.
* Real time: how many requests an interval sends, start times, `sync_time`.
* The files the client and the server write. Deployment scripts.

## 8. Plan

1. Type invariants of `GatewayStore` and `Takeover` as theorems of their own; they
   are parts of `StoreInv` and `SignalInv` now.
2. A clock for the benchmark client, to say when missed request ticks let an
   interval end.
3. A gateway that picks its server while the cluster is set up: `HttpCluster` begins
   with a gateway that is one of its server's clients.
4. `Server` and `Takeover` in one: start signals lost in the set-up of three servers,
   with clients that send requests meanwhile.
