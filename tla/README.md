# Verification of bevy_iroh

`bevy_iroh` is a networking plugin for Bevy over iroh (QUIC). A game runs a
synchronous loop of frames; the network is served by asynchronous tasks on a
tokio runtime. Everything that is hard about the library lies between the two:
queues of bounded size, a broadcast channel that carries close orders to tasks
that may not have subscribed yet, and objects whose dropping is itself a signal.
This directory holds TLA+ models of that machinery, TLC configurations that check
them on small instances, and TLAPS proofs, for all instances, of their safety
invariants and of the refinements of their abstract specifications.

Source references are relative to the repository's `src/` (the crate's code).
The features taken are the default ones: `client`, `server`, `recv_channels` and
`shared-client-id`.

## The system

| Part | State it keeps | Operations | Talks to |
|---|---|---|---|
| **client** (`client.rs`) | the connections by local id, the default one | `open_connection`, `close_connection`, `close_all_connections`, `set_default_connection`; the run conditions | its connections, by calls |
| **client connection** (`client.rs`, `client/connection.rs`, `client/connection/client_id.rs`) | `Connecting`/`Connected`/`Disconnected`, its ends of the queues | `disconnect`, `reconnect`, being dropped; `handle_client_events` each frame | the connection task, its watcher and the channel spawner, by three queues and the close broadcast |
| **channel table** (`ChannelsIdsPool`, `send_channels` in `shared/peer_connection.rs`) | available ids, default id, a vector of optional channels | `open_channel`, `close_channel`, `set_default_channel` | the spawner, by `CreateChannel` messages |
| **sending half** (`shared/channels.rs`, `channels/tasks.rs`, `reliable/send.rs`, `unreliable/send.rs`) | a queue of payloads per channel, tasks | `send_payload`, the loop and the drain of each kind of task, the closing of the connection | QUIC streams and datagrams; `LostConnection` reports back |
| **reliable framing** (`reliable/codec.rs`, `reliable/recv.rs`) | the decoder's state and buffer | `encode`, `decode` | the stream |
| **receiving half** (`reliable/recv.rs`, `unreliable/recv.rs`, `peer_connection/recv_channels.rs`) | one queue of incoming payloads, a vector of buffers | receiver tasks, `dispatch_received_payloads`, `receive_payload`, `clear_*`, `internal_reset` | frames and receiver tasks share the queue |
| **server endpoint** (`server.rs`, `server/endpoint.rs`, `server/client_id.rs`) | the client map, open channels, id pool, counters | accept, acknowledge, `handle_server_events`, `open_channel`, `close_channel`, `disconnect_*`, `start_endpoint`, `stop_endpoint` | a task per connection, by one queue to the endpoint and one acknowledgement back |
| **server sends** (`server/endpoint.rs`, `server/messages.rs`) | the vectors of channels and their queues | `send_*`, `send_group_*`, `broadcast_*` | the channel tasks, by their queues |

What makes each correct:

* *client*: an id names one connection for ever; the run conditions tell of the
  default connection what happened to it.
* *client connection*: one outcome per attempt; a loss is only reported of a
  connection that is not down; nothing of a given-up attempt leaks into the next;
  what was given up ends; connecting ends; a loss is noticed.
* *channel table*: an id in use is never handed out; the default id is only if the
  user asked for it; ids come back.
* *sending half*: order and exactly-once writing per ordered channel; nothing
  accepted is lost while the connection works and the peer reads; closing flushes,
  then ends.
* *framing*: frames come out as they went in, wherever the stream is cut.
* *receiving half*: order; every payload read once, refused with an error,
  cleared on request, gone with its connection or with a stream whose frames do not
  decode; bounded memory.
* *server endpoint*: a connection of a client is announced once and lost at most once; the client
  map agrees with the events; the endpoint's channels exist for all clients, also
  across stops and restarts.
* *server sends*: the result accounts for every client the call was for.
* *client and server together*: a client that is told it is connected is known to
  the server; the end of a connection on one side is noticed on the other.

What is hard to test is listed, line by line, under `hazards` in `PROJECT.json`:
orders that reach a broadcast channel before their receiver subscribes, two tasks
that write to one queue, a `select!` that drops a half-finished write, loops that
stop at the first failing client, and bounds off by one.

## Modules

| Module | Models |
|---|---|
| `ConnectionLife` | abstract: the states and events a client connection promises |
| `ClientConnection` | the life of one client connection over several attempts |
| `ChannelsIdsPool` | the id pool, used by the next and by `ServerEndpoint` |
| `ClientChannels` | the channel table of a client connection |
| `IrohClient` | the client: its connections, each a `ConnectionLife`, the default one, and the `ClientChannels` of one of them |
| `FifoChannels` | abstract: what the ordered reliable channels of a connection promise |
| `SendChannels` | the sending half of one connection, client or server |
| `ReliableCodec` | one stream between an encoder and a decoder |
| `RecvChannels` | the receiving half of one connection, client or server |
| `ServerEndpoint` | the server's endpoints, from each `start_endpoint` to its `stop_endpoint` or its replacement |
| `EndpointSends` | the server's sends to one client, a group and all |
| `Handshake` | a `ClientConnection` and a `ServerEndpoint` composed |
| `ClientConnection_proofs`, `IrohClient_proofs`, `SendChannels_proofs`, `ReliableCodec_proofs`, `RecvChannels_proofs`, `ServerEndpoint_proofs`, `EndpointSends_proofs`, `Handshake_proofs` | theorems |
| `MC*` | the instances TLC checks |

`PROJECT.json` maps every definition to the lines it models.

**Correspondence.** Variables are the fields of the code's structs, the contents
of its queues, and the program points of its tasks. An action is one call of the
user, one turn of a loop of a Bevy system, or the code of a task between two
awaits at which another task can be seen to interfere. Bevy systems hold the
resource exclusively, so within a frame user calls and system loops do not
interleave with each other, only with tasks: `phase` (`frame` in `RecvChannels`)
says which part of the frame is running. Nothing orders the two systems of
`IrohSyncPreUpdate`, and `RecvChannels` runs them in either order.

A tokio queue is a sequence, or a number when all its messages are alike. Where
the capacity of a queue matters it is a constant; a `try_send` on a full queue is
an action of its own, a `send().await` is disabled until there is room. A
broadcast receiver sees the orders sent after it subscribed: `ClientConnection`
keeps the log of orders and the place of each receiver in it (`since`),
`SendChannels` the log (`orders`) and what of it each task subscribed too late to
hear (`missed`). Dropping the sender ends every `recv`, which is `held` and `dropped`.

A panic (`expect` on `open_uni`, on a report that cannot be sent) ends the task
and drops what it holds. `SendChannels` splits the sending of a frame in framing
and writing, as the `FramedWrite` keeps what a dropped future leaves: the drain
that follows flushes it first. Between the end of the drain and the end of the task
(`flushing`) the queue still exists, and what is put into it then goes with it.

A peer that drops a stream stops it: writes to it fail with the connection open.
`StopStream` is that, and `DecodeFails` in `RecvChannels` what makes this library's
receiver do it. The frames the decoder refuses are a constant there (`Overlong`):
which those are is the question of `ReliableCodec`. What the peer had sent, or still
sends, on a stream after such a frame is `cutOff`.

**Composition.** `Handshake` instantiates `ClientConnection` and `ServerEndpoint`
and takes their steps as they are; what each of them leaves to its environment gets
its cause in the other. The client's `ConnectSucceeds` needs a server that has
taken the connection from its accept loop, the server's `Accept` a client that has
completed its half, the id a server task that has sent it, and each side's
`ConnectionLost` follows the end of the connection on the other, or is the
network's. `IrohClient` uses `ConnectionLife` for its connections, which is what
`ClientConnection` implements, and takes the steps of `ClientChannels` for the
channel table of one of them while it is held.

Payloads are numbers in the order of their sending; a payload longer than its
channel's frame is a member of `Oversized`. `ReliableCodec` alone looks at bytes,
in a small base, since its properties are about lengths.

**Definitions named `Mut...`** are not part of the models. Each is a definition
changed the way a plausible slip in the code would change it (a dropped guard, a
missing release, a report that is not sent). Put in the place of the original it
makes TLC refute the property it is listed with, which shows that the property
depends on the code being right.

## What is checked

### Properties that hold

* `MCClientConnection`: two attempts. Every interleaving of the frame, the user,
  and per attempt the connection task, the watcher, the spawner and one channel
  task. *ImplementsLife*: the connection implements `ConnectionLife`, with the
  kinds of its events as `told`; in particular an attempt has one outcome, and a
  loss is only raised of a connection that is not down (after a loss that is told
  before the connection, a second one may be). *NoEventOfEarlierAttempts*.
  *GivenUpAttemptsFinish*: what `reconnect` or `close_connection` gave up ends for
  good. Two attempts let every message of the first be late for the second; a
  third would only repeat that, as `reconnect` replaces all queues.
* `MCIrohClient`: two connections, so that one id is used, closed and not given
  again and the default changes hands; two channel ids for the first, one
  configured, and one place for `CreateChannel`, so that both the ids and the queue
  run out. *LocalIdsNameOneConnection*: the client implements `ConnectionLife`
  with its local ids as the connections. *RunConditionsTellNews*: between two
  evaluations of a `just_` condition that holds, such an event happened to the
  default connection. *OpenIdsAreTaken* of the channels, and *DefaultStaysTaken*: the default
  channel's id gets into the pool only when the user makes a free id the default,
  as `set_default_channel`, which takes any id, lets them.
* `MCSendChannels`: one channel of any kind, three payloads of which the second is
  too long, a queue of two, the connection kept after it is closed, as the client
  does: a late `Connected` may have it take payloads again, and be closed again.
  *ImplementsFifo*: an ordered channel implements `FifoChannels` with the accepted
  payloads as `sent` and the stream as `delivered`, the payloads that are too long
  left out. *NoSilentLoss* names what may be lost while the connection works:
  payloads of a task told that the peer is gone; of a stream the peer stopped, of
  which the user is told unless the task was draining; accepted after an order to
  close; held by a task that panicked over a payload too long. *ChannelCloseFlushes*,
  *DroppedCloses*. Three payloads allow one in the writer's buffer, one refused and
  one still queued when a signal comes.
* `MCSendChannels_two`: two channels of any kinds, two payloads of which the first is
  too long, queues of one, the connection dropped with the close order, as the
  endpoint does with a client, or with no order, as when `start_endpoint` replaces
  an endpoint. *NoDuplicates*, and *CloseFlushesSpawned*, of what was accepted before
  the order on streams the peer reads. Two channels let the spawner hear the order
  with one task running and one not yet spawned.
* `MCServerEndpoint`: two peers, one channel, open at the start, a second endpoint
  after or in place of the first, an endpoint queue of one place, so that tasks wait
  for it, and one place for `CreateChannel` messages. Two peers are needed for a loop
  to fail at one client and not at the other, and for one to belong to the old
  endpoint and one to the new; the one id is closed, opened again, and fails at
  either. *EventsOfAClient*, by connection (a second endpoint gives the ids of the
  first again), *TableMatchesEvents*, *OpenForAll*, *AvailableIsUnused*,
  *NoClientCountedTwice*, and, of its tasks, *LostClientRemoved* and
  *RemovedClientClosed*.
* `MCEndpointSends`: two clients (symmetric), two ids, queues of one, groups of up
  to three, so that a client may be named twice and the second payload find its
  queue full, or emptied. *OutcomeTellsAll*, also with a default channel that is
  not open. *OpenIsSendable*: with two ids, the vector of one client ends before an
  id that the other's reaches.
* `MCHandshake`: one attempt, an endpoint without channels, with a queue of one,
  that may be stopped. *ConnectedIsAnnounced*, and, under fairness,
  *ConnectingResolves*, *GivenUpIsRemoved* and *EndIsNoticed* (of a client whose
  watcher has yet to signal: see the disagreements below). Attempts share nothing
  on the wire, and are told apart in `MCClientConnection`. One start of the
  endpoint (two are in `MCServerEndpoint`) and no channels on the server: there, a
  loss is always noticed by the watcher, so reports of channel tasks as its source
  are left to `MCServerEndpoint`.
* `MCRecvChannels`: server; an ordered channel with id 1 and an unreliable one with
  id 2, two receive channels allowed, three payloads on the first and one on the
  second, a queue of two, buffers of one, one reset. The decoder refuses the frame
  of the first payload of the ordered id, so that its stream ends: the other two are
  cut off with it, on their way or not yet sent, or are of another channel that took
  the id, or of another connection. The vector grows over a gap, one channel is
  refused for its id and the other when its buffer is full, and a payload may be no
  message.
  *ReadInOrder*, *EveryPayloadInOnePlace*, *BufferBounded*, *ChannelsBounded*, and
  *PayloadsArrive* with a user who need not read. One reliable channel competes for
  the queue with the datagrams; what a second one would add is one more sender that
  waits for room.
* `MCReliableCodec`: three frames with lengths 0, 1, the maximum and one more.
  *DecodedIsPrefix*, and *ShorterIsDecoded*: all is decoded until a payload has
  the maximal length.

`CHECK_DEADLOCK FALSE` is set where the system may come to rest: a closed
connection whose tasks ended, a stopped endpoint, a stream with nothing to carry.

### Disagreements with the documentation

Three runs find the behaviour that refutes a sentence of the repository; the
sentence is quoted under `findings` in `PROJECT.json`.

* `MCClientConnection_zombie`: `ConnectionClosed` queued before `Connected`
  leaves a dead connection `Connected` for good.
* `MCSendChannels_unspawned`: channels not yet spawned lose their payloads when
  the connection is closed.
* `MCReliableCodec_max`: a payload of exactly the default maximum is accepted and
  never delivered.

Others were met while modelling. The models do what the code does in each, but for
the statistics and the channel a message is read from by default, which they leave
out; and no property claims the contrary:

* A `Connected` message queued before `disconnect()` sets a disconnected connection
  back to `Connected` (`client.rs:325`). What is then sent on its channels is taken
  by tasks that end, and may be lost without a word.
* A frame the decoder refuses ends its stream on the receiver without an error, with
  all that is behind it (`reliable/recv.rs:52`). The sender only learns of it by
  the stopped stream: in its loop it reports the loss of a connection that is there,
  in its drain it logs it and drops the payloads (`reliable/send.rs:49`, `:65`).
* `disconnect()` while connecting is not heard by the spawner, which subscribes
  later; the QUIC connection stays open while the object is kept
  (`client/connection.rs:455-461`). In the same way a channel task spawned between
  the order and the spawner's hearing it keeps the connection open
  (`channels/tasks.rs:72`). Dropping the connection ends both:
  *GivenUpAttemptsFinish*, *DroppedCloses*.
* Failed `open_channel` and `close_channel` calls of a client never release their
  id, so that `MaxChannelsCountReached` may come with fewer channels open
  (`client/connection.rs:194-207`).
* A failing `close_channel` of the endpoint leaves the channel open at the clients
  after the one that failed, for good (`server/endpoint.rs:350-361`).
* `disconnect_all_clients` does not count the clients it removes
  (`server/endpoint.rs:273-277`).
* With a maximum of zero buffered payloads the first one of a channel is buffered
  all the same (`recv_channels.rs:92-98`); *BufferBounded* is checked and proved of a
  positive maximum.
* `set_default_channel` and `set_default_connection` take any id. A payload sent
  with no channel goes to whatever channel is later opened under it. *DefaultStaysTaken*
  says that it takes such a call. When `open_channel` of the endpoint then fails
  under that id, the default is lost with it (`server/endpoint.rs:317-322`).
* The default channel is the sending side's; `receive_message` without a channel
  reads the peer's channel of the same id (`server/messages.rs:43-51`).
* `ConnectionStats` counts a payload as sent before its channel refuses it
  (`shared/peer_connection.rs:147`).
* `client_just_connected` and `client_just_disconnected` compare one boolean with
  the one they saw last: a connection lost and back between two evaluations is not
  told of, and a change of the default connection is told of though nothing
  happened to either connection (`client.rs:477-502`).
* After a channel id is closed and opened again, payloads of the new channel may be
  read before the last ones of the old: the receiver keeps both under one id.
* `start_endpoint` on a server that is listening drops the running endpoint, whose
  clients are disconnected without an event or a count (`server.rs:186`).
* On the server the flag `clear_stale_received_payloads` of a connection is never
  read (`server.rs:403-413`).

### Fairness

Weak fairness of the frame (Bevy runs frame after frame) and of each task (tokio
runs a task whose future is ready). Never assumed: that the user does anything,
that the network loses or delivers in any particular way, that a peer sends. Some
assumptions deserve a word.

* In `ClientConnection`, connecting and receiving the id return: both end when
  QUIC's idle timeout does.
* In `SendChannels`, a write returns, for the same reason.
* In `RecvChannels`, `Receive(c)` is strongly fair: receiver tasks compete for
  room in one queue, and tokio's semaphore serves waiting senders in their order.
* In `ServerEndpoint`, `Announce` and `WatcherSignals` wait for room and are weakly
  fair: the system empties the whole queue in each of its runs, and each peer has
  one announcement and one closing to send.
* In `Handshake`, a handshake the server awaits ends, if only by its timeout, and
  the end of a connection on one side is heard on the other, in the same way. That
  the server takes an incoming connection is not assumed: it may be awaiting the
  handshake of another peer. That a `connect` the server never answers returns is
  the fairness of `ClientConnection`.

The `Spec` of `RecvChannels` has no fairness, and is what the
theorems are about; its `FairSpec`, like that of `ServerEndpoint`, adds it for the
runs with liveness properties.

## What is proved

Every safety invariant the runs check, and the three refinements, are theorems,
for every value of the constants that satisfies the assumptions named in the
modules (`...Assumption`): any set of channel ids and of configured channels, any
number of attempts, connections, endpoints and payloads, any size of the queues.
An argument is an inductive invariant, which TLC checked before it was proved; a
module has one lemma for each kind of step, and `Inductive` puts them together.

`ClientConnection_proofs`: `TypeCorrect`; `EarlierAttemptsAreSilent`
(*NoEventOfEarlierAttempts*); `AttemptsAreALife` (*ImplementsLife*). `HoldsLast`
says that the queues that are held are those of the last attempt, so that a
message can only be of that one. The refinement needs more: that an attempt is
resolved once. `OneOutcome` says where its outcome is: not yet sent, in the queue,
or raised, and in one of these.

`IrohClient_proofs`, of the channel table: `TypeCorrect`, `NoOverwrite`
(*OpenIdsAreTaken*), inductive together: a taken id leaves `available` in the step
that registers it. `DefaultIsUsers` (*DefaultStaysTaken*) goes through the steps: a
release clears the default if it is of that id, and what `take_id` makes the
default is taken. `ClientChannelsKept` carries the three over to the client,
which takes the steps of the table and starts it anew. Of the client:
`ConditionsTellNews` (*RunConditionsTellNews*) and `IdsNameOneConnection`
(*LocalIdsNameOneConnection*). Both need `IdsAhead`: an id from the generator's
next one on has no life and no events.

`SendChannels_proofs`: `TypeCorrect`, `WritesOnce` (*NoDuplicates*),
`NothingLostSilently` (*NoSilentLoss*), `CloseFlushes` (*CloseFlushesSpawned*),
`OrderedIsFifo` (*ImplementsFifo*). `Numbered` says that payloads are numbered as
they are accepted, and `Places` where each is: queue, buffer, handed over or
stream, in increasing order, those of the stream before those of the buffer before
those of the queue where the channel is ordered. Then a step of the writer appends
to the stream a payload later than all in it. `CreatingShape`, `TasksEnd` and
`SpawnerEnds` say what the queue of `CreateChannel` messages, a task that ended and
a spawner that ended leave, for a close to have flushed all; `Kept` is
*NoSilentLoss* with the task that panicked known to have ended.

`ReliableCodec_proofs`: `TypeCorrect`, and `DecodesWhatWasSent` (*DecodedIsPrefix*),
from the hypothesis `LengthsFit`, that a length field can hold the length of every
frame the encoder lets through; it is a fact of the constants, which
`MCReliableCodec` evaluates for the bytes it uses. It stands as a hypothesis since
the provers do not know `^`, nor what a fold computes. `CodecInv` cuts the stream in
frames (`Cuts`): from the place of the decoder on, its buffer and the wire are the
frames of the payloads not yet decoded, and a state past the head is the length of
the next of them. `EncodeStep` adds a frame at the end, `ArriveStep` moves the
border between wire and buffer, `DecodeStep` the place of the decoder.

`RecvChannels_proofs`: `TypeCorrect`, `ChannelsStayBounded` (*ChannelsBounded*),
`BuffersStayBounded` (*BufferBounded* when `MaxBuffered > 0`; with 0 it is false,
see the disagreements), `EachInOnePlace` (*EveryPayloadInOnePlace*) and
`ReadsInOrder` (*ReadInOrder*). *BufferBounded* is not inductive: a first payload is
put into a channel beyond the end of the vector without a look at the maximum.
The strengthening is `BuffersWithinVector`: beyond the end, a buffer is empty, so
that it then holds one payload. `PlaceInv` gives every payload that was sent one
place, where it is once, and one that was not sent none. `CutInv` says that a stream
is cut at a payload that was refused, and that what is cut off is behind such a one,
also when the id is opened again: the new channel starts behind all that was sent.
`OrderInv` compares what was read, the buffer, the queue and what has yet to arrive
of one stream, each after the one before.

`ServerEndpoint_proofs`: `TypeCorrect`, `ClientsToldInOrder` (*EventsOfAClient*),
`TableIsTold` (*TableMatchesEvents*), `ChannelsOpenForAll` (*OpenForAll*),
`IdsAreNotShared` (*AvailableIsUnused*, of the channels the clients have),
`CountedOnce` (*NoClientCountedTwice*).
`AnnouncedOnce` says that a `ClientConnected` message in the queue is of a peer that
has no id yet, so that none is announced twice; `WellTold` what the user was told of
a peer, by where the peer is, also while the system runs (`PhaseShape`); `TableShape`
that what is not in the map has no channels.

`EndpointSends_proofs`: `TypeCorrect`, `ResultTellsAll` (*OutcomeTellsAll*),
`OpenChannelsSend` (*OpenIsSendable*). `RestIsTodo` and `Accounted` count, at every
turn of the loop, the copies and errors of each client against the part of `asked`
that was visited. `OpenForClients` says that each vector reaches as far as the open
channels, for which `OpenIsBounded` gives the new vector of a client its length.

`Handshake_proofs`: `ConnectedHereIsConnectedThere` (*ConnectedIsAnnounced*) and
`StepsAreTheirs`: client and server together start as, and take only steps of, a
`ClientConnection` and a `ServerEndpoint`, so that what is proved of all steps of
either holds of it here. The invariant has a part for each side (`ServerInv`: who
is served has an id, and whoever has an id was told of; `ClientInv`: a message or
event `Connection` is of an attempt whose id was sent) and `SentIsGiven`, that the
server sends the ids it gave. `MaxStarts` is at least one (`StartsAssumption`).

Only model-checked are the properties that need fairness: the prover has neither
fairness nor `ENABLED`. They are *GivenUpAttemptsFinish*, *ChannelCloseFlushes*,
*DroppedCloses*, *ShorterIsDecoded*, *PayloadsArrive*, *LostClientRemoved*,
*RemovedClientClosed*, *ConnectingResolves*, *GivenUpIsRemoved* and *EndIsNoticed*. That `LengthsFit` holds
of 4 bytes and 8 MiB is arithmetic the provers do not do.

## What is not modelled

* An `IrohClient` without an endpoint: opening a connection on it panics.
* Waiting for a relay before connecting: ten seconds at most, then `connect` is
  tried, whose two outcomes are modelled.
* `ConnectionStats`: counters nothing depends on.
* The encoding of messages and of the client id; only that it may fail, and when.
* Configuration, error texts, the `try_` variants (which log), the registration of
  the plugins, the server's run conditions (the flag `listening` before and now),
  the examples.
* What QUIC does: external. Streams are ordered and complete, datagrams are not;
  a connection may be lost at any time. That `close` right after `finish` may
  abandon unacknowledged data is outside these models.
* How long things take. That a slow handshake delays the next connections, and that
  a fast peer can hold up a frame, are questions of time: what the models say is
  that a client does not wait for ever, and that payloads leave the network.

## Plan

Done: the modules above. What of the code is left is listed before this section
and has no state that another part depends on, with one exception:

1. `Session`: `SendChannels`, the stream and `RecvChannels` composed, to state
   end-to-end order. The parts are bounded by what TLC can do with each alone; it
   wants the two abstracted first, the sender to `FifoChannels`, which it is proved
   to implement, and the receiver to an abstract specification still to be written,
   of a reader that drops some payloads and reorders none.

Left of the proofs: the refinement of that abstract receiver.
