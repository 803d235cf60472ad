-------------------------- MODULE ClientConnection --------------------------
(***************************************************************************)
(* The life of one ClientSideConnection (src/src/client/connection.rs) as  *)
(* the Bevy systems of src/src/client.rs and the tokio tasks of its        *)
(* attempts see it.                                                        *)
(*                                                                         *)
(* The synchronous side runs in frames: handle_client_events drains the    *)
(* queue of the connection task, then the queue of the channel tasks, then *)
(* the user's systems run.  Every open_connection or reconnect starts an   *)
(* attempt: a fresh set of queues and an async_connection_task, which      *)
(* spawns a watcher of the QUIC connection and the spawner of the channel  *)
(* tasks.  The only ways the two sides act on each other are the queues,   *)
(* the broadcast channel that carries close orders, and the dropping of    *)
(* either.  Payloads, and the tasks that receive them, are left out.       *)
(***************************************************************************)
EXTENDS Naturals, Sequences, FiniteSets

CONSTANTS
    MaxAttempts,    \* bound: the attempts one connection may start
    MaxReports      \* bound: LostConnection messages a channel task leaves queued

ASSUME BoundsAssumption == MaxAttempts \in Nat \ {0} /\ MaxReports \in Nat \ {0}

Attempts == 1..MaxAttempts

States       == {"Connecting", "Connected", "Disconnected"}
CloseReasons == {"LocalOrder", "PeerClosed"}
AsyncMessages == {"Connected", "ConnectionFailed", "ConnectionClosed"}
Events       == {"Connection", "Failed", "Lost"}

VARIABLES
    phase,          \* what the frame is doing: "async", "channels" or "update"
    state,          \* ClientConnection.state
    attempt,        \* the last attempt started; 0 before open_connection
    held,           \* the attempt whose queue ends the connection holds; 0 for none
    events,         \* the events raised since the last attempt started, each
                    \* with the attempt whose message raised it
    toSync,         \* the held attempt's queue from its connection task
    fromChannels,   \* its LostConnection messages not yet read
    closeLog,       \* the orders sent on its close broadcast
    since,          \* since[t]: those already sent when its task t subscribed
    main,           \* main[a]: where async_connection_task is
    conn,           \* conn[a]: the QUIC connection
    watcher,        \* watcher[a]: the task awaiting conn.closed()
    spawner,        \* spawner[a]: send_channels_tasks_spawner
    channel         \* channel[a]: the configured channel and its task

syncVars  == <<phase, state, attempt, held, events>>
queueVars == <<toSync, fromChannels, closeLog, since>>
taskVars  == <<main, conn, watcher, spawner, channel>>
vars == <<syncVars, queueVars, taskVars>>

TypeOK ==
    /\ phase \in {"async", "channels", "update"}
    /\ state \in States
    /\ attempt \in 0..MaxAttempts
    /\ held \in 0..MaxAttempts
    /\ events \in Seq([kind : Events, from : Attempts])
    /\ toSync \in Seq(AsyncMessages)
    /\ fromChannels \in 0..MaxReports
    /\ closeLog \in Seq(CloseReasons)
    /\ since \in [{"spawner", "channel"} -> Nat]
    /\ main \in [Attempts -> {"unborn", "connecting", "opened", "awaitId",
                              "signalling", "done"}]
    /\ conn \in [Attempts -> {"none", "open", "closed"}]
    /\ watcher \in [Attempts -> {"unborn", "watching", "done"}]
    /\ spawner \in [Attempts -> {"unborn", "listening", "waiting", "done"}]
    /\ channel \in [Attempts -> {"unborn", "queued", "opening", "running",
                                 "ended"}]

Init ==
    /\ phase = "update"
    /\ state = "Disconnected"
    /\ attempt = 0
    /\ held = 0
    /\ events = <<>>
    /\ toSync = <<>>
    /\ fromChannels = 0
    /\ closeLog = <<>>
    /\ since = [t \in {"spawner", "channel"} |-> 0]
    /\ main = [a \in Attempts |-> "unborn"]
    /\ conn = [a \in Attempts |-> "none"]
    /\ watcher = [a \in Attempts |-> "unborn"]
    /\ spawner = [a \in Attempts |-> "unborn"]
    /\ channel = [a \in Attempts |-> "unborn"]

-----------------------------------------------------------------------------
(* The queues between the two sides.                                       *)

\* The sync side keeps its ends of attempt a's queues: it can be written to,
\* and the senders it holds are not dropped.
Held(a) == held = a

\* mpsc send from a task of attempt a: lost when the receiver is gone.
Enqueue(a, msg) ==
    toSync' = IF Held(a) THEN Append(toSync, msg) ELSE toSync

\* broadcast recv, on a receiver that subscribed after n orders, returns: an
\* order sent since, or Closed once the sender is dropped.
CloseReady(a, n) == Held(a) => Len(closeLog) > n

\* A task of attempt a subscribes (resubscribe): it will not see the orders
\* sent so far.
Subscribe(a, t) ==
    since' = IF Held(a) THEN [since EXCEPT ![t] = Len(closeLog)] ELSE since

\* Empty queues; what waited in the previous ones is dropped with them.
ResetQueues ==
    /\ toSync' = <<>>
    /\ fromChannels' = 0
    /\ closeLog' = <<>>
    /\ since' = [t \in {"spawner", "channel"} |-> 0]

-----------------------------------------------------------------------------
(* The synchronous side.                                                   *)

\* Start the tasks and queues of the next attempt; the ends of the previous
\* one are dropped by the assignments of internal_reset.
StartAttempt ==
    /\ attempt' = attempt + 1
    /\ held' = attempt + 1
    /\ state' = "Connecting"
    /\ main' = [main EXCEPT ![attempt + 1] = "connecting"]
    /\ channel' = [channel EXCEPT ![attempt + 1] = "queued"]
    /\ events' = <<>>
    /\ ResetQueues
    /\ UNCHANGED <<phase, conn, watcher, spawner>>

\* IrohClient::open_connection, once.
OpenConnection ==
    /\ phase = "update"
    /\ attempt = 0
    /\ StartAttempt

\* A reconnect that leaves the old receivers and senders in the connection.
MutReconnect ==
    /\ phase = "update"
    /\ held # 0
    /\ state = "Disconnected"
    /\ attempt < MaxAttempts
    /\ attempt' = attempt + 1
    /\ state' = "Connecting"
    /\ main' = [main EXCEPT ![attempt + 1] = "connecting"]
    /\ channel' = [channel EXCEPT ![attempt + 1] = "queued"]
    /\ events' = <<>>
    /\ UNCHANGED <<phase, held, queueVars, conn, watcher, spawner>>

\* ClientSideConnection::reconnect; a no-op unless Disconnected.
Reconnect ==
    /\ phase = "update"
    /\ held # 0
    /\ state = "Disconnected"
    /\ attempt < MaxAttempts
    /\ StartAttempt

\* ClientSideConnection::internal_disconnect; a no-op when Disconnected.  An
\* order sent when no receiver is left reaches nobody, now or later.
InternalDisconnect(reason) ==
    IF state = "Disconnected"
    THEN UNCHANGED <<state, closeLog>>
    ELSE /\ state' = "Disconnected"
         /\ closeLog' = Append(closeLog, reason)

\* ClientSideConnection::disconnect, called by the user.
Disconnect ==
    /\ phase = "update"
    /\ held # 0
    /\ state # "Disconnected"
    /\ InternalDisconnect("LocalOrder")
    /\ UNCHANGED <<phase, attempt, held, events, toSync, fromChannels, since, taskVars>>

\* IrohClient::close_connection: disconnect, then drop the connection.
CloseConnection ==
    /\ phase = "update"
    /\ held # 0
    /\ InternalDisconnect("LocalOrder")
    /\ held' = 0
    /\ toSync' = <<>>
    /\ fromChannels' = 0
    /\ UNCHANGED <<phase, attempt, events, since, taskVars>>

Raise(event) == events' = Append(events, [kind |-> event, from |-> held])

\* Loss handled without looking at the state.
MutLoseConnection ==
    /\ InternalDisconnect("PeerClosed")
    /\ Raise("Lost")

\* What ConnectionClosed and LostConnection both do.
LoseConnection ==
    IF state = "Disconnected"
    THEN UNCHANGED <<state, closeLog, events>>
    ELSE InternalDisconnect("PeerClosed") /\ Raise("Lost")

\* handle_client_events: one turn of the loop over try_recv_from_async.
HandleAsyncMessage ==
    /\ phase = "async"
    /\ held # 0
    /\ toSync # <<>>
    /\ toSync' = Tail(toSync)
    /\ CASE Head(toSync) = "Connected" ->
                state' = "Connected" /\ Raise("Connection") /\ UNCHANGED closeLog
         [] Head(toSync) = "ConnectionFailed" ->
                state' = "Disconnected" /\ Raise("Failed") /\ UNCHANGED closeLog
         [] Head(toSync) = "ConnectionClosed" -> LoseConnection
    /\ UNCHANGED <<phase, attempt, held, fromChannels, since, taskVars>>

\* handle_client_events: one turn of the loop over try_recv_from_channels.
HandleChannelMessage ==
    /\ phase = "channels"
    /\ held # 0
    /\ fromChannels > 0
    /\ fromChannels' = fromChannels - 1
    /\ LoseConnection
    /\ UNCHANGED <<phase, attempt, held, toSync, since, taskVars>>

\* The loops end when their queue is empty; the user's systems end the frame.
NextPhase ==
    /\ \/ phase = "async" /\ (held # 0 => toSync = <<>>) /\ phase' = "channels"
       \/ phase = "channels" /\ (held # 0 => fromChannels = 0) /\ phase' = "update"
       \/ phase = "update" /\ phase' = "async"
    /\ UNCHANGED <<state, attempt, held, events, queueVars, taskVars>>

-----------------------------------------------------------------------------
(* The tasks of attempt a.                                                 *)

\* endpoint.connect succeeds and the watcher is spawned.
ConnectSucceeds(a) ==
    /\ main[a] = "connecting"
    /\ main' = [main EXCEPT ![a] = "opened"]
    /\ conn' = [conn EXCEPT ![a] = "open"]
    /\ watcher' = [watcher EXCEPT ![a] = "watching"]
    /\ UNCHANGED <<syncVars, queueVars, spawner, channel>>

\* endpoint.connect fails; the task's queue ends, the configured channel's
\* among them, are dropped with it.
ConnectFails(a) ==
    /\ main[a] = "connecting"
    /\ main' = [main EXCEPT ![a] = "done"]
    /\ channel' = [channel EXCEPT ![a] = "ended"]
    /\ Enqueue(a, "ConnectionFailed")
    /\ UNCHANGED <<syncVars, fromChannels, closeLog, since, conn, watcher, spawner>>

\* spawn_send_channels_tasks_spawner with a receiver that resubscribes here,
\* after every order sent so far.
SpawnSpawner(a) ==
    /\ main[a] = "opened"
    /\ main' = [main EXCEPT ![a] = "awaitId"]
    /\ spawner' = [spawner EXCEPT ![a] = "listening"]
    /\ Subscribe(a, "spawner")
    /\ UNCHANGED <<syncVars, toSync, fromChannels, closeLog, conn, watcher, channel>>

\* receive_client_id -> Retrieved.
RetrieveClientId(a) ==
    /\ main[a] = "awaitId"
    /\ conn[a] = "open"
    /\ main' = [main EXCEPT ![a] = "signalling"]
    /\ UNCHANGED <<syncVars, queueVars, conn, watcher, spawner, channel>>

\* receive_client_id -> Failed: the stream cannot be accepted or read, or what
\* the peer sent is not an id.
ClientIdFails(a) ==
    /\ main[a] = "awaitId"
    /\ main' = [main EXCEPT ![a] = "done"]
    /\ Enqueue(a, "ConnectionFailed")
    /\ UNCHANGED <<syncVars, fromChannels, closeLog, since, conn, watcher, spawner, channel>>

\* receive_client_id -> Interrupted, on the receiver of the first subscription.
ClientIdInterrupted(a) ==
    /\ main[a] = "awaitId"
    /\ CloseReady(a, 0)
    /\ main' = [main EXCEPT ![a] = "done"]
    /\ UNCHANGED <<syncVars, queueVars, conn, watcher, spawner, channel>>

SignalConnected(a) ==
    /\ main[a] = "signalling"
    /\ main' = [main EXCEPT ![a] = "done"]
    /\ Enqueue(a, "Connected")
    /\ UNCHANGED <<syncVars, fromChannels, closeLog, since, conn, watcher, spawner, channel>>

\* A watcher that returns without telling the sync side.
MutWatcherSignals(a) ==
    /\ watcher[a] = "watching"
    /\ conn[a] = "closed"
    /\ watcher' = [watcher EXCEPT ![a] = "done"]
    /\ UNCHANGED <<syncVars, queueVars, main, conn, spawner, channel>>

\* conn.closed() returns.
WatcherSignals(a) ==
    /\ watcher[a] = "watching"
    /\ conn[a] = "closed"
    /\ watcher' = [watcher EXCEPT ![a] = "done"]
    /\ Enqueue(a, "ConnectionClosed")
    /\ UNCHANGED <<syncVars, fromChannels, closeLog, since, main, conn, spawner, channel>>

\* The spawner takes the CreateChannel message and spawns the channel's task,
\* whose receiver resubscribes here.
SpawnChannel(a) ==
    /\ spawner[a] = "listening"
    /\ channel[a] = "queued"
    /\ channel' = [channel EXCEPT ![a] = "opening"]
    /\ Subscribe(a, "channel")
    /\ UNCHANGED <<syncVars, toSync, fromChannels, closeLog, main, conn, watcher, spawner>>

\* A spawner that takes only an order for a reason to close, not the end of
\* the broadcast or of its queue.
MutSpawnerHearsClose(a) ==
    /\ spawner[a] = "listening"
    /\ Held(a) /\ CloseReady(a, since["spawner"])
    /\ spawner' = [spawner EXCEPT ![a] = "waiting"]
    /\ UNCHANGED <<syncVars, queueVars, main, conn, watcher, channel>>

\* The spawner leaves its select: a close order, or the end of the queue of
\* CreateChannel messages, whose sender is dropped with the connection.
SpawnerHearsClose(a) ==
    /\ spawner[a] = "listening"
    /\ \/ CloseReady(a, since["spawner"])
       \/ ~Held(a) /\ channel[a] # "queued"
    /\ spawner' = [spawner EXCEPT ![a] = "waiting"]
    /\ UNCHANGED <<syncVars, queueVars, main, conn, watcher, channel>>

\* Every keepalive is dropped: the connection is closed, and a channel whose
\* CreateChannel was never taken ends with the queue that holds it.
SpawnerCloses(a) ==
    /\ spawner[a] = "waiting"
    /\ channel[a] \notin {"opening", "running"}
    /\ spawner' = [spawner EXCEPT ![a] = "done"]
    /\ conn' = [conn EXCEPT ![a] = "closed"]
    /\ channel' = [channel EXCEPT ![a] = "ended"]
    /\ UNCHANGED <<syncVars, queueVars, main, watcher>>

\* new_uni_frame_sender: the channel task opens its stream, or panics.
ChannelOpens(a) ==
    /\ channel[a] = "opening"
    /\ channel' = [channel EXCEPT ![a] = IF conn[a] = "open" THEN "running" ELSE "ended"]
    /\ UNCHANGED <<syncVars, queueVars, main, conn, watcher, spawner>>

\* The channel task leaves its select and ends: a close order, or its senders
\* dropped with the connection.  Its last payloads are left out.
ChannelEnds(a) ==
    /\ channel[a] = "running"
    /\ CloseReady(a, since["channel"])
    /\ channel' = [channel EXCEPT ![a] = "ended"]
    /\ UNCHANGED <<syncVars, queueVars, main, conn, watcher, spawner>>

\* A report sent on a queue without a bound.
MutChannelSendFails(a) ==
    /\ channel[a] = "running"
    /\ Held(a)
    /\ fromChannels' = fromChannels + 1
    /\ UNCHANGED <<syncVars, toSync, closeLog, since, taskVars>>

\* A payload cannot be sent, for the connection is lost or the payload is too
\* long: LostConnection, and a panic when nobody holds the receiver.
ChannelSendFails(a) ==
    /\ channel[a] = "running"
    /\ \/ /\ Held(a)
          /\ fromChannels < MaxReports
          /\ fromChannels' = fromChannels + 1
          /\ UNCHANGED channel
       \/ /\ ~Held(a)
          /\ channel' = [channel EXCEPT ![a] = "ended"]
          /\ UNCHANGED fromChannels
    /\ UNCHANGED <<syncVars, toSync, closeLog, since, main, conn, watcher, spawner>>

\* The peer closes the connection, or the network loses it.
ConnectionLost(a) ==
    /\ conn[a] = "open"
    /\ conn' = [conn EXCEPT ![a] = "closed"]
    /\ UNCHANGED <<syncVars, queueVars, main, watcher, spawner, channel>>

-----------------------------------------------------------------------------
User == OpenConnection \/ Reconnect \/ Disconnect \/ CloseConnection

Frame == HandleAsyncMessage \/ HandleChannelMessage \/ NextPhase

Connect(a) ==
    \/ ConnectSucceeds(a) \/ ConnectFails(a) \/ SpawnSpawner(a)
    \/ RetrieveClientId(a) \/ ClientIdFails(a) \/ ClientIdInterrupted(a)
    \/ SignalConnected(a)

Channel(a) == ChannelOpens(a) \/ ChannelEnds(a)

Spawner(a) == SpawnChannel(a) \/ SpawnerHearsClose(a) \/ SpawnerCloses(a)

Next ==
    \/ User
    \/ Frame
    \/ \E a \in Attempts :
          \/ Connect(a) \/ WatcherSignals(a) \/ Spawner(a)
          \/ Channel(a) \/ ChannelSendFails(a) \/ ConnectionLost(a)

\* Bevy runs frame after frame and tokio runs every ready task.  The peer
\* answers or its connection dies: connect returns, and receive_client_id
\* does too (Connect includes both).
Fairness ==
    /\ WF_vars(Frame)
    /\ \A a \in Attempts :
          /\ WF_vars(Connect(a))
          /\ WF_vars(WatcherSignals(a))
          /\ WF_vars(Spawner(a))
          /\ WF_vars(Channel(a))

Spec == Init /\ [][Next]_vars /\ Fairness

-----------------------------------------------------------------------------
(* Properties.                                                             *)

\* The attempts, tasks and queues bring about what ConnectionLife promises: an
\* attempt has at most one outcome, though the connection task sends its message
\* from five places (client/connection.rs:389-507), and a loss is only reported of a
\* connection that is not disconnected yet, though the watcher and every channel
\* task report it (client.rs:341-362).
Life == INSTANCE ConnectionLife WITH
    Connections <- {1},
    life <- [c \in {1} |-> CASE attempt = 0 -> "unborn"
                             [] attempt # 0 /\ held = 0 -> "closed"
                             [] OTHER -> state],
    told <- [c \in {1} |-> IF held = 0 THEN <<>>
                           ELSE [i \in 1..Len(events) |-> events[i].kind]]

ImplementsLife == Life!Spec

\* After a reconnect, no late message of the attempts it gave up raises an
\* event (client/connection.rs:239-262).
NoEventOfEarlierAttempts ==
    \A i \in 1..Len(events) : events[i].from = attempt

Finished(a) ==
    /\ main[a] = "done"
    /\ watcher[a] # "watching"
    /\ spawner[a] \in {"unborn", "done"}
    /\ channel[a] = "ended"
    /\ conn[a] # "open"

\* An attempt given up by reconnect or close_connection ends all its tasks and
\* closes its QUIC connection, whatever it was doing, for good
\* (client/connection.rs:239-265, tasks.rs:46-100).
GivenUpAttemptsFinish ==
    <>[](\A a \in Attempts : attempt >= a /\ held # a => Finished(a))

\* A connection does not stay Connecting for ever (client/connection.rs:389-488).
ConnectingResolves == state = "Connecting" ~> state # "Connecting"

\* client.rs:104, "Returns true if the default connection exists and is
\* connected": a connection whose QUIC connection is gone does not stay
\* Connected.
DeadConnectionNoticed ==
    \A a \in Attempts :
        (held = a /\ state = "Connected" /\ conn[a] = "closed")
            ~> (held # a \/ state # "Connected")
=============================================================================
