--------------------------- MODULE ServerEndpoint ---------------------------
(***************************************************************************)
(* The server (src/src/server.rs and src/src/server/endpoint.rs): its      *)
(* endpoint, from start_endpoint to stop_endpoint or to the start of the   *)
(* next one, the task that accepts connections and a task for each of      *)
(* them, the messages they send to the endpoint, the system                *)
(* handle_server_events that handles them once per update, and the calls   *)
(* of the user between two runs of that system.                            *)
(*                                                                         *)
(* A peer is one incoming QUIC connection.  What the channel tasks do with *)
(* the payloads is in SendChannels; here they only report a loss, or end.  *)
(***************************************************************************)
EXTENDS ChannelsIdsPool, Sequences, FiniteSets, SequencesExt

CONSTANTS
    Peers,              \* the connections the peers make
    Configured,         \* the channels of the SendChannelsConfiguration
    CreateQueueSize,    \* DEFAULT_QCHANNEL_MESSAGES_CHANNEL_SIZE
    InboxSize,          \* DEFAULT_INTERNAL_MESSAGES_CHANNEL_SIZE
    MaxReports,         \* bound: LostConnection messages per connection
    MaxStarts           \* bound: the endpoints started

ASSUME EndpointAssumption ==
    /\ IsFiniteSet(Peers) /\ IsFiniteSet(Ids)
    /\ Configured \subseteq Ids
    /\ \A c \in Configured, d \in Ids \ Configured : c < d
    /\ CreateQueueSize \in Nat /\ Cardinality(Ids) <= CreateQueueSize
    /\ InboxSize \in Nat \ {0}
    /\ MaxReports \in Nat
    /\ MaxStarts \in Nat \ {0}

VARIABLES
    listening,      \* whether IrohServer holds an endpoint
    started,        \* how many it was given; the others are gone
    clientIdGen,    \* client_id_gen
    clients,        \* the peers whose PeerConnection is in clients
    id,             \* id[p]: the ClientId given to p, 0 before that
    opened,         \* opened_channels
    slots,          \* slots[p]: the channels in the send_channels of p
    opening,        \* opening[p]: those whose task has yet to open its stream
    dead,           \* dead[p]: those whose task is gone
    connectCount,   \* EndpointStats
    disconnectCount,
    events,         \* events[p]: those written about p, in order
    ordered,        \* the peers the user disconnected
    phase,          \* where handle_server_events is, "idle" between its runs
    unvisited,      \* the clients its second loop has yet to look at
    lostClients,    \* its Local set
    inbox,          \* from_async_endpoint_recv
    accepting,      \* the endpoints whose endpoint_task runs
    of,             \* of[p]: the endpoint whose task accepted p
    conn,           \* conn[p]: the QUIC connection
    task,           \* task[p]: the client_connection_task
    watching,       \* the peers whose closed() watcher has not sent its message
    creating,       \* creating[p]: CreateChannel messages the spawner has to take
    reports         \* reports[p]: LostConnection messages sent and not received

tableVars == <<clientIdGen, clients, id, opened, slots, opening, dead>>
userVars == <<listening, started, tableVars, connectCount, disconnectCount, events, ordered>>
systemVars == <<phase, unvisited, lostClients>>
acceptVars == <<accepting, of>>
asyncVars == <<acceptVars, conn, task, watching>>
vars == <<PoolVars, userVars, systemVars, inbox, asyncVars, creating, reports>>

Connected(p) == [type |-> "ClientConnected", peer |-> p]
Closed(p)    == [type |-> "ClientConnectionClosed", peer |-> p]
Messages     == {Connected(p) : p \in Peers} \cup {Closed(p) : p \in Peers}

TypeOK ==
    /\ PoolTypeOK
    /\ listening \in BOOLEAN
    /\ started \in 1..MaxStarts
    /\ clientIdGen \in 0..Cardinality(Peers)
    /\ clients \subseteq Peers
    /\ id \in [Peers -> 0..Cardinality(Peers)]
    /\ opened \subseteq Ids
    /\ slots \in [Peers -> SUBSET Ids]
    /\ opening \in [Peers -> SUBSET Ids] /\ dead \in [Peers -> SUBSET Ids]
    /\ \A p \in Peers : opening[p] \cup dead[p] \subseteq slots[p]
    /\ connectCount \in Nat /\ disconnectCount \in Nat
    /\ events \in [Peers -> Seq({"Connected", "Lost"})]
    /\ ordered \subseteq Peers
    /\ phase \in {"idle", "messages", "channels", "lost"}
    /\ unvisited \subseteq clients
    /\ lostClients \subseteq clients
    /\ inbox \in Seq(Messages) /\ Len(inbox) <= InboxSize
    /\ accepting \subseteq 1..MaxStarts
    /\ of \in [Peers -> 0..MaxStarts]
    /\ conn \in [Peers -> {"none", "open", "lost", "closed"}]
    /\ task \in [Peers -> {"none", "announcing", "waiting", "serving", "ended"}]
    /\ watching \subseteq Peers
    /\ creating \in [Peers -> 0..CreateQueueSize]
    /\ reports \in [Peers -> 0..MaxReports]

\* start_endpoint: the configured channels are opened before any client is.
Init ==
    /\ PoolAfterTaking(Configured, available, default)
    /\ listening = TRUE /\ started = 1
    /\ clientIdGen = 0
    /\ clients = {}
    /\ id = [p \in Peers |-> 0]
    /\ opened = Configured
    /\ slots = [p \in Peers |-> {}]
    /\ opening = [p \in Peers |-> {}]
    /\ dead = [p \in Peers |-> {}]
    /\ connectCount = 0 /\ disconnectCount = 0
    /\ events = [p \in Peers |-> <<>>]
    /\ ordered = {}
    /\ phase = "idle" /\ unvisited = {} /\ lostClients = {}
    /\ inbox = <<>>
    /\ accepting = {1}
    /\ of = [p \in Peers |-> 0]
    /\ conn = [p \in Peers |-> "none"]
    /\ task = [p \in Peers |-> "none"]
    /\ watching = {}
    /\ creating = [p \in Peers |-> 0]
    /\ reports = [p \in Peers |-> 0]

-----------------------------------------------------------------------------
(* The tasks of an endpoint.                                               *)

\* The endpoint that p speaks to is the server's.
Current(p) == listening /\ of[p] = started

\* The endpoint_task of e accepts p and spawns its task.  Its select may do so
\* though the order to end, or the drop of its sender, is waiting for it too.
Accept(p, e) ==
    /\ e \in accepting
    /\ conn[p] = "none"
    /\ conn' = [conn EXCEPT ![p] = "open"]
    /\ of' = [of EXCEPT ![p] = e]
    /\ task' = [task EXCEPT ![p] = "announcing"]
    /\ UNCHANGED <<PoolVars, userVars, systemVars, inbox, accepting, watching, creating,
                   reports>>

\* The endpoint_task of an endpoint that was stopped or replaced ends.
AcceptEnds(e) ==
    /\ e \in accepting
    /\ ~listening \/ e # started
    /\ accepting' = accepting \ {e}
    /\ UNCHANGED <<PoolVars, userVars, systemVars, inbox, of, conn, task, watching, creating,
                   reports>>

\* client_connection_task sends its PeerConnection to the endpoint, waiting for
\* room in the queue, and then waits for the answer.
Announce(p) ==
    /\ Current(p)
    /\ task[p] = "announcing"
    /\ Len(inbox) < InboxSize
    /\ inbox' = Append(inbox, Connected(p))
    /\ task' = [task EXCEPT ![p] = "waiting"]
    /\ UNCHANGED <<PoolVars, userVars, systemVars, acceptVars, conn, watching, creating, reports>>

\* A task that waits on a stopped endpoint for ever.
MutRefused(p) ==
    /\ ~Current(p)
    /\ task[p] = "announcing"
    /\ task' = [task EXCEPT ![p] = "ended"]
    /\ conn' = [conn EXCEPT ![p] = IF @ = "open" THEN "closed" ELSE @]
    /\ UNCHANGED <<PoolVars, userVars, systemVars, inbox, acceptVars, watching, creating, reports>>

\* The endpoint is gone: sending to it panics, and a PeerConnection that was in
\* its queue is dropped, which ends the wait for an answer.  Either way the last
\* handle of the connection goes.
Refused(p) ==
    /\ ~Current(p)
    /\ task[p] = "announcing" \/ (task[p] = "waiting" /\ id[p] = 0)
    /\ task' = [task EXCEPT ![p] = "ended"]
    /\ conn' = [conn EXCEPT ![p] = IF @ = "open" THEN "closed" ELSE @]
    /\ UNCHANGED <<PoolVars, userVars, systemVars, inbox, acceptVars, watching, creating, reports>>

\* ClientConnectedAck arrives, be the client still connected or not: the watcher
\* and the channel tasks are spawned.
Serve(p) ==
    /\ task[p] = "waiting"
    /\ id[p] # 0
    /\ task' = [task EXCEPT ![p] = "serving"]
    /\ watching' = watching \cup {p}
    /\ UNCHANGED <<PoolVars, userVars, systemVars, inbox, acceptVars, conn, creating, reports>>

\* A watcher that looks at the queue once, and gives up when it is full.
MutWatcherSignals(p) ==
    /\ p \in watching
    /\ conn[p] \in {"lost", "closed"}
    /\ watching' = watching \ {p}
    /\ inbox' = IF Current(p) /\ Len(inbox) < InboxSize
                THEN Append(inbox, Closed(p)) ELSE inbox
    /\ UNCHANGED <<PoolVars, userVars, systemVars, acceptVars, conn, task, creating, reports>>

\* The watcher reports the end of the connection, unless the endpoint is gone.
WatcherSignals(p) ==
    /\ p \in watching
    /\ conn[p] \in {"lost", "closed"}
    /\ watching' = watching \ {p}
    /\ \/ Current(p) /\ Len(inbox) < InboxSize /\ inbox' = Append(inbox, Closed(p))
       \/ ~Current(p) /\ UNCHANGED inbox
    /\ UNCHANGED <<PoolVars, userVars, systemVars, acceptVars, conn, task, creating, reports>>

\* send_channels_tasks_spawner takes a CreateChannel message.
TakeCreate(p) ==
    /\ task[p] = "serving"
    /\ p \in clients
    /\ creating[p] > 0
    /\ creating' = [creating EXCEPT ![p] = @ - 1]
    /\ UNCHANGED <<PoolVars, userVars, systemVars, inbox, asyncVars, reports>>

\* A channel's task, or the one that sends the client its id, could not write:
\* the connection is lost, or the payload is longer than a frame may be.  The
\* task of a closed channel may still be writing.
TaskReports(p) ==
    /\ task[p] = "serving"
    /\ p \in clients
    /\ reports[p] < MaxReports
    /\ reports' = [reports EXCEPT ![p] = @ + 1]
    /\ UNCHANGED <<PoolVars, userVars, systemVars, inbox, asyncVars, creating>>

\* The task of some channel of p was spawned and opens its stream.  Only the
\* number of CreateChannel messages is kept: more channels wait for their stream
\* than messages for the spawner.
Opens(p, c) ==
    /\ task[p] = "serving"
    /\ c \in opening[p]
    /\ Cardinality(opening[p]) > creating[p]
    /\ opening' = [opening EXCEPT ![p] = @ \ {c}]
    /\ UNCHANGED <<PoolVars, listening, started, clientIdGen, clients, id, opened, slots,
                   connectCount, disconnectCount, events, ordered,
                   systemVars, inbox, asyncVars, creating, reports>>

\* It can.
StreamOpens(p, c) ==
    /\ conn[p] = "open"
    /\ Opens(p, c)
    /\ UNCHANGED dead

\* It cannot, and the task of an ordered channel panics.
TaskEnds(p, c) ==
    /\ conn[p] = "lost"
    /\ Opens(p, c)
    /\ dead' = [dead EXCEPT ![p] = @ \cup {c}]

\* A spawner that ends on the signal without closing the connection.
MutSpawnerCloses(p) ==
    /\ task[p] = "serving"
    /\ p \notin clients
    /\ conn[p] = "open"
    /\ conn' = [conn EXCEPT ![p] = IF p \in ordered THEN "closed" ELSE @]
    /\ UNCHANGED <<PoolVars, userVars, systemVars, inbox, acceptVars, task, watching, creating, reports>>

\* The spawner heard the close signal, or found every sender dropped; it waits
\* for the channel tasks and closes the connection.
SpawnerCloses(p) ==
    /\ task[p] = "serving"
    /\ p \notin clients
    /\ conn[p] = "open"
    /\ conn' = [conn EXCEPT ![p] = "closed"]
    /\ UNCHANGED <<PoolVars, userVars, systemVars, inbox, acceptVars, task, watching, creating, reports>>

\* External: the peer closes the connection, or it times out.
ConnectionLost(p) ==
    /\ conn[p] = "open"
    /\ conn' = [conn EXCEPT ![p] = "lost"]
    /\ UNCHANGED <<PoolVars, userVars, systemVars, inbox, acceptVars, task, watching, creating, reports>>

-----------------------------------------------------------------------------
(* handle_server_events, one message or client at a time.                  *)

Raise(p, event) == events' = [events EXCEPT ![p] = Append(@, event)]

\* The clients in S leave the map; their PeerConnections are dropped.
DropClients(S) ==
    /\ clients' = clients \ S
    /\ slots' = [p \in Peers |-> IF p \in S THEN {} ELSE slots[p]]
    /\ opening' = [p \in Peers |-> IF p \in S THEN {} ELSE opening[p]]
    /\ dead'  = [p \in Peers |-> IF p \in S THEN {} ELSE dead[p]]
    /\ reports' = [p \in Peers |-> IF p \in S THEN 0 ELSE reports[p]]
    /\ creating' = [p \in Peers |-> IF p \in S THEN 0 ELSE creating[p]]

RemoveClients(S) == DropClients(S) /\ UNCHANGED <<clientIdGen, id, opened>>

BeginEvents ==
    /\ listening
    /\ phase = "idle"
    /\ phase' = "messages"
    /\ UNCHANGED <<PoolVars, userVars, unvisited, lostClients, inbox, asyncVars,
                   creating, reports>>

\* A connection that gets no channel but those opened after it.
MutHandleConnected(p) ==
    /\ phase = "messages"
    /\ inbox # <<>> /\ Head(inbox) = Connected(p)
    /\ inbox' = Tail(inbox)
    /\ clientIdGen' = clientIdGen + 1
    /\ id' = [id EXCEPT ![p] = clientIdGen']
    /\ clients' = clients \cup {p}
    /\ UNCHANGED <<slots, opening, creating>>
    /\ connectCount' = connectCount + 1
    /\ Raise(p, "Connected")
    /\ UNCHANGED <<PoolVars, listening, started, opened, dead, disconnectCount, ordered,
                   systemVars, asyncVars, reports>>

\* ClientConnected, handle_new_connection.  Its two failures cannot occur: the
\* queues it fills are new, and client_connection_task holds their other ends
\* until it is answered.
HandleConnected(p) ==
    /\ phase = "messages"
    /\ inbox # <<>> /\ Head(inbox) = Connected(p)
    /\ inbox' = Tail(inbox)
    /\ clientIdGen' = clientIdGen + 1
    /\ id' = [id EXCEPT ![p] = clientIdGen']
    /\ clients' = clients \cup {p}
    /\ slots' = [slots EXCEPT ![p] = opened]
    /\ opening' = [opening EXCEPT ![p] = opened]
    /\ creating' = [creating EXCEPT ![p] = Cardinality(opened)]
    /\ connectCount' = connectCount + 1
    /\ Raise(p, "Connected")
    /\ UNCHANGED <<PoolVars, listening, started, opened, dead, disconnectCount, ordered,
                   systemVars, asyncVars, reports>>

\* A handler that does not ask whether the client is still in the map.
MutHandleClosed(p) ==
    /\ phase = "messages"
    /\ inbox # <<>> /\ Head(inbox) = Closed(p)
    /\ inbox' = Tail(inbox)
    /\ RemoveClients({p})
    /\ disconnectCount' = disconnectCount + 1
    /\ Raise(p, "Lost")
    /\ UNCHANGED <<PoolVars, listening, started, connectCount, ordered, systemVars, asyncVars>>

\* ClientConnectionClosed: nothing to do for a client that is gone already.
HandleClosed(p) ==
    /\ phase = "messages"
    /\ inbox # <<>> /\ Head(inbox) = Closed(p)
    /\ inbox' = Tail(inbox)
    /\ IF p \in clients
       THEN /\ RemoveClients({p})
            /\ disconnectCount' = disconnectCount + 1
            /\ Raise(p, "Lost")
       ELSE UNCHANGED <<tableVars, reports, creating, disconnectCount, events>>
    /\ UNCHANGED <<PoolVars, listening, started, connectCount, ordered, systemVars, asyncVars>>

MessagesDone ==
    /\ phase = "messages"
    /\ inbox = <<>>
    /\ phase' = "channels"
    /\ unvisited' = clients
    /\ UNCHANGED <<PoolVars, userVars, lostClients, inbox, asyncVars, creating, reports>>

\* A loop that raises the event and forgets to note the client.
MutVisitClient(p) ==
    /\ phase = "channels"
    /\ p \in unvisited
    /\ unvisited' = unvisited \ {p}
    /\ reports' = [reports EXCEPT ![p] = 0]
    /\ UNCHANGED lostClients
    /\ IF reports[p] > 0 THEN Raise(p, "Lost") ELSE UNCHANGED events
    /\ UNCHANGED <<PoolVars, listening, started, tableVars, connectCount, disconnectCount, ordered,
                   phase, inbox, asyncVars, creating>>

\* All the LostConnection messages of p raise one event.
VisitClient(p) ==
    /\ phase = "channels"
    /\ p \in unvisited
    /\ unvisited' = unvisited \ {p}
    /\ reports' = [reports EXCEPT ![p] = 0]
    /\ IF reports[p] > 0
       THEN /\ lostClients' = lostClients \cup {p}
            /\ Raise(p, "Lost")
       ELSE UNCHANGED <<lostClients, events>>
    /\ UNCHANGED <<PoolVars, listening, started, tableVars, connectCount, disconnectCount, ordered,
                   phase, inbox, asyncVars, creating>>

ChannelsDone ==
    /\ phase = "channels"
    /\ unvisited = {}
    /\ phase' = "lost"
    /\ UNCHANGED <<PoolVars, userVars, unvisited, lostClients, inbox, asyncVars,
                   creating, reports>>

\* The lost clients are disconnected and the system ends.
DisconnectLost ==
    /\ phase = "lost"
    /\ RemoveClients(lostClients)
    /\ disconnectCount' = disconnectCount + Cardinality(lostClients)
    /\ lostClients' = {}
    /\ phase' = "idle"
    /\ UNCHANGED <<PoolVars, listening, started, connectCount, events, ordered, unvisited, inbox,
                   asyncVars>>

-----------------------------------------------------------------------------
(* The user's calls, between two runs of the system.                       *)

InUpdate == listening /\ phase = "idle"

\* The clients in S are sent a CreateChannel message, and c registered with them.
CreateChannel(c, S) ==
    /\ slots' = [p \in Peers |-> IF p \in S THEN slots[p] \cup {c} ELSE slots[p]]
    /\ opening' = [p \in Peers |-> IF p \in S THEN opening[p] \cup {c} ELSE opening[p]]
    /\ creating' = [p \in Peers |-> IF p \in S THEN creating[p] + 1 ELSE creating[p]]

\* A call that does not look at the queues of the clients.
MutOpenChannelUnbounded(c) ==
    /\ InUpdate
    /\ TakeId(c)
    /\ opened' = opened \cup {c}
    /\ CreateChannel(c, clients)
    /\ UNCHANGED <<listening, started, clientIdGen, clients, id, dead, connectCount, disconnectCount,
                   events, ordered, systemVars, inbox, asyncVars, reports>>

\* open_channel: every client gets the channel, or none does.
OpenChannel(c) ==
    /\ InUpdate
    /\ TakeId(c)
    /\ \A p \in clients : creating[p] < CreateQueueSize
    /\ opened' = opened \cup {c}
    /\ CreateChannel(c, clients)
    /\ UNCHANGED <<listening, started, clientIdGen, clients, id, dead, connectCount, disconnectCount,
                   events, ordered, systemVars, inbox, asyncVars, reports>>

\* The queue of some client is full: its predecessors in the iteration, B, have
\* their CreateChannel message, for a channel that is dropped; the id is given
\* back.  As c may have become the default channel, and then is not any more,
\* the pool is as it was.
OpenChannelFails(c, B) ==
    /\ InUpdate
    /\ c \in available /\ \A d \in available : c <= d
    /\ \E p \in clients \ B : creating[p] = CreateQueueSize
    /\ \A p \in B : creating[p] < CreateQueueSize
    /\ creating' = [p \in Peers |-> IF p \in B THEN creating[p] + 1 ELSE creating[p]]
    /\ default' = IF default = c THEN NoChannel ELSE default
    /\ UNCHANGED <<available, userVars, systemVars, inbox, asyncVars, reports>>

\* What internal_close_channel does to the clients in S: their slots are emptied.
TakeOut(c, S) ==
    /\ slots' = [p \in Peers |-> IF p \in S THEN slots[p] \ {c} ELSE slots[p]]
    /\ opening' = [p \in Peers |-> IF p \in S THEN opening[p] \ {c} ELSE opening[p]]
    /\ dead' = [p \in Peers |-> IF p \in S THEN dead[p] \ {c} ELSE dead[p]]

CanClose(p, c) == c \in slots[p] \ dead[p]

CloseChannel(c) ==
    /\ InUpdate
    /\ c \in opened
    /\ opened' = opened \ {c}
    /\ \A p \in clients : CanClose(p, c)
    /\ TakeOut(c, clients)
    /\ ReleaseId(c)
    /\ UNCHANGED <<listening, started, clientIdGen, clients, id, connectCount, disconnectCount,
                   events, ordered, systemVars, inbox, asyncVars, creating, reports>>

\* A failed close that releases the id all the same.
MutCloseChannelFails(c, p, B) ==
    /\ InUpdate
    /\ c \in opened
    /\ opened' = opened \ {c}
    /\ ~CanClose(p, c)
    /\ \A q \in B : CanClose(q, c)
    /\ TakeOut(c, B \cup {p})
    /\ ReleaseId(c)
    /\ UNCHANGED <<listening, started, clientIdGen, clients, id, connectCount, disconnectCount,
                   events, ordered, systemVars, inbox, asyncVars, creating, reports>>

\* The task of the channel is gone at client p: close_channel returns there.
\* Only the clients B that came before p in the iteration have closed it.
CloseChannelFails(c, p, B) ==
    /\ InUpdate
    /\ c \in opened
    /\ opened' = opened \ {c}
    /\ ~CanClose(p, c)
    /\ \A q \in B : CanClose(q, c)
    /\ TakeOut(c, B \cup {p})
    /\ UNCHANGED <<PoolVars, listening, started, clientIdGen, clients, id, connectCount,
                   disconnectCount, events, ordered, systemVars, inbox, asyncVars,
                   creating, reports>>

\* set_default_channel takes any id, open or not.
SetDefault(c) ==
    /\ InUpdate
    /\ SetDefaultChannel(c)
    /\ UNCHANGED <<userVars, systemVars, inbox, asyncVars, creating, reports>>

DisconnectClient(p) ==
    /\ InUpdate
    /\ p \in clients
    /\ RemoveClients({p})
    /\ disconnectCount' = disconnectCount + 1
    /\ ordered' = ordered \cup {p}
    /\ UNCHANGED <<PoolVars, listening, started, connectCount, events, systemVars, inbox, asyncVars>>

DisconnectAllClients ==
    /\ InUpdate
    /\ RemoveClients(clients)
    /\ ordered' = ordered \cup clients
    /\ UNCHANGED <<PoolVars, listening, started, connectCount, disconnectCount, events, systemVars,
                   inbox, asyncVars>>

\* stop_endpoint: the clients are disconnected, the accept loop told to end, and
\* the endpoint dropped with its queue.
StopEndpoint ==
    /\ InUpdate
    /\ listening' = FALSE
    /\ RemoveClients(clients)
    /\ ordered' = ordered \cup clients
    /\ inbox' = <<>>
    /\ UNCHANGED <<PoolVars, started, connectCount, disconnectCount, events, systemVars,
                   asyncVars>>

\* start_endpoint, after a stop or in place of an endpoint that is then dropped
\* with its clients: client ids, channels and counters start again.
StartEndpoint ==
    /\ phase = "idle"
    /\ started < MaxStarts
    /\ started' = started + 1
    /\ listening' = TRUE
    /\ DropClients(clients)
    /\ ordered' = ordered \cup clients
    /\ clientIdGen' = 0
    /\ opened' = Configured
    /\ PoolAfterTaking(Configured, available', default')
    /\ connectCount' = 0 /\ disconnectCount' = 0
    /\ inbox' = <<>>
    /\ accepting' = accepting \cup {started'}
    /\ UNCHANGED <<id, events, systemVars, of, conn, task, watching>>

-----------------------------------------------------------------------------

Task(p) ==
    \/ Announce(p) \/ Refused(p) \/ Serve(p) \/ WatcherSignals(p)
    \/ TakeCreate(p) \/ SpawnerCloses(p)

HandleEvents ==
    \/ BeginEvents \/ MessagesDone \/ ChannelsDone \/ DisconnectLost
    \/ \E p \in Peers : HandleConnected(p) \/ HandleClosed(p) \/ VisitClient(p)

User ==
    \/ \E c \in Ids : OpenChannel(c) \/ CloseChannel(c) \/ SetDefault(c)
    \/ \E c \in Ids, B \in SUBSET clients :
          \/ OpenChannelFails(c, B)
          \/ \E p \in clients \ B : CloseChannelFails(c, p, B)
    \/ \E p \in Peers : DisconnectClient(p)
    \/ DisconnectAllClients
    \/ StopEndpoint \/ StartEndpoint

Next ==
    \/ \E p \in Peers :
          \/ Task(p)
          \/ TaskReports(p) \/ ConnectionLost(p)
          \/ \E e \in 1..MaxStarts : Accept(p, e)
          \/ \E c \in Ids : StreamOpens(p, c) \/ TaskEnds(p, c)
    \/ \E e \in 1..MaxStarts : AcceptEnds(e)
    \/ HandleEvents
    \/ User

\* The runtime runs every task that can run, and the app runs its updates.
Fairness ==
    /\ \A p \in Peers :
          /\ WF_vars(Announce(p)) /\ WF_vars(Refused(p)) /\ WF_vars(Serve(p))
          /\ WF_vars(WatcherSignals(p)) /\ WF_vars(SpawnerCloses(p))
    /\ WF_vars(HandleEvents)

Spec == Init /\ [][Next]_vars

FairSpec == Spec /\ Fairness

-----------------------------------------------------------------------------
(* Properties.                                                             *)

Lost(p) == "Lost" \in ToSet(events[p])

\* The events about one connection of a client are a ConnectionEvent and then at
\* most one ConnectionLostEvent, whichever of the watcher, the channel tasks and the user
\* are first to end the connection, and however often (server.rs:336-384).
EventsOfAClient ==
    \A p \in Peers :
        events[p] \in IF id[p] = 0 THEN {<<>>} ELSE {<<"Connected">>, <<"Connected", "Lost">>}

\* Between two runs of the system, a client the user has been told is lost is
\* not in the table any more, so no call of the user reaches it, and a client
\* that left with no order of the user has been reported (server.rs:350-384).
TableMatchesEvents ==
    phase = "idle" =>
        \A p \in Peers : id[p] # 0 =>
            /\ p \in clients => ~Lost(p)
            /\ p \notin clients \cup ordered => Lost(p)

\* "On the server, channels are created and closed at the endpoint level and
\* exist for all current & future clients" (README.md:208), the first half: a
\* client that connects while channels are opened and closed has all of them
\* (endpoint.rs:313-334, 380-406).
OpenForAll == \A p \in clients : opened \subseteq slots[p]

\* No client has a channel under an id that open_channel may hand out: a new
\* channel never takes the slot, and the stream, of one still in use
\* (endpoint.rs:313-361, peer_connection.rs:58-76).
AvailableIsUnused == \A p \in clients : slots[p] \cap available = {}

\* A client is counted at most once as disconnected, though its watcher, its
\* channel tasks and the user may each end it, in one frame or in several
\* (endpoint.rs:232-271, 493, server.rs:350-384).
NoClientCountedTwice == disconnectCount + Cardinality(clients) <= clientIdGen

\* A client whose connection is lost is removed, though its watcher may have to
\* wait for room in the endpoint's queue (server.rs:296-309).
LostClientRemoved ==
    \A p \in Peers : (p \in clients /\ conn[p] = "lost") ~> p \notin clients

\* A client that was removed has its connection closed, even when it was removed
\* before its task heard of the acknowledgement (server.rs:280-330).
RemovedClientClosed ==
    \A p \in Peers : (id[p] # 0 /\ p \notin clients) ~> conn[p] # "open"
=============================================================================
