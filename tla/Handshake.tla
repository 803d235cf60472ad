------------------------------ MODULE Handshake ------------------------------
(***************************************************************************)
(* A client connection (ClientConnection) and the server it connects to    *)
(* (ServerEndpoint) over one QUIC connection per attempt: who completes    *)
(* the handshake when, how the client gets the id the server gave it       *)
(* (src/src/server/client_id.rs, src/src/client/connection/client_id.rs),  *)
(* and how the end of a connection on one side reaches the other.          *)
(*                                                                         *)
(* The steps of the two components are theirs; here they are joined.  What *)
(* ClientConnection lets the peer do at any time, and ServerEndpoint lets  *)
(* the network do, now has a cause, or is a loss of the connection.        *)
(***************************************************************************)
EXTENDS Naturals, Sequences, FiniteSets

CONSTANTS
    Ids, NoChannel, Configured, CreateQueueSize, InboxSize, MaxStarts,  \* ServerEndpoint
    ServerReports,              \* its MaxReports
    MaxAttempts, MaxReports                                             \* ClientConnection

\* Of the bounds of the two components, the one that joining them depends on.
ASSUME StartsAssumption == MaxStarts \in Nat \ {0}

VARIABLES
    \* of ClientConnection; cphase, cevents and cconn are its phase, events and conn
    cphase, state, attempt, held, cevents, toSync, fromChannels, closeLog, since,
    main, cconn, watcher, spawner, channel,
    \* of ServerEndpoint
    available, default, listening, started, clientIdGen, clients, id, opened, slots,
    opening, dead, connectCount, disconnectCount, events, ordered, phase, unvisited,
    lostClients, inbox, accepting, of, conn, task, watching, creating, reports,
    \* of their connections
    awaited,    \* the attempt whose handshake endpoint_task awaits, or Nobody
    refused,    \* the attempts whose handshake the server let go
    idSent      \* the attempts the server has sent their id to

Attempts == 1..MaxAttempts
Nobody   == 0

C == INSTANCE ClientConnection WITH phase <- cphase, events <- cevents, conn <- cconn
S == INSTANCE ServerEndpoint WITH Peers <- Attempts, MaxReports <- ServerReports

clientVars == <<cphase, state, attempt, held, cevents, toSync, fromChannels, closeLog, since,
                main, cconn, watcher, spawner, channel>>
serverVars == <<available, default, listening, started, clientIdGen, clients, id, opened, slots,
                opening, dead, connectCount, disconnectCount, events, ordered, phase, unvisited,
                lostClients, inbox, accepting, of, conn, task, watching, creating, reports>>
linkVars == <<awaited, refused, idSent>>
vars == <<clientVars, serverVars, linkVars>>

Init == C!Init /\ S!Init /\ awaited = Nobody /\ refused = {} /\ idSent = {}

\* A step of one side alone.
ByClient(step) == step /\ UNCHANGED <<serverVars, linkVars>>
ByServer(step) == step /\ UNCHANGED <<clientVars, linkVars>>

-----------------------------------------------------------------------------
(* The handshake.  endpoint_task accepts a connection and awaits its       *)
(* handshake before it accepts the next; dropping either ends it.          *)

\* endpoint.accept returns the connection of an attempt.
TakeIncoming(a) ==
    /\ accepting # {}
    /\ awaited = Nobody
    /\ main[a] = "connecting" /\ a \notin refused /\ conn[a] = "none"
    /\ awaited' = a
    /\ UNCHANGED <<clientVars, serverVars, refused, idSent>>

\* endpoint.connect returns at the client, while the server answers.
ConnectSucceeds(a) ==
    /\ awaited = a
    /\ C!ConnectSucceeds(a)
    /\ UNCHANGED <<serverVars, linkVars>>

\* connecting.await returns a connection: the client has completed its half.
Accept(a) ==
    /\ awaited = a
    /\ cconn[a] # "none"
    /\ \E e \in accepting : S!Accept(a, e)
    /\ awaited' = Nobody
    /\ UNCHANGED <<clientVars, refused, idSent>>

\* It returns an error: the client gave up or is not heard of any more.
HandshakeFails ==
    /\ awaited # Nobody
    /\ awaited' = Nobody
    /\ refused' = refused \cup {awaited}
    /\ UNCHANGED <<clientVars, serverVars, idSent>>

\* endpoint_task ends, with the handshake it awaits.
AcceptEnds(e) ==
    /\ S!AcceptEnds(e)
    /\ awaited' = Nobody
    /\ refused' = refused \cup ({awaited} \ {Nobody})
    /\ UNCHANGED <<clientVars, idSent>>

-----------------------------------------------------------------------------
(* The client id.                                                          *)

\* An id that is sent when the connection is, not when it is acknowledged.
MutSendClientId(a) ==
    /\ task[a] \in {"waiting", "serving"}
    /\ conn[a] = "open"
    /\ idSent' = idSent \cup {a}
    /\ UNCHANGED <<clientVars, serverVars, awaited, refused>>

\* spawn_client_id_sender, after the acknowledgement; its failure is among the
\* reports of ServerEndpoint.
SendClientId(a) ==
    /\ task[a] = "serving"
    /\ conn[a] = "open"
    /\ a \notin idSent
    /\ idSent' = idSent \cup {a}
    /\ UNCHANGED <<clientVars, serverVars, awaited, refused>>

\* receive_client_id reads it,
RetrieveClientId(a) ==
    /\ a \in idSent
    /\ ByClient(C!RetrieveClientId(a))

\* or fails, for the connection ended.
ClientIdFails(a) ==
    /\ cconn[a] = "closed"
    /\ ByClient(C!ClientIdFails(a))

-----------------------------------------------------------------------------
(* The end of a connection.                                                *)

\* Either side hears that the other has closed the connection or let it go.
ClientHearsEnd(a) ==
    /\ conn[a] \in {"lost", "closed"} \/ a \in refused
    /\ ByClient(C!ConnectionLost(a))

ServerHearsEnd(a) ==
    /\ cconn[a] = "closed"
    /\ ByServer(S!ConnectionLost(a))

\* The network loses the connection for one side, and so, later, for the other.
ConnectionLost(a) == ByClient(C!ConnectionLost(a)) \/ ByServer(S!ConnectionLost(a))

-----------------------------------------------------------------------------

\* What the attempt's connection task does: connecting may fail at any time.
ConnectionTask(a) ==
    \/ ByClient(C!ConnectFails(a) \/ C!SpawnSpawner(a) \/ C!SignalConnected(a))
    \/ RetrieveClientId(a) \/ ClientIdFails(a)

\* Its other tasks, and the order that interrupts it.  No channel is used here.
ClientTask(a) ==
    \/ C!ClientIdInterrupted(a) \/ C!WatcherSignals(a)
    \/ C!SpawnerHearsClose(a) \/ C!SpawnerCloses(a)

\* The server's tasks, and the system that handles their messages.
ServerTask(a) == S!Task(a) \/ S!TaskReports(a)

Next ==
    \/ ByClient(C!User) \/ ByClient(C!Frame)
    \/ ByServer(S!User) \/ ByServer(S!HandleEvents)
    \/ HandshakeFails
    \/ \E e \in accepting : AcceptEnds(e)
    \/ \E a \in Attempts :
          \/ TakeIncoming(a) \/ ConnectSucceeds(a) \/ Accept(a)
          \/ SendClientId(a) \/ ConnectionTask(a)
          \/ ClientHearsEnd(a) \/ ServerHearsEnd(a) \/ ConnectionLost(a)
          \/ ByClient(ClientTask(a))
          \/ ByServer(ServerTask(a))

\* Each side's fairness, and that of QUIC: a handshake ends, if only by its
\* timeout, and the end of a connection on one side is heard on the other.  No
\* fairness makes the server take an incoming connection (it may be busy with the
\* handshake of somebody else), or the network work.
Fairness ==
    /\ WF_vars(ByClient(C!Frame)) /\ WF_vars(ByServer(S!HandleEvents))
    /\ \A a \in Attempts :
          /\ WF_vars(ConnectionTask(a))
          /\ WF_vars(ByClient(C!WatcherSignals(a)))
          /\ WF_vars(ByClient(C!SpawnerHearsClose(a) \/ C!SpawnerCloses(a)))
          /\ WF_vars(Accept(a) \/ HandshakeFails)
          /\ WF_vars(ClientHearsEnd(a)) /\ WF_vars(ServerHearsEnd(a))
          /\ WF_vars(SendClientId(a))
          /\ WF_vars(ByServer(S!Announce(a) \/ S!Refused(a) \/ S!Serve(a)))
          /\ WF_vars(ByServer(S!WatcherSignals(a))) /\ WF_vars(ByServer(S!SpawnerCloses(a)))

Spec == Init /\ [][Next]_vars /\ Fairness

-----------------------------------------------------------------------------
(* Properties.                                                             *)

\* When the client is told that it is connected, the server has been told of the
\* client, under the id the client was given (server.rs:280-293,
\* client/connection.rs:470-473).
ConnectedIsAnnounced ==
    \A a \in Attempts :
        (\E i \in 1..Len(cevents) : cevents[i].kind = "Connection" /\ cevents[i].from = a)
            => id[a] # 0 /\ "Connected" \in {events[a][i] : i \in 1..Len(events[a])}

\* Whatever the server does with the connection, and even if it never takes it up,
\* busy with the handshake of somebody else, the client does not stay Connecting
\* (client/connection.rs:425-488, server.rs:213-330).
ConnectingResolves == C!ConnectingResolves

\* A connection the client drops, by reconnect or close_connection, leaves the
\* server's table, whatever either side was doing (client/connection.rs:239-265,
\* tasks.rs:92-100, server.rs:295-309, 350-384).
GivenUpIsRemoved ==
    \A a \in Attempts : (a \in clients /\ held # a) ~> a \notin clients

\* A client that is told it is connected, and whose watcher has yet to report, is
\* told of the end of its connection: of a loss, and of its removal by the server,
\* be it by the server's user, with the endpoint, or for the report of a task
\* (endpoint.rs:232-277, server.rs:191-205, 350-384, client.rs:341-348).
EndIsNoticed ==
    \A a \in Attempts :
        ( /\ held = a /\ state = "Connected" /\ watcher[a] = "watching"
          /\ cconn[a] = "closed" \/ (id[a] # 0 /\ a \notin clients) )
        ~> (held # a \/ state = "Disconnected")
=============================================================================
