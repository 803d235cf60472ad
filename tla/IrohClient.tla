----------------------------- MODULE IrohClient -----------------------------
(***************************************************************************)
(* IrohClient (src/src/client.rs), its endpoint set: the connections it    *)
(* holds by local id, its default connection, and the run conditions that  *)
(* read it.  Each connection is what ConnectionLife promises.  The channel *)
(* table of one, Focus, is that of ClientChannels: here its calls need a   *)
(* connection that is held, and its resets come with a reconnect.          *)
(***************************************************************************)
EXTENDS ClientChannels, Sequences

CONSTANTS
    Connections,    \* bound: the ConnectionLocalIds open_connection may give
    Focus,          \* the connection whose channels are modelled
    NoConnection    \* the default connection when there is none

ASSUME ConnectionsAssumption ==
    /\ Connections = 0..(Cardinality(Connections) - 1)
    /\ Focus \in Connections
    /\ NoConnection \notin Connections

VARIABLES
    life, told,         \* the connections: see ConnectionLife
    nextId,             \* connection_local_id_gen
    defaultConnection,  \* default_connection_id
    lastConnected,      \* last_connected of client_just_connected
    lastActive,         \* last_connected of client_just_disconnected
    news                \* what happened to the default connection since their
                        \* last evaluation: it connected, or it ended

connectionVars == <<life, told>>
defaultVars    == <<nextId, defaultConnection>>
seenVars       == <<lastConnected, lastActive>>
clientVars     == <<connectionVars, defaultVars, seenVars, news>>

Life == INSTANCE ConnectionLife

ClientInit ==
    /\ Init
    /\ Life!Init
    /\ nextId = 0
    /\ defaultConnection = NoConnection
    /\ lastConnected = FALSE /\ lastActive = FALSE
    /\ news = {}

\* get_connection: the default id may name no connection.
Default == {defaultConnection} \cap Life!Held

IsConnected    == \E c \in Default : life[c] = "Connected"
IsDisconnected == \A c \in Default : life[c] = "Disconnected"

\* What happens to connection c is news if it is the default.
Note(c, what) == news' = IF c = defaultConnection THEN news \cup {what} ELSE news

-----------------------------------------------------------------------------
(* The user's calls on the client.                                         *)

\* An open_connection that takes the smallest id that is not in use.
MutOpenConnection ==
    /\ \E c \in Connections \ Life!Held :
          /\ \A d \in Connections \ Life!Held : c <= d
          /\ nextId' = nextId
          /\ life' = [life EXCEPT ![c] = "Connecting"]
          /\ told' = [told EXCEPT ![c] = <<>>]
          /\ defaultConnection' =
                IF defaultConnection = NoConnection THEN c ELSE defaultConnection
    /\ UNCHANGED <<seenVars, news, vars>>

\* The first connection, or the first since the default was closed, is the default.
OpenConnection ==
    /\ nextId \in Connections
    /\ nextId' = nextId + 1
    /\ life' = [life EXCEPT ![nextId] = "Connecting"]
    /\ told' = [told EXCEPT ![nextId] = <<>>]
    /\ defaultConnection' =
          IF defaultConnection = NoConnection THEN nextId ELSE defaultConnection
    /\ UNCHANGED <<seenVars, news, vars>>

\* The channels of the configuration do not fit in their queue: the connection is
\* dropped, and its id is not given again.
OpenConnectionFails ==
    /\ nextId \in Connections \ {Focus}
    /\ nextId' = nextId + 1
    /\ UNCHANGED <<connectionVars, defaultConnection, seenVars, news, vars>>

\* set_default_connection does not look at the id.  What happened to the
\* connection it names is all news.
SetDefaultConnection(c) ==
    /\ defaultConnection' = c
    /\ news' = {"Connection", "End"}
    /\ UNCHANGED <<connectionVars, nextId, seenVars, vars>>

\* close_connection of each connection of C: one, or all for close_all_connections.
CloseConnections(C) ==
    /\ C # {} /\ (Cardinality(C) = 1 \/ C = Life!Held)
    /\ Life!Close(C)
    /\ defaultConnection' = IF defaultConnection \in C THEN NoConnection ELSE defaultConnection
    /\ news' = IF defaultConnection \in C THEN news \cup {"End"} ELSE news
    /\ UNCHANGED <<nextId, seenVars, vars>>

\* Those on a connection: reconnect, which makes a new channel table,
Reconnects(c) ==
    /\ Life!Reconnect(c)
    /\ IF c = Focus THEN Reconnect ELSE UNCHANGED vars
    /\ UNCHANGED <<defaultVars, seenVars, news>>

\* and disconnect.
Disconnects(c) ==
    /\ Life!Disconnect(c)
    /\ Note(c, "End")
    /\ UNCHANGED <<defaultVars, seenVars, vars>>

\* The calls on the channels of Focus, which reach them whatever its state.
ChannelCall ==
    /\ Focus \in Life!Held
    /\ \E c \in Ids :
          \/ OpenChannel(c) \/ OpenChannelFails(c)
          \/ CloseChannel(c) \/ CloseOrphan(c)
          \/ SetDefault(c)
    /\ UNCHANGED clientVars

-----------------------------------------------------------------------------
(* The systems of the frame, and the tasks.                                *)

\* handle_client_events: a message of connection c.
HandleClientEvent(c) ==
    /\ \/ Life!Connects(c) /\ Note(c, "Connection")
       \/ (Life!Fails(c) \/ Life!Loses(c)) /\ Note(c, "End")
    /\ UNCHANGED <<defaultVars, seenVars, vars>>

\* client_just_connected and client_just_disconnected.
JustConnected    == ~lastConnected /\ IsConnected
JustDisconnected == lastActive /\ IsDisconnected

\* A Local that keeps what the run condition returned.
MutEvaluate ==
    /\ lastConnected' = JustConnected
    /\ lastActive' = ~IsDisconnected
    /\ news' = {}
    /\ UNCHANGED <<connectionVars, defaultVars, vars>>

\* Bevy evaluates them before a system they guard, in any schedule.
Evaluate ==
    /\ lastConnected' = IsConnected
    /\ lastActive' = ~IsDisconnected
    /\ news' = {}
    /\ UNCHANGED <<connectionVars, defaultVars, vars>>

\* The tasks of Focus, while there is a table they matter to.
ChannelTasks ==
    /\ Focus \in Life!Held
    /\ TakeCreate \/ SpawnerEnds \/ \E c \in Ids : TaskEnds(c)
    /\ UNCHANGED clientVars

ClientNext ==
    \/ OpenConnection \/ OpenConnectionFails
    \/ \E C \in SUBSET Life!Held : CloseConnections(C)
    \/ \E c \in Connections :
          \/ SetDefaultConnection(c) \/ Reconnects(c) \/ Disconnects(c)
          \/ HandleClientEvent(c)
    \/ ChannelCall \/ ChannelTasks
    \/ Evaluate

ClientSpec == ClientInit /\ [][ClientNext]_<<clientVars, vars>>

-----------------------------------------------------------------------------
(* Properties.                                                             *)

\* A ConnectionLocalId names one connection for ever: whatever is opened, fails to
\* open or is closed, each id has the life of one connection (client.rs:207-266,
\* 287-309).
LocalIdsNameOneConnection == Life!Spec

\* A system that runs if client_just_connected runs for a connection, and one that
\* runs if client_just_disconnected for the end of one, not twice for the same:
\* since their last evaluation the default connection raised an event, was
\* disconnected or closed, or another was made the default (client.rs:472-502).
RunConditionsTellNews ==
    /\ JustConnected    => "Connection" \in news
    /\ JustDisconnected => "End" \in news
=============================================================================
