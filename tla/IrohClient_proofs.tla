-------------------------- MODULE IrohClient_proofs --------------------------
(***************************************************************************)
(* Proofs about the client, for every number of connections, and every     *)
(* set of channel ids, configuration and queue size of the one whose       *)
(* channels are modelled.                                                  *)
(***************************************************************************)
EXTENDS IrohClient, FiniteSetTheorems, SequenceTheorems, TLAPS

-----------------------------------------------------------------------------
(* The channel table of one connection, for every set of ids,              *)
(* configuration and queue size.                                           *)

\* Typing and the relation between the pool and the slots are inductive together:
\* a released id leaves its slot in the same step.
IndInv == TypeOK /\ OpenIdsAreTaken

\* The table of a fresh or reset connection is in the invariant
\* (client/connection.rs:209-224 and peer_connection.rs:266-283).
LEMMA FreshTable ==
    ASSUME NEW av, NEW df, NEW sl, NEW orp, NEW sp, NEW cr,
           Fresh(av, df, sl, orp, sp, cr)
    PROVE  /\ av \subseteq Ids
           /\ df \in Ids \cup {NoChannel}
           /\ df \notin av
           /\ sl \in [Ids -> {"absent", "none", "open"}]
           /\ orp \subseteq Ids
           /\ sp \in {"alive", "gone"}
           /\ cr \in 0..CreateQueueSize
           /\ \A c \in Ids : sl[c] = "open" => c \notin av
<1>1. cr \in 0..CreateQueueSize
  <2>1. Cardinality(Configured) \in Nat
    BY ConfiguredAssumption, FS_CardinalityType
  <2> QED
    BY <2>1, ConfiguredAssumption DEF Fresh
<1>2. df \in Ids \cup {NoChannel} /\ df \notin av
  BY ConfiguredAssumption, IdsAssumption DEF Fresh, PoolAfterTaking
<1> QED
  BY <1>1, <1>2, ConfiguredAssumption DEF Fresh, PoolAfterTaking

\* A table with the configured channels is in the invariant.
LEMMA InitIndInv == Init => IndInv
<1> SUFFICES ASSUME Init PROVE IndInv
  OBVIOUS
<1> USE DEF Init
<1>1. TypeOK
  BY FreshTable DEF TypeOK, PoolTypeOK
<1>2. OpenIdsAreTaken
  BY FreshTable DEF OpenIdsAreTaken, OpenIds
<1> QED
  BY <1>1, <1>2 DEF IndInv

\* No call of the user and no end of a task breaks the invariant.
LEMMA NextIndInv == IndInv /\ [Next]_vars => IndInv'
<1> SUFFICES ASSUME IndInv, [Next]_vars PROVE IndInv'
  OBVIOUS
<1> USE DEF IndInv, TypeOK, PoolTypeOK, OpenIdsAreTaken, OpenIds, PoolVars
<1>1. ASSUME NEW c \in Ids, OpenChannel(c) PROVE IndInv'
  <2>1. slots' \in [Ids -> {"absent", "none", "open"}] /\ OpenIds' = OpenIds \cup {c}
    BY <1>1 DEF OpenChannel, Register
  <2>2. creating' \in 0..CreateQueueSize
    BY <1>1, ConfiguredAssumption DEF OpenChannel
  <2> QED
    BY <1>1, <2>1, <2>2, IdsAssumption DEF OpenChannel, TakeId
<1>2. ASSUME NEW c \in Ids, OpenChannelFails(c) PROVE IndInv'
  BY <1>2, IdsAssumption DEF OpenChannelFails, TakeId
<1>3. ASSUME NEW c \in Ids, CloseChannel(c) PROVE IndInv'
  BY <1>3, IdsAssumption DEF CloseChannel, ReleaseId
<1>4. ASSUME NEW c \in Ids, CloseOrphan(c) PROVE IndInv'
  BY <1>4 DEF CloseOrphan
<1>5. ASSUME NEW c \in Ids, SetDefault(c) PROVE IndInv'
  BY <1>5 DEF SetDefault, SetDefaultChannel
<1>6. ASSUME NEW c \in Ids, TaskEnds(c) PROVE IndInv'
  BY <1>6 DEF TaskEnds
<1>7. CASE TakeCreate
  BY <1>7, ConfiguredAssumption DEF TakeCreate
<1>8. CASE SpawnerEnds
  BY <1>8, ConfiguredAssumption DEF SpawnerEnds
<1>9. CASE Reconnect
  BY <1>9, FreshTable DEF Reconnect
<1>10. CASE UNCHANGED vars
  BY <1>10 DEF vars
<1> QED
  BY <1>1, <1>2, <1>3, <1>4, <1>5, <1>6, <1>7, <1>8, <1>9, <1>10 DEF Next

\* The table keeps its types (peer_connection.rs:38-111).
THEOREM TypeCorrect == Spec => []TypeOK
<1>1. IndInv => TypeOK
  BY DEF IndInv
<1> QED
  BY InitIndInv, NextIndInv, <1>1, PTL DEF Spec

\* open_channel never hands out the id of an open channel
\* (peer_connection.rs:58-76, 222-231).
THEOREM NoOverwrite == Spec => []OpenIdsAreTaken
<1>1. IndInv => OpenIdsAreTaken
  BY DEF IndInv
<1> QED
  BY InitIndInv, NextIndInv, <1>1, PTL DEF Spec

\* No step but a set_default_channel that names a free id puts the default
\* channel's id into the pool: a release of the id takes the default with it.
LEMMA NextDefaultStays ==
    ASSUME IndInv, [Next]_vars, default \notin available, default' \in available'
    PROVE  \E c \in available : SetDefault(c)
<1> USE DEF IndInv, TypeOK, PoolTypeOK, PoolVars
<1>1. ASSUME NEW c \in Ids, OpenChannel(c) \/ OpenChannelFails(c)
      PROVE  FALSE
  BY <1>1, IdsAssumption DEF OpenChannel, OpenChannelFails, TakeId
<1>2. ASSUME NEW c \in Ids, CloseChannel(c)
      PROVE  FALSE
  BY <1>2, IdsAssumption DEF CloseChannel, ReleaseId
<1>3. ASSUME NEW c \in Ids, SetDefault(c)
      PROVE  \E d \in available : SetDefault(d)
  BY <1>3 DEF SetDefault, SetDefaultChannel
<1>4. CASE Reconnect
  BY <1>4, FreshTable DEF Reconnect
<1>5. CASE \/ \E c \in Ids : CloseOrphan(c) \/ TaskEnds(c)
           \/ TakeCreate \/ SpawnerEnds \/ UNCHANGED vars
  BY <1>5 DEF CloseOrphan, TaskEnds, TakeCreate, SpawnerEnds, vars
<1> QED
  BY <1>1, <1>2, <1>3, <1>4, <1>5 DEF Next

\* The default channel goes stale by the user alone, who named a free id: a default
\* that open_channel chose does not (peer_connection.rs:57-82,
\* client/connection.rs:203-224).
THEOREM DefaultIsUsers == Spec => DefaultStaysTaken
<1>1. IndInv /\ [Next]_vars
         => (default \notin available /\ default' \in available'
                => \E c \in available : SetDefault(c))
  BY NextDefaultStays
<1> QED
  BY InitIndInv, NextIndInv, <1>1, PTL DEF Spec, DefaultStaysTaken

-----------------------------------------------------------------------------
(* The client.                                                             *)

\* The types of what the client keeps.
ClientTypes ==
    /\ life \in [Connections -> Life!States \cup {"unborn", "closed"}]
    /\ told \in [Connections -> Seq(Life!Events)]
    /\ nextId \in Nat
    /\ defaultConnection \in Connections \cup {NoConnection}
    /\ lastConnected \in BOOLEAN /\ lastActive \in BOOLEAN
    /\ news \subseteq {"Connection", "End"}

\* No id from the generator's next one on has been used.
IdsAhead ==
    \A c \in Connections : c >= nextId => life[c] = "unborn" /\ told[c] = <<>>

ClientIndInv == ClientTypes /\ IdsAhead /\ RunConditionsTellNews

-----------------------------------------------------------------------------
(* Facts used in several steps.                                            *)

\* The ids are numbers; no connection is the default when there is none.
LEMMA IdsAreNumbers == Connections \subseteq Nat /\ NoConnection \notin Connections
<1>1. \A n : 0..(n - 1) \subseteq Nat
  OBVIOUS
<1> QED
  BY <1>1, ConnectionsAssumption

\* The run conditions depend on the default connection alone.
LEMMA ConditionsOfDefault ==
    ASSUME ClientTypes, defaultConnection' = defaultConnection,
           defaultConnection \in Connections => life'[defaultConnection] = life[defaultConnection]
    PROVE  IsConnected' = IsConnected /\ IsDisconnected' = IsDisconnected
<1>1. Default \subseteq {defaultConnection} /\ Default' \subseteq {defaultConnection}
  BY DEF Default
<1>2. Default' = Default
  BY DEF Default, Life!Held
<1>3. \A c \in Default : life'[c] = life[c]
  BY <1>1 DEF Default, Life!Held
<1> QED
  BY <1>2, <1>3 DEF IsConnected, IsDisconnected

\* A step on connection c that takes it to state st, with the news it is.
LEMMA BecomeStep ==
    ASSUME ClientIndInv, NEW c \in Connections, NEW st \in Life!States, NEW what,
           life' = [life EXCEPT ![c] = st], Note(c, what), what \in {"Connection", "End"},
           st = "Connected" => what = "Connection", st = "Disconnected" => what = "End",
           UNCHANGED <<defaultVars, seenVars>>
    PROVE  RunConditionsTellNews' /\ news' \subseteq {"Connection", "End"}
           /\ life' \in [Connections -> Life!States \cup {"unborn", "closed"}]
<1> USE DEF ClientIndInv
<1>0. /\ life' \in [Connections -> Life!States \cup {"unborn", "closed"}]
      /\ news' \subseteq {"Connection", "End"}
  BY DEF ClientTypes, Note
<1>1. CASE c = defaultConnection
  <2>1. /\ life'[defaultConnection] = st /\ what \in news' /\ news \subseteq news'
        /\ defaultConnection' = defaultConnection
    BY <1>1 DEF ClientTypes, Note, defaultVars
  <2>2. ClientTypes => /\ IsConnected' => st = "Connected"
                       /\ IsDisconnected' => st = "Disconnected"
    BY <1>1, <2>1, <1>0 DEF IsConnected, IsDisconnected, Default, Life!Held, Life!States
  <2> QED
    BY <1>0, <2>1, <2>2 DEF RunConditionsTellNews, JustConnected, JustDisconnected, seenVars
<1>2. CASE c # defaultConnection
  <2>1. news' = news /\ IsConnected' = IsConnected /\ IsDisconnected' = IsDisconnected
    BY <1>2, ConditionsOfDefault DEF ClientTypes, Note, defaultVars
  <2> QED
    BY <1>0, <2>1 DEF RunConditionsTellNews, JustConnected, JustDisconnected, seenVars
<1> QED
  BY <1>1, <1>2

-----------------------------------------------------------------------------
(* The steps.                                                              *)

\* A client without connections is in the invariant.
LEMMA ClientInitInv == ClientInit => ClientIndInv
<1> SUFFICES ASSUME ClientInit
             PROVE  ClientIndInv
  OBVIOUS
<1>1. ClientTypes /\ IdsAhead
  BY EmptySeq DEF ClientInit, Life!Init, ClientTypes, IdsAhead
<1>2. ~lastActive /\ ~IsConnected
  BY IdsAreNumbers DEF ClientInit, IsConnected, Default, Life!Held
<1> QED
  BY <1>1, <1>2 DEF ClientIndInv, RunConditionsTellNews, JustConnected, JustDisconnected

\* A new connection takes the next id, that nobody had.
LEMMA OpenStep ==
    ASSUME ClientIndInv, OpenConnection
    PROVE  ClientIndInv' /\ Life!Open(nextId)
<1> USE DEF ClientIndInv, OpenConnection
<1>1. nextId \in Connections /\ life[nextId] = "unborn" /\ told[nextId] = <<>> /\ nextId \in Nat
  BY DEF ClientTypes, IdsAhead
<1>2. told' = told
  BY <1>1 DEF ClientTypes
<1>3. ClientTypes'
  BY <1>1, <1>2 DEF ClientTypes, seenVars, Life!States
<1>4. IdsAhead'
  BY <1>1, <1>2, IdsAreNumbers DEF ClientTypes, IdsAhead
<1>5. RunConditionsTellNews'
  <2>1. /\ life'[nextId] = "Connecting"
        /\ \A c \in Connections : c # nextId => life'[c] = life[c]
    BY <1>1 DEF ClientTypes
  <2>2. CASE defaultConnection \in {nextId, NoConnection}
    <3>1. defaultConnection' = nextId
      BY <2>2
    <3>2. ~IsConnected' /\ ~IsDisconnected'
      BY <1>1, <1>3, <2>1, <3>1 DEF IsConnected, IsDisconnected, Default, Life!Held, Life!States
    <3> QED
      BY <3>2 DEF RunConditionsTellNews, JustConnected, JustDisconnected
  <2>3. CASE defaultConnection \notin {nextId, NoConnection}
    <3>1. IsConnected' = IsConnected /\ IsDisconnected' = IsDisconnected
      BY <2>1, <2>3, ConditionsOfDefault
    <3> QED
      BY <3>1 DEF RunConditionsTellNews, JustConnected, JustDisconnected, seenVars
  <2> QED
    BY <2>2, <2>3
<1> QED
  BY <1>1, <1>2, <1>3, <1>4, <1>5 DEF Life!Open, Life!Become

\* Closed connections have ids below the next one, and the default may be one of
\* them.
LEMMA CloseStep ==
    ASSUME ClientIndInv, NEW C \in SUBSET Life!Held, CloseConnections(C)
    PROVE  ClientIndInv'
<1> USE DEF ClientIndInv, CloseConnections
<1>1. /\ life' = [c \in Connections |-> IF c \in C THEN "closed" ELSE life[c]]
      /\ told' = [c \in Connections |-> IF c \in C THEN <<>> ELSE told[c]]
  BY DEF Life!Close
<1>2. ClientTypes'
  BY <1>1, EmptySeq DEF ClientTypes, seenVars
<1>3. IdsAhead'
  BY <1>1 DEF ClientTypes, IdsAhead, Life!Held, Life!States
<1>4. CASE defaultConnection \in C
  <2>1. ~IsConnected' /\ "End" \in news'
    BY <1>4, IdsAreNumbers DEF IsConnected, Default, Life!Held
  <2> QED
    BY <1>2, <1>3, <2>1 DEF RunConditionsTellNews, JustConnected, JustDisconnected
<1>5. CASE defaultConnection \notin C
  <2>1. IsConnected' = IsConnected /\ IsDisconnected' = IsDisconnected
    BY <1>1, <1>5, ConditionsOfDefault
  <2> QED
    BY <1>2, <1>3, <1>5, <2>1 DEF RunConditionsTellNews, JustConnected, JustDisconnected, seenVars
<1> QED
  BY <1>4, <1>5

\* A connection that is held has an id that was given.
LEMMA HeldIsGiven ==
    ASSUME ClientIndInv, NEW c \in Connections, life[c] # "unborn"
    PROVE  ~(c >= nextId)
BY DEF ClientIndInv, IdsAhead

\* A step of a connection that was born leaves the ids ahead alone.
LEMMA AheadKept ==
    ASSUME ClientIndInv, NEW c \in Connections, life[c] # "unborn", NEW x, NEW y,
           life' = [life EXCEPT ![c] = x], told' = [told EXCEPT ![c] = y], nextId' = nextId
    PROVE  IdsAhead'
BY HeldIsGiven DEF ClientIndInv, ClientTypes, IdsAhead

\* A connection that is started again is not connected yet.
LEMMA ReconnectStep ==
    ASSUME ClientIndInv, NEW c \in Connections, Reconnects(c)
    PROVE  ClientIndInv'
<1> USE DEF ClientIndInv, Reconnects, Life!Reconnect, Life!Become
<1>1. ClientTypes'
  BY EmptySeq DEF ClientTypes, defaultVars, seenVars, Life!States
<1>2. IdsAhead'
  BY AheadKept DEF defaultVars
<1>3. CASE c = defaultConnection
  <2>1. ~IsConnected' /\ ~IsDisconnected'
    BY <1>1, <1>3 DEF ClientTypes, IsConnected, IsDisconnected, Default, Life!Held, Life!States,
                      defaultVars
  <2> QED
    BY <1>1, <1>2, <2>1 DEF RunConditionsTellNews, JustConnected, JustDisconnected
<1>4. CASE c # defaultConnection
  <2>1. IsConnected' = IsConnected /\ IsDisconnected' = IsDisconnected
    BY <1>4, ConditionsOfDefault DEF ClientTypes, defaultVars
  <2> QED
    BY <1>1, <1>2, <2>1 DEF RunConditionsTellNews, JustConnected, JustDisconnected, seenVars
<1> QED
  BY <1>3, <1>4

\* A connection the user disconnects is noted as ended.
LEMMA DisconnectStep ==
    ASSUME ClientIndInv, NEW c \in Connections, Disconnects(c)
    PROVE  ClientIndInv'
<1>1. /\ life' = [life EXCEPT ![c] = "Disconnected"] /\ told' = told /\ life[c] # "unborn"
      /\ "Disconnected" \in Life!States
  BY DEF Disconnects, Life!Disconnect, Life!Become, Life!States
<1>2. /\ RunConditionsTellNews' /\ news' \subseteq {"Connection", "End"}
      /\ life' \in [Connections -> Life!States \cup {"unborn", "closed"}]
  BY <1>1, BecomeStep DEF Disconnects
<1>3. told' = [told EXCEPT ![c] = told[c]]
  BY <1>1 DEF ClientIndInv, ClientTypes
<1>4. IdsAhead'
  BY <1>1, <1>3, AheadKept DEF Disconnects, defaultVars
<1> QED
  BY <1>1, <1>2, <1>4 DEF ClientIndInv, ClientTypes, Disconnects, defaultVars, seenVars

\* What a connection tells is noted when it is the default one.
LEMMA EventStep ==
    ASSUME ClientIndInv, NEW c \in Connections, HandleClientEvent(c)
    PROVE  ClientIndInv' /\ (Life!Connects(c) \/ Life!Fails(c) \/ Life!Loses(c))
<1>1. PICK e \in Life!Events, st \in Life!States, what \in {"Connection", "End"} :
         /\ Life!Tell(c, e, st) /\ Note(c, what) /\ life[c] # "unborn"
         /\ st = "Connected" => what = "Connection"
         /\ st = "Disconnected" => what = "End"
  BY DEF HandleClientEvent, Life!Connects, Life!Fails, Life!Loses, Life!Events, Life!States, Life!Held
<1>2. life' = [life EXCEPT ![c] = st] /\ told' = [told EXCEPT ![c] = Append(told[c], e)]
  BY <1>1 DEF Life!Tell, Life!Become
<1>3. /\ RunConditionsTellNews' /\ news' \subseteq {"Connection", "End"}
      /\ life' \in [Connections -> Life!States \cup {"unborn", "closed"}]
  BY <1>1, <1>2, BecomeStep DEF HandleClientEvent
<1>4. IdsAhead'
  BY <1>1, <1>2, AheadKept DEF HandleClientEvent, defaultVars
<1>5. told' \in [Connections -> Seq(Life!Events)]
  <2>1. Append(told[c], e) \in Seq(Life!Events)
    BY AppendProperties DEF ClientIndInv, ClientTypes
  <2> QED
    BY <1>2, <2>1 DEF ClientIndInv, ClientTypes
<1>6. ClientTypes'
  BY <1>3, <1>5 DEF ClientIndInv, ClientTypes, HandleClientEvent, defaultVars, seenVars
<1> QED
  BY <1>3, <1>4, <1>6 DEF ClientIndInv, HandleClientEvent

\* The calls and systems that do not touch the connections.
LEMMA OtherStep ==
    ASSUME ClientIndInv,
           \/ OpenConnectionFails
           \/ \E c \in Connections : SetDefaultConnection(c)
           \/ Evaluate
           \/ UNCHANGED clientVars
    PROVE  ClientIndInv' /\ UNCHANGED Life!vars
<1>1. CASE OpenConnectionFails
  <2>1. ClientTypes' /\ IdsAhead'
    BY <1>1, IdsAreNumbers DEF OpenConnectionFails, ClientIndInv, ClientTypes, IdsAhead,
                               connectionVars, seenVars
  <2>2. IsConnected' = IsConnected /\ IsDisconnected' = IsDisconnected
    BY <1>1, ConditionsOfDefault DEF OpenConnectionFails, ClientIndInv, connectionVars
  <2> QED
    BY <1>1, <2>1, <2>2 DEF OpenConnectionFails, ClientIndInv, connectionVars, seenVars, Life!vars,
                            RunConditionsTellNews, JustConnected, JustDisconnected
<1>2. ASSUME NEW c \in Connections, SetDefaultConnection(c)
      PROVE  ClientIndInv' /\ UNCHANGED Life!vars
  BY <1>2 DEF SetDefaultConnection, ClientIndInv, ClientTypes, IdsAhead, RunConditionsTellNews,
              connectionVars, seenVars, Life!vars
<1>3. CASE Evaluate
  <2>1. IsConnected' = IsConnected /\ IsDisconnected' = IsDisconnected
    BY <1>3, ConditionsOfDefault DEF Evaluate, ClientIndInv, connectionVars, defaultVars
  <2>2. IsConnected \in BOOLEAN /\ IsDisconnected \in BOOLEAN
    BY DEF IsConnected, IsDisconnected
  <2>3. ClientTypes' /\ IdsAhead'
    BY <1>3, <2>2 DEF Evaluate, ClientIndInv, ClientTypes, IdsAhead, connectionVars, defaultVars
  <2>4. RunConditionsTellNews'
    BY <1>3, <2>1, <2>2 DEF Evaluate, RunConditionsTellNews, JustConnected, JustDisconnected
  <2> QED
    BY <1>3, <2>3, <2>4 DEF Evaluate, ClientIndInv, connectionVars, Life!vars
<1>4. CASE UNCHANGED clientVars
  BY <1>4 DEF clientVars, connectionVars, defaultVars, seenVars, ClientIndInv, ClientTypes,
              IdsAhead, RunConditionsTellNews, JustConnected, JustDisconnected, IsConnected,
              IsDisconnected, Default, Life!Held, Life!vars
<1> QED
  BY <1>1, <1>2, <1>3, <1>4

\* Every step of the client keeps the invariant.
LEMMA ClientNextInv ==
    ClientIndInv /\ [ClientNext]_<<clientVars, vars>> => ClientIndInv' /\ [Life!Next]_Life!vars
<1> SUFFICES ASSUME ClientIndInv, [ClientNext]_<<clientVars, vars>>
             PROVE  ClientIndInv' /\ [Life!Next]_Life!vars
  OBVIOUS
<1>1. CASE OpenConnection
  <2>1. nextId \in Connections
    BY <1>1 DEF OpenConnection
  <2> QED
    BY <1>1, <2>1, OpenStep DEF Life!Next
<1>2. ASSUME NEW C \in SUBSET Life!Held, CloseConnections(C)
      PROVE  ClientIndInv' /\ [Life!Next]_Life!vars
  BY <1>2, CloseStep DEF CloseConnections, Life!Next
<1>3. ASSUME NEW c \in Connections, Reconnects(c) \/ Disconnects(c) \/ HandleClientEvent(c)
      PROVE  ClientIndInv' /\ [Life!Next]_Life!vars
  BY <1>3, ReconnectStep, DisconnectStep, EventStep DEF Reconnects, Disconnects, Life!Next
<1>4. CASE \/ OpenConnectionFails \/ (\E c \in Connections : SetDefaultConnection(c)) \/ Evaluate
           \/ UNCHANGED clientVars
  BY <1>4, OtherStep
<1>5. CASE ChannelCall \/ ChannelTasks
  BY <1>4, <1>5 DEF ChannelCall, ChannelTasks
<1>6. CASE UNCHANGED <<clientVars, vars>>
  BY <1>4, <1>6
<1> QED
  BY <1>1, <1>2, <1>3, <1>4, <1>5, <1>6 DEF ClientNext

\* The invariant holds of every run of the client.
THEOREM ClientInductive == ClientSpec => []ClientIndInv
BY ClientInitInv, ClientNextInv, PTL DEF ClientSpec

\* client_just_connected and client_just_disconnected tell of something that
\* happened to the default connection since they last ran (client.rs:472-502).
THEOREM ConditionsTellNews == ClientSpec => []RunConditionsTellNews
<1>1. ClientIndInv => RunConditionsTellNews
  BY DEF ClientIndInv
<1> QED
  BY <1>1, ClientInductive, PTL

\* Each local id has the life of one connection (client.rs:207-266, 287-309): the
\* client implements ConnectionLife, an id that was given not being given again.
THEOREM IdsNameOneConnection == ClientSpec => LocalIdsNameOneConnection
<1>1. ClientInit => Life!Init
  BY DEF ClientInit
<1> QED
  BY <1>1, ClientNextInv, ClientInductive, PTL DEF ClientSpec, LocalIdsNameOneConnection, Life!Spec

-----------------------------------------------------------------------------
(* The channels of one of its connections.                                 *)

\* Every step of the client is one of that connection's channel table, or leaves it
\* alone.
LEMMA ChannelsStep == [ClientNext]_<<clientVars, vars>> => [Next]_vars
<1> SUFFICES ASSUME [ClientNext]_<<clientVars, vars>>
             PROVE  [Next]_vars
  OBVIOUS
<1>1. CASE ChannelCall \/ ChannelTasks
  BY <1>1 DEF ChannelCall, ChannelTasks, Next
<1>2. ASSUME NEW c \in Connections, Reconnects(c)
      PROVE  [Next]_vars
  BY <1>2 DEF Reconnects, Next
<1>3. UNCHANGED <<clientVars, vars>> => UNCHANGED vars
  OBVIOUS
<1> QED
  BY <1>1, <1>2, <1>3 DEF ClientNext, OpenConnection, OpenConnectionFails, CloseConnections,
     SetDefaultConnection, Disconnects, HandleClientEvent, Evaluate

\* What holds of the channel table of a connection holds of it in the client, that
\* opens, reconnects and closes it.
THEOREM ClientChannelsKept ==
    ClientSpec => [](TypeOK /\ OpenIdsAreTaken) /\ DefaultStaysTaken
<1>1. ClientInit => IndInv
  BY InitIndInv DEF ClientInit
<1>2. IndInv /\ [ClientNext]_<<clientVars, vars>> => IndInv'
  BY NextIndInv, ChannelsStep
<1>3. IndInv => TypeOK /\ OpenIdsAreTaken
  BY DEF IndInv
<1>4. IndInv /\ [ClientNext]_<<clientVars, vars>>
         => (default \notin available /\ default' \in available'
                => \E c \in available : SetDefault(c))
  BY NextDefaultStays, ChannelsStep
<1> QED
  BY <1>1, <1>2, <1>3, <1>4, PTL DEF ClientSpec, DefaultStaysTaken
=============================================================================
