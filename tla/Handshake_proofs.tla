-------------------------- MODULE Handshake_proofs --------------------------
(***************************************************************************)
(* Proofs about a client connection and the server it connects to, for     *)
(* every number of attempts and of endpoints, and every set of channels    *)
(* and size of queues.                                                     *)
(***************************************************************************)
EXTENDS Handshake, SequenceTheorems, TLAPS

\* The types of what the server keeps of a peer and of its endpoints.
ServerTypes ==
    /\ clientIdGen \in Nat
    /\ id \in [Attempts -> Nat]
    /\ events \in [Attempts -> Seq({"Connected", "Lost"})]
    /\ task \in [Attempts -> {"none", "announcing", "waiting", "serving", "ended"}]
    /\ started \in Nat /\ started <= MaxStarts
    /\ accepting \subseteq 1..MaxStarts

\* The server's user was told of peer a.
IsTold(a) == \E k \in 1..Len(events[a]) : events[a][k] = "Connected"

\* A task that serves a client has the id the client was given when its
\* ConnectionEvent was raised.
ServerInv ==
    /\ ServerTypes
    /\ \A a \in Attempts : task[a] = "serving" => id[a] # 0
    /\ \A a \in Attempts : id[a] # 0 => IsTold(a)

\* The types of what the client's connection task sends and what is told of it.
ClientTypes ==
    /\ attempt \in Nat /\ held \in Nat
    /\ main \in [Attempts -> {"unborn", "connecting", "opened", "awaitId", "signalling", "done"}]
    /\ toSync \in Seq(C!AsyncMessages)
    /\ cevents \in Seq([kind : C!Events, from : Nat])

\* A connection task that is past its id, the message it sends then and the event
\* that message raises are of an attempt whose id the server sent.
ClientInv ==
    /\ ClientTypes
    /\ \A a \in Attempts : main[a] = "signalling" => a \in idSent
    /\ \A k \in 1..Len(toSync) : toSync[k] = "Connected" => held \in idSent
    /\ \A k \in 1..Len(cevents) : cevents[k].kind = "Connection" => cevents[k].from \in idSent

\* The server sends its id to those that have one.
SentIsGiven == idSent \subseteq {a \in Attempts : id[a] # 0}

HandInv == ServerInv /\ ClientInv /\ SentIsGiven

-----------------------------------------------------------------------------
(* The two components in their composition.                                *)

\* Every step of the composition is one of the server, or leaves it alone.
LEMMA ServerStepOrStutter ==
    ASSUME accepting \subseteq 1..MaxStarts, [Next]_vars
    PROVE  [S!Next]_S!vars
<1> USE DEF S!vars, S!PoolVars, S!userVars, S!tableVars, S!systemVars, S!asyncVars, S!acceptVars
<1>1. UNCHANGED serverVars => UNCHANGED S!vars
  BY DEF serverVars
<1>2. ASSUME NEW a \in Attempts, TakeIncoming(a) \/ ConnectSucceeds(a) \/ SendClientId(a)
                                 \/ ConnectionTask(a) \/ ClientHearsEnd(a)
      PROVE  [S!Next]_S!vars
  BY <1>1, <1>2 DEF TakeIncoming, ConnectSucceeds, SendClientId, ConnectionTask, ClientHearsEnd,
                    RetrieveClientId, ClientIdFails, ByClient
<1>3. ASSUME NEW a \in Attempts, Accept(a) \/ ServerHearsEnd(a) \/ ConnectionLost(a)
                                 \/ ByServer(ServerTask(a)) \/ ByClient(ClientTask(a))
      PROVE  [S!Next]_S!vars
  BY <1>1, <1>3 DEF Accept, ServerHearsEnd, ConnectionLost, ServerTask, ByServer, ByClient, S!Next
<1>4. CASE ByServer(S!User) \/ ByServer(S!HandleEvents)
  BY <1>4 DEF ByServer, S!Next
<1>5. CASE \E e \in accepting : AcceptEnds(e)
  BY <1>5 DEF AcceptEnds, S!Next
<1>6. CASE ByClient(C!User) \/ ByClient(C!Frame) \/ HandshakeFails \/ UNCHANGED vars
  BY <1>1, <1>6 DEF ByClient, HandshakeFails, vars
<1> QED
  BY <1>2, <1>3, <1>4, <1>5, <1>6 DEF Next

\* And one of the client, or leaves it alone.
LEMMA ClientStepOrStutter ==
    ASSUME [Next]_vars
    PROVE  [C!Next]_C!vars
<1> USE DEF C!vars, C!syncVars, C!queueVars, C!taskVars
<1>0. C!Attempts = Attempts
  BY DEF C!Attempts, Attempts
<1>1. UNCHANGED clientVars => UNCHANGED C!vars
  BY DEF clientVars
<1>2. ASSUME NEW a \in Attempts, TakeIncoming(a) \/ SendClientId(a) \/ Accept(a)
                                 \/ ServerHearsEnd(a) \/ ByServer(ServerTask(a))
      PROVE  [C!Next]_C!vars
  BY <1>1, <1>2 DEF TakeIncoming, SendClientId, Accept, ServerHearsEnd, ByServer
<1>3. ASSUME NEW a \in Attempts, ConnectSucceeds(a) \/ ConnectionTask(a)
      PROVE  [C!Next]_C!vars
  BY <1>0, <1>3 DEF ConnectSucceeds, ConnectionTask, RetrieveClientId, ClientIdFails, ByClient,
                    C!Next, C!Connect
<1>4. ASSUME NEW a \in Attempts, ClientHearsEnd(a) \/ ConnectionLost(a) \/ ByClient(ClientTask(a))
      PROVE  [C!Next]_C!vars
  BY <1>0, <1>1, <1>4 DEF ClientHearsEnd, ConnectionLost, ClientTask, ByClient, ByServer,
                          C!Next, C!Connect, C!Spawner
<1>5. CASE ByClient(C!User) \/ ByClient(C!Frame)
  BY <1>5 DEF ByClient, C!Next
<1>6. CASE \/ ByServer(S!User) \/ ByServer(S!HandleEvents) \/ HandshakeFails
           \/ (\E e \in accepting : AcceptEnds(e)) \/ UNCHANGED vars
  BY <1>1, <1>6 DEF ByServer, HandshakeFails, AcceptEnds, vars
<1> QED
  BY <1>2, <1>3, <1>4, <1>5, <1>6 DEF Next

-----------------------------------------------------------------------------
(* The server.                                                             *)

\* An event is put at the end of those about its peer.
LEMMA RaiseStep ==
    ASSUME ServerInv, NEW p \in Attempts, NEW e \in {"Connected", "Lost"}, S!Raise(p, e)
    PROVE  /\ events' \in [Attempts -> Seq({"Connected", "Lost"})]
           /\ \A a \in Attempts : IsTold(a) => IsTold(a)'
           /\ e = "Connected" => IsTold(p)'
<1>1. events' = [events EXCEPT ![p] = Append(events[p], e)]
  BY DEF S!Raise
<1>2. /\ Append(events[p], e) \in Seq({"Connected", "Lost"}) /\ Len(events[p]) \in Nat
      /\ Len(Append(events[p], e)) = Len(events[p]) + 1
      /\ \A k \in 1..Len(events[p]) : Append(events[p], e)[k] = events[p][k]
      /\ Append(events[p], e)[Len(events[p]) + 1] = e
  BY AppendProperties, LenProperties DEF ServerInv, ServerTypes
<1>3. events'[p] = Append(events[p], e) /\ \A a \in Attempts : a # p => events'[a] = events[a]
  BY <1>1 DEF ServerInv, ServerTypes
<1>4. e = "Connected" => IsTold(p)'
  BY <1>2, <1>3 DEF IsTold
<1>5. ASSUME NEW a \in Attempts, IsTold(a)
      PROVE  IsTold(a)'
  <2>1. CASE a = p
    <3>1. PICK k \in 1..Len(events[p]) : events[p][k] = "Connected"
      BY <1>5, <2>1 DEF IsTold
    <3>2. k \in 1..Len(events'[p]) /\ events'[p][k] = "Connected"
      BY <1>2, <1>3, <3>1
    <3> QED
      BY <2>1, <3>2 DEF IsTold
  <2>2. CASE a # p
    BY <1>3, <1>5, <2>2 DEF IsTold
  <2> QED
    BY <2>1, <2>2
<1>6. events' \in [Attempts -> Seq({"Connected", "Lost"})]
  BY <1>1, <1>2 DEF ServerInv, ServerTypes
<1> QED
  BY <1>4, <1>5, <1>6

\* Who has an id keeps one.
IdsStay == \A a \in Attempts : id[a] # 0 => id'[a] # 0

\* The steps of the server that touch nothing of this.
LEMMA ServerKept ==
    ASSUME ServerInv, UNCHANGED <<clientIdGen, id, events, task, started, accepting>>
    PROVE  ServerInv' /\ IdsStay
BY DEF ServerInv, ServerTypes, IsTold, IdsStay

\* The steps of its tasks.
LEMMA TaskStep ==
    ASSUME ServerInv, UNCHANGED <<clientIdGen, id, events, started>>,
           accepting' \subseteq accepting,
           NEW p \in Attempts, NEW t \in {"announcing", "waiting", "serving", "ended"},
           task' = [task EXCEPT ![p] = t], t = "serving" => id[p] # 0
    PROVE  ServerInv' /\ IdsStay
BY DEF ServerInv, ServerTypes, IsTold, IdsStay

\* An event of the kind Lost.
LEMMA LostStep ==
    ASSUME ServerInv, NEW p \in Attempts, S!Raise(p, "Lost"),
           UNCHANGED <<clientIdGen, id, task, started, accepting>>
    PROVE  ServerInv' /\ IdsStay
BY RaiseStep DEF ServerInv, ServerTypes, IdsStay

\* No task of the server takes an id back, and one that serves has been given one.
LEMMA ServerTasksStep ==
    ASSUME ServerInv, NEW p \in Attempts,
           \/ S!Task(p) \/ S!TaskReports(p) \/ S!ConnectionLost(p)
           \/ \E e \in 1..MaxStarts : S!Accept(p, e)
           \/ \E c \in Ids : S!StreamOpens(p, c) \/ S!TaskEnds(p, c)
    PROVE  ServerInv' /\ IdsStay
<1> USE DEF S!PoolVars, S!userVars, S!tableVars, S!systemVars, S!asyncVars, S!acceptVars
<1>1. CASE \E e \in 1..MaxStarts : S!Accept(p, e)
  BY <1>1, TaskStep DEF S!Accept
<1>2. CASE S!Announce(p)
  BY <1>2, TaskStep DEF S!Announce
<1>3. CASE S!Refused(p)
  BY <1>3, TaskStep DEF S!Refused
<1>4. CASE S!Serve(p)
  BY <1>4, TaskStep DEF S!Serve
<1>5. CASE S!WatcherSignals(p) \/ S!TakeCreate(p) \/ S!SpawnerCloses(p) \/ S!TaskReports(p)
           \/ S!ConnectionLost(p)
  BY <1>5, ServerKept DEF S!WatcherSignals, S!TakeCreate, S!SpawnerCloses, S!TaskReports,
                          S!ConnectionLost
<1>6. CASE \E c \in Ids : S!StreamOpens(p, c) \/ S!TaskEnds(p, c)
  BY <1>6, ServerKept DEF S!StreamOpens, S!TaskEnds, S!Opens
<1> QED
  BY <1>1, <1>2, <1>3, <1>4, <1>5, <1>6 DEF S!Task

\* The system gives an id as it raises the event.
LEMMA HandleEventsStep ==
    ASSUME ServerInv, S!HandleEvents
    PROVE  ServerInv' /\ IdsStay
<1> USE DEF S!PoolVars, S!userVars, S!tableVars, S!systemVars, S!asyncVars, S!acceptVars
<1>1. CASE S!BeginEvents \/ S!MessagesDone \/ S!ChannelsDone \/ S!DisconnectLost
  BY <1>1, ServerKept DEF S!BeginEvents, S!MessagesDone, S!ChannelsDone, S!DisconnectLost,
                          S!RemoveClients, S!DropClients
<1>2. ASSUME NEW p \in Attempts, S!HandleConnected(p)
      PROVE  ServerInv' /\ IdsStay
  <2>1. /\ clientIdGen' = clientIdGen + 1 /\ id' = [id EXCEPT ![p] = clientIdGen']
        /\ S!Raise(p, "Connected") /\ UNCHANGED <<task, started, accepting>>
    BY <1>2 DEF S!HandleConnected
  <2>2. clientIdGen' \in Nat /\ clientIdGen' # 0
    BY <2>1 DEF ServerInv, ServerTypes
  <2>3. /\ events' \in [Attempts -> Seq({"Connected", "Lost"})]
        /\ \A a \in Attempts : IsTold(a) => IsTold(a)'
        /\ IsTold(p)'
    BY <2>1, RaiseStep
  <2> QED
    BY <2>1, <2>2, <2>3 DEF ServerInv, ServerTypes, IdsStay
<1>3. ASSUME NEW p \in Attempts, S!HandleClosed(p)
      PROVE  ServerInv' /\ IdsStay
  <2>1. UNCHANGED <<clientIdGen, id, task, started, accepting>>
    BY <1>3 DEF S!HandleClosed, S!RemoveClients
  <2>2. S!Raise(p, "Lost") \/ UNCHANGED events
    BY <1>3 DEF S!HandleClosed
  <2> QED
    BY <2>1, <2>2, LostStep, ServerKept
<1>4. ASSUME NEW p \in Attempts, S!VisitClient(p)
      PROVE  ServerInv' /\ IdsStay
  <2>1. UNCHANGED <<clientIdGen, id, task, started, accepting>>
    BY <1>4 DEF S!VisitClient
  <2>2. S!Raise(p, "Lost") \/ UNCHANGED events
    BY <1>4 DEF S!VisitClient
  <2> QED
    BY <2>1, <2>2, LostStep, ServerKept
<1> QED
  BY <1>1, <1>2, <1>3, <1>4 DEF S!HandleEvents

\* No call of the server's user takes an id back.
LEMMA ServerUserStep ==
    ASSUME ServerInv, S!User
    PROVE  ServerInv' /\ IdsStay
<1> USE DEF S!PoolVars, S!userVars, S!tableVars, S!systemVars, S!asyncVars, S!acceptVars
<1>1. CASE \E c \in Ids : S!OpenChannel(c) \/ S!CloseChannel(c) \/ S!SetDefault(c)
  BY <1>1, ServerKept DEF S!OpenChannel, S!CloseChannel, S!SetDefault
<1>2. CASE \E c \in Ids, B \in SUBSET clients :
              \/ S!OpenChannelFails(c, B)
              \/ \E p \in clients \ B : S!CloseChannelFails(c, p, B)
  BY <1>2, ServerKept DEF S!OpenChannelFails, S!CloseChannelFails
<1>3. CASE \/ \E p \in Attempts : S!DisconnectClient(p)
           \/ S!DisconnectAllClients \/ S!StopEndpoint
  BY <1>3, ServerKept DEF S!DisconnectClient, S!DisconnectAllClients, S!StopEndpoint,
                          S!RemoveClients, S!DropClients
<1>4. CASE S!StartEndpoint
  <2>1. /\ started < MaxStarts /\ started' = started + 1 /\ clientIdGen' = 0
        /\ accepting' = accepting \cup {started'} /\ UNCHANGED <<id, events, task>>
    BY <1>4 DEF S!StartEndpoint
  <2>2. started' \in Nat /\ started' <= MaxStarts /\ accepting' \subseteq 1..MaxStarts
    BY <2>1, StartsAssumption DEF ServerInv, ServerTypes
  <2> QED
    BY <2>1, <2>2 DEF ServerInv, ServerTypes, IsTold, IdsStay
<1> QED
  BY <1>1, <1>2, <1>3, <1>4 DEF S!User

\* Every step of the server keeps its invariant, and the ids it gave.
LEMMA ServerStep ==
    ASSUME ServerInv, [S!Next]_S!vars
    PROVE  ServerInv' /\ IdsStay
<1>1. CASE UNCHANGED S!vars
  BY <1>1, ServerKept DEF S!vars, S!userVars, S!tableVars, S!asyncVars, S!acceptVars
<1>2. CASE \E e \in 1..MaxStarts : S!AcceptEnds(e)
  BY <1>2 DEF S!AcceptEnds, S!userVars, S!tableVars, ServerInv, ServerTypes, IsTold, IdsStay
<1>3. CASE S!HandleEvents
  BY <1>3, HandleEventsStep
<1>4. CASE S!User
  BY <1>4, ServerUserStep
<1> QED
  BY <1>1, <1>2, <1>3, <1>4, ServerTasksStep DEF S!Next

-----------------------------------------------------------------------------
(* The client.                                                             *)

\* A connection task goes on from its id only when the server has sent it.
LEMMA SignalHasId ==
    ASSUME ClientInv, [Next]_vars
    PROVE  \A a \in Attempts : main'[a] = "signalling" => a \in idSent
<1> USE DEF ClientInv, ClientTypes
<1>1. CASE UNCHANGED main
  BY <1>1
<1>2. CASE ByClient(C!User)
  <2>1. UNCHANGED main \/ main' = [main EXCEPT ![attempt + 1] = "connecting"]
    BY <1>2 DEF ByClient, C!User, C!OpenConnection, C!Reconnect, C!StartAttempt, C!Disconnect,
                C!CloseConnection, C!taskVars
  <2> QED
    BY <2>1
<1>3. CASE ByClient(C!Frame)
  BY <1>1, <1>3 DEF ByClient, C!Frame, C!HandleAsyncMessage, C!HandleChannelMessage, C!NextPhase,
                    C!taskVars
<1>4. ASSUME NEW b \in Attempts, RetrieveClientId(b)
      PROVE  \A a \in Attempts : main'[a] = "signalling" => a \in idSent
  BY <1>4 DEF RetrieveClientId, ByClient, C!RetrieveClientId
<1>5. ASSUME NEW b \in Attempts,
             \/ ConnectSucceeds(b) \/ ClientIdFails(b)
             \/ ByClient(C!ConnectFails(b) \/ C!SpawnSpawner(b) \/ C!SignalConnected(b))
             \/ ByClient(ClientTask(b))
      PROVE  \A a \in Attempts : main'[a] = "signalling" => a \in idSent
  <2>1. UNCHANGED main \/ \E x \in {"opened", "done", "awaitId"} : main' = [main EXCEPT ![b] = x]
    BY <1>5 DEF ConnectSucceeds, ClientIdFails, ByClient, ClientTask, C!ConnectSucceeds,
                C!ConnectFails, C!SpawnSpawner, C!SignalConnected, C!ClientIdFails,
                C!ClientIdInterrupted, C!WatcherSignals, C!SpawnerHearsClose, C!SpawnerCloses
  <2> QED
    BY <2>1
<1>6. ASSUME NEW b \in Attempts,
             \/ TakeIncoming(b) \/ Accept(b) \/ SendClientId(b) \/ ClientHearsEnd(b)
             \/ ServerHearsEnd(b) \/ ConnectionLost(b) \/ ByServer(ServerTask(b))
      PROVE  UNCHANGED main
  BY <1>6 DEF TakeIncoming, Accept, SendClientId, ClientHearsEnd, ServerHearsEnd, ConnectionLost,
              ByServer, ByClient, clientVars, C!ConnectionLost
<1>7. CASE \/ ByServer(S!User) \/ ByServer(S!HandleEvents) \/ HandshakeFails
           \/ (\E e \in accepting : AcceptEnds(e)) \/ UNCHANGED vars
  BY <1>1, <1>7 DEF ByServer, HandshakeFails, AcceptEnds, vars, clientVars
<1> QED
  BY <1>1, <1>2, <1>3, <1>4, <1>5, <1>6, <1>7 DEF Next, ConnectionTask

\* A message put at the end of the client's queue.
LEMMA EnqueueStep ==
    ASSUME ClientInv, NEW a \in Attempts, NEW m \in C!AsyncMessages, C!Enqueue(a, m),
           m = "Connected" => a \in idSent, held' = held, idSent \subseteq idSent'
    PROVE  /\ toSync' \in Seq(C!AsyncMessages)
           /\ \A k \in 1..Len(toSync') : toSync'[k] = "Connected" => held' \in idSent'
<1> USE DEF ClientInv, ClientTypes
<1>1. CASE held # a
  BY <1>1 DEF C!Enqueue, C!Held
<1>2. CASE held = a
  <2>1. toSync' = Append(toSync, m)
    BY <1>2 DEF C!Enqueue, C!Held
  <2>2. /\ toSync' \in Seq(C!AsyncMessages)
        /\ Len(toSync) \in Nat /\ Len(toSync') = Len(toSync) + 1
        /\ \A k \in 1..Len(toSync) : toSync'[k] = toSync[k]
        /\ toSync'[Len(toSync) + 1] = m
    BY <2>1, AppendProperties, LenProperties
  <2>3. ASSUME NEW k \in 1..Len(toSync'), toSync'[k] = "Connected"
        PROVE  held' \in idSent'
    <3>1. CASE k = Len(toSync) + 1
      BY <1>2, <2>2, <2>3, <3>1
    <3>2. CASE k # Len(toSync) + 1
      <4>1. k \in 1..Len(toSync)
        BY <2>2, <3>2
      <4> QED
        BY <2>2, <2>3, <4>1
    <3> QED
      BY <3>1, <3>2
  <2> QED
    BY <2>2, <2>3
<1> QED
  BY <1>1, <1>2

\* An event of the held attempt put at the end of those told.
LEMMA ClientRaiseStep ==
    ASSUME ClientInv, NEW e \in C!Events, C!Raise(e), idSent \subseteq idSent',
           e = "Connection" => held \in idSent
    PROVE  /\ cevents' \in Seq([kind : C!Events, from : Nat])
           /\ \A k \in 1..Len(cevents') :
                 cevents'[k].kind = "Connection" => cevents'[k].from \in idSent'
<1> USE DEF ClientInv, ClientTypes
<1>1. cevents' = Append(cevents, [kind |-> e, from |-> held])
  BY DEF C!Raise
<1>2. [kind |-> e, from |-> held] \in [kind : C!Events, from : Nat]
  OBVIOUS
<1>3. /\ cevents' \in Seq([kind : C!Events, from : Nat])
      /\ Len(cevents) \in Nat /\ Len(cevents') = Len(cevents) + 1
      /\ \A k \in 1..Len(cevents) : cevents'[k] = cevents[k]
      /\ cevents'[Len(cevents) + 1] = [kind |-> e, from |-> held]
  BY <1>1, <1>2, AppendProperties, LenProperties
<1>4. ASSUME NEW k \in 1..Len(cevents'), cevents'[k].kind = "Connection"
      PROVE  cevents'[k].from \in idSent'
  <2>1. CASE k = Len(cevents) + 1
    BY <1>3, <1>4, <2>1
  <2>2. CASE k # Len(cevents) + 1
    <3>1. k \in 1..Len(cevents)
      BY <1>3, <2>2
    <3> QED
      BY <1>3, <1>4, <3>1
  <2> QED
    BY <2>1, <2>2
<1> QED
  BY <1>3, <1>4

\* The steps of the client that send nothing, tell nothing and keep the attempt.
LEMMA ClientQuiet ==
    ASSUME ClientInv, UNCHANGED <<attempt, held, toSync, cevents>>, idSent \subseteq idSent',
           main' \in [Attempts -> {"unborn", "connecting", "opened",
                                   "awaitId", "signalling", "done"}],
           \A a \in Attempts : main'[a] = "signalling" => a \in idSent
    PROVE  ClientInv'
BY DEF ClientInv, ClientTypes

\* A call of the client's user raises no ConnectionEvent.
LEMMA ClientUserStep ==
    ASSUME ClientInv, C!User, idSent' = idSent,
           \A a \in Attempts : main'[a] = "signalling" => a \in idSent
    PROVE  ClientInv'
<1> USE DEF C!taskVars
<1>1. CASE C!OpenConnection \/ C!Reconnect
  <2>1. /\ attempt' = attempt + 1 /\ held' = attempt + 1 /\ cevents' = <<>> /\ toSync' = <<>>
        /\ main' = [main EXCEPT ![attempt + 1] = "connecting"]
    BY <1>1 DEF C!OpenConnection, C!Reconnect, C!StartAttempt, C!ResetQueues
  <2>2. /\ <<>> \in Seq(C!AsyncMessages) /\ <<>> \in Seq([kind : C!Events, from : Nat])
        /\ Len(<<>>) = 0
    BY EmptySeq
  <2>3. attempt' \in Nat /\ held' \in Nat
    BY <2>1 DEF ClientInv, ClientTypes
  <2>4. toSync' \in Seq(C!AsyncMessages) /\ cevents' \in Seq([kind : C!Events, from : Nat])
    BY <2>1, <2>2
  <2>5. main' \in [Attempts -> {"unborn", "connecting", "opened", "awaitId", "signalling", "done"}]
    BY <2>1 DEF ClientInv, ClientTypes
  <2>6. ClientTypes'
    BY <2>3, <2>4, <2>5 DEF ClientTypes
  <2> QED
    BY <2>1, <2>2, <2>6 DEF ClientInv
<1>2. CASE C!Disconnect
  BY <1>2, ClientQuiet DEF C!Disconnect, ClientInv, ClientTypes
<1>3. CASE C!CloseConnection
  <2>1. held' = 0 /\ toSync' = <<>> /\ UNCHANGED <<attempt, cevents, main>>
    BY <1>3 DEF C!CloseConnection
  <2>2. <<>> \in Seq(C!AsyncMessages) /\ Len(<<>>) = 0
    BY EmptySeq
  <2> QED
    BY <2>1, <2>2 DEF ClientInv, ClientTypes
<1> QED
  BY <1>1, <1>2, <1>3 DEF C!User

\* The frame raises a ConnectionEvent for a message of the held attempt.
LEMMA ClientFrameStep ==
    ASSUME ClientInv, C!Frame, idSent' = idSent,
           \A a \in Attempts : main'[a] = "signalling" => a \in idSent
    PROVE  ClientInv'
<1> USE DEF C!taskVars
<1>0. C!LoseConnection => C!Raise("Lost") \/ UNCHANGED cevents
  BY DEF C!LoseConnection
<1>1. CASE C!HandleAsyncMessage
  <2>1. toSync # <<>> /\ toSync' = Tail(toSync) /\ UNCHANGED <<attempt, held, main>>
    BY <1>1 DEF C!HandleAsyncMessage
  <2>2. /\ Head(toSync) \in C!AsyncMessages /\ Head(toSync) = toSync[1] /\ 1 \in 1..Len(toSync)
        /\ Tail(toSync) \in Seq(C!AsyncMessages)
        /\ \A k \in 1..Len(Tail(toSync)) :
              k + 1 \in 1..Len(toSync) /\ Tail(toSync)[k] = toSync[k + 1]
    <3>1. /\ Tail(toSync) \in Seq(C!AsyncMessages) /\ Len(Tail(toSync)) = Len(toSync) - 1
          /\ Head(toSync) \in C!AsyncMessages /\ Head(toSync) = toSync[1]
          /\ \A k \in 1..Len(Tail(toSync)) : Tail(toSync)[k] = toSync[k + 1]
          /\ Len(toSync) \in Nat \ {0}
      BY <2>1, HeadTailProperties, EmptySeq, LenProperties DEF ClientInv, ClientTypes
    <3> QED
      BY <3>1
  <2>3. \/ \E e \in C!Events : C!Raise(e) /\ (e = "Connection" => Head(toSync) = "Connected")
        \/ UNCHANGED cevents
    BY <1>0, <1>1, <2>2 DEF C!HandleAsyncMessage, C!AsyncMessages, C!Events
  <2>4. Head(toSync) = "Connected" => held \in idSent
    BY <2>2 DEF ClientInv
  <2>5. /\ cevents' \in Seq([kind : C!Events, from : Nat])
        /\ \A k \in 1..Len(cevents') :
              cevents'[k].kind = "Connection" => cevents'[k].from \in idSent'
    BY <2>3, <2>4, ClientRaiseStep DEF ClientInv, ClientTypes
  <2>6. \A k \in 1..Len(toSync') : toSync'[k] = "Connected" => held' \in idSent'
    BY <2>1, <2>2 DEF ClientInv
  <2> QED
    BY <2>1, <2>2, <2>5, <2>6 DEF ClientInv, ClientTypes
<1>2. CASE C!HandleChannelMessage
  <2>1. C!LoseConnection /\ UNCHANGED <<attempt, held, toSync, main>>
    BY <1>2 DEF C!HandleChannelMessage
  <2>2. /\ cevents' \in Seq([kind : C!Events, from : Nat])
        /\ \A k \in 1..Len(cevents') :
              cevents'[k].kind = "Connection" => cevents'[k].from \in idSent'
    BY <1>0, <2>1, ClientRaiseStep DEF ClientInv, ClientTypes, C!Events
  <2> QED
    BY <2>1, <2>2 DEF ClientInv, ClientTypes
<1>3. CASE C!NextPhase
  BY <1>3, ClientQuiet DEF C!NextPhase, C!queueVars, ClientInv, ClientTypes
<1> QED
  BY <1>1, <1>2, <1>3 DEF C!Frame

\* A connection task sends its message after its id came.
LEMMA ClientTasksStep ==
    ASSUME ClientInv, NEW a \in Attempts, idSent' = idSent,
           \/ C!Connect(a) \/ C!WatcherSignals(a) \/ C!Spawner(a)
           \/ C!Channel(a) \/ C!ChannelSendFails(a) \/ C!ConnectionLost(a),
           \A b \in Attempts : main'[b] = "signalling" => b \in idSent
    PROVE  ClientInv'
<1> USE DEF C!syncVars, C!queueVars
<1>1. CASE \/ C!ConnectSucceeds(a) \/ C!SpawnSpawner(a) \/ C!RetrieveClientId(a)
           \/ C!ClientIdInterrupted(a)
  BY <1>1, ClientQuiet DEF C!ConnectSucceeds, C!SpawnSpawner, C!RetrieveClientId,
                           C!ClientIdInterrupted, ClientInv, ClientTypes
<1>2. CASE \/ C!ConnectFails(a) \/ C!ClientIdFails(a) \/ C!SignalConnected(a)
           \/ C!WatcherSignals(a)
  <2>1. PICK m \in C!AsyncMessages : C!Enqueue(a, m) /\ (m = "Connected" => main[a] = "signalling")
    BY <1>2 DEF C!ConnectFails, C!ClientIdFails, C!SignalConnected, C!WatcherSignals,
                C!AsyncMessages
  <2>2. UNCHANGED <<attempt, held, cevents>>
    BY <1>2 DEF C!ConnectFails, C!ClientIdFails, C!SignalConnected, C!WatcherSignals
  <2>3. main' \in [Attempts -> {"unborn", "connecting", "opened", "awaitId", "signalling", "done"}]
    BY <1>2 DEF C!ConnectFails, C!ClientIdFails, C!SignalConnected, C!WatcherSignals,
                ClientInv, ClientTypes
  <2>4. /\ toSync' \in Seq(C!AsyncMessages)
        /\ \A k \in 1..Len(toSync') : toSync'[k] = "Connected" => held' \in idSent'
    BY <2>1, <2>2, EnqueueStep DEF ClientInv
  <2> QED
    BY <2>2, <2>3, <2>4 DEF ClientInv, ClientTypes
<1>3. CASE C!Spawner(a) \/ C!Channel(a) \/ C!ChannelSendFails(a) \/ C!ConnectionLost(a)
  <2>1. UNCHANGED <<attempt, held, toSync, cevents, main>>
    BY <1>3 DEF C!Spawner, C!SpawnChannel, C!SpawnerHearsClose, C!SpawnerCloses, C!Channel,
                C!ChannelOpens, C!ChannelEnds, C!ChannelSendFails, C!ConnectionLost
  <2> QED
    BY <2>1, ClientQuiet DEF ClientInv, ClientTypes
<1> QED
  BY <1>1, <1>2, <1>3 DEF C!Connect

\* The server sends an id to the clients it serves, in a step of its own.
LEMMA SentStep ==
    ASSUME HandInv, [Next]_vars
    PROVE  \/ idSent' = idSent
           \/ /\ UNCHANGED clientVars
              /\ \E a \in Attempts : id[a] # 0 /\ idSent' = idSent \cup {a}
<1>1. ASSUME NEW a \in Attempts, SendClientId(a)
      PROVE  UNCHANGED clientVars /\ id[a] # 0 /\ idSent' = idSent \cup {a}
  BY <1>1 DEF SendClientId, HandInv, ServerInv
<1>2. ASSUME NEW a \in Attempts,
             \/ TakeIncoming(a) \/ ConnectSucceeds(a) \/ Accept(a) \/ ConnectionTask(a)
             \/ ClientHearsEnd(a) \/ ServerHearsEnd(a) \/ ConnectionLost(a)
             \/ ByClient(ClientTask(a)) \/ ByServer(ServerTask(a))
      PROVE  idSent' = idSent
  BY <1>2 DEF TakeIncoming, ConnectSucceeds, Accept, ConnectionTask, RetrieveClientId,
              ClientIdFails, ClientHearsEnd, ServerHearsEnd, ConnectionLost, ByClient, ByServer,
              linkVars
<1>3. CASE \/ ByClient(C!User) \/ ByClient(C!Frame) \/ ByServer(S!User)
           \/ ByServer(S!HandleEvents) \/ HandshakeFails
           \/ (\E e \in accepting : AcceptEnds(e)) \/ UNCHANGED vars
  BY <1>3 DEF ByClient, ByServer, HandshakeFails, AcceptEnds, vars, linkVars
<1> QED
  BY <1>1, <1>2, <1>3 DEF Next

-----------------------------------------------------------------------------
(* The composition.                                                        *)

\* Nobody was told of anything at the start.
LEMMA InitHandInv == Init => HandInv
<1> SUFFICES ASSUME Init
             PROVE  HandInv
  OBVIOUS
<1>1. ServerInv
  BY StartsAssumption, EmptySeq DEF Init, S!Init, ServerInv, ServerTypes
<1>2. ClientInv
  BY EmptySeq DEF Init, C!Init, C!Attempts, Attempts, ClientInv, ClientTypes
<1> QED
  BY <1>1, <1>2 DEF Init, HandInv, SentIsGiven

\* Every step of the two keeps the invariant.
LEMMA NextHandInv == HandInv /\ [Next]_vars => HandInv'
<1> SUFFICES ASSUME HandInv, [Next]_vars
             PROVE  HandInv'
  OBVIOUS
<1>1. ServerInv' /\ IdsStay
  BY ServerStepOrStutter, ServerStep DEF HandInv, ServerInv, ServerTypes
<1>2. SentIsGiven'
  BY <1>1, SentStep DEF HandInv, SentIsGiven, IdsStay
<1>3. [C!Next]_C!vars
  BY ClientStepOrStutter
<1>4. \A a \in Attempts : main'[a] = "signalling" => a \in idSent
  BY SignalHasId DEF HandInv
<1>5. ClientInv'
  <2>1. CASE UNCHANGED <<attempt, held, toSync, cevents, main>> /\ idSent \subseteq idSent'
    BY <1>4, <2>1, ClientQuiet DEF HandInv, ClientInv, ClientTypes
  <2>2. CASE UNCHANGED clientVars /\ \E a \in Attempts : idSent' = idSent \cup {a}
    BY <2>1, <2>2 DEF clientVars
  <2>3. CASE idSent' = idSent
    <3>1. CASE UNCHANGED C!vars
      BY <2>1, <2>3, <3>1 DEF C!vars, C!syncVars, C!queueVars, C!taskVars
    <3>2. CASE C!User
      BY <1>4, <2>3, <3>2, ClientUserStep DEF HandInv
    <3>3. CASE C!Frame
      BY <1>4, <2>3, <3>3, ClientFrameStep DEF HandInv
    <3>4. ASSUME NEW a \in Attempts,
                 \/ C!Connect(a) \/ C!WatcherSignals(a) \/ C!Spawner(a)
                 \/ C!Channel(a) \/ C!ChannelSendFails(a) \/ C!ConnectionLost(a)
          PROVE  ClientInv'
      BY <1>4, <2>3, <3>4, ClientTasksStep DEF HandInv
    <3>5. C!Attempts = Attempts
      BY DEF C!Attempts, Attempts
    <3> QED
      BY <1>3, <3>1, <3>2, <3>3, <3>4, <3>5 DEF C!Next
  <2> QED
    BY <2>2, <2>3, SentStep
<1> QED
  BY <1>1, <1>2, <1>5 DEF HandInv

\* The invariant holds of every run.
THEOREM Inductive == Spec => []HandInv
BY InitHandInv, NextHandInv, PTL DEF Spec

\* A client that is told it is connected is one the server was told of, under the id
\* it was given (server.rs:280-293, client/connection.rs:470-473).
THEOREM ConnectedHereIsConnectedThere == Spec => []ConnectedIsAnnounced
<1>1. HandInv => ConnectedIsAnnounced
  BY DEF HandInv, ServerInv, ClientInv, SentIsGiven, IsTold, ConnectedIsAnnounced
<1> QED
  BY <1>1, Inductive, PTL

\* The composition takes no step that one of the components could not take alone:
\* what is proved of all the steps of either holds of it here.
THEOREM StepsAreTheirs == Spec => C!Init /\ [][C!Next]_C!vars /\ S!Spec
<1>1. Init => C!Init /\ S!Init
  BY DEF Init
<1>2. HandInv /\ [Next]_vars => [C!Next]_C!vars /\ [S!Next]_S!vars
  BY ServerStepOrStutter, ClientStepOrStutter DEF HandInv, ServerInv, ServerTypes
<1> QED
  BY <1>1, <1>2, Inductive, PTL DEF Spec, S!Spec
=============================================================================
