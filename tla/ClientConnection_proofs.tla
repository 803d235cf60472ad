------------------------ MODULE ClientConnection_proofs ------------------------
(***************************************************************************)
(* Proofs about the life of a client connection, for every number of       *)
(* attempts and of reports: its invariants, and that it implements         *)
(* ConnectionLife.                                                         *)
(***************************************************************************)
EXTENDS ClientConnection, SequenceTheorems, TLAPS

\* What the connection holds are the queues of its last attempt.
HoldsLast == held \in {0, attempt}

IsOutcome(m)  == m \in {"Connected", "ConnectionFailed"}
IsResolved(e) == e.kind \in {"Connection", "Failed"}

\* The outcome of the held attempt is in one place: its connection task has yet to
\* send it, or it waits in the queue, or its event was raised.
OneOutcome ==
    held # 0 =>
        /\ main[held] # "done" =>
              /\ \A i \in 1..Len(toSync) : ~IsOutcome(toSync[i])
              /\ \A i \in 1..Len(events) : ~IsResolved(events[i])
        /\ \A i \in 1..Len(toSync) : IsOutcome(toSync[i]) =>
              /\ \A j \in 1..Len(toSync) : IsOutcome(toSync[j]) => i = j
              /\ \A j \in 1..Len(events) : ~IsResolved(events[j])

IndInv == TypeOK /\ HoldsLast /\ NoEventOfEarlierAttempts /\ OneOutcome

-----------------------------------------------------------------------------
(* Facts used in several steps.                                            *)

\* A message, or an event, is put at the end.
LEMMA QueuePut ==
    ASSUME NEW T, NEW s \in Seq(T), NEW m \in T
    PROVE  /\ Append(s, m) \in Seq(T)
           /\ Len(s) \in Nat /\ Len(Append(s, m)) = Len(s) + 1
           /\ \A i \in 1..Len(s) : Append(s, m)[i] = s[i]
           /\ Append(s, m)[Len(s) + 1] = m
BY AppendProperties, LenProperties

\* One turn of a loop takes the first message of a queue.
LEMMA QueueTaken ==
    ASSUME NEW T, NEW s \in Seq(T), s # <<>>
    PROVE  /\ Head(s) \in T /\ Tail(s) \in Seq(T) /\ Head(s) = s[1]
           /\ Len(s) \in Nat /\ 1 \in 1..Len(s) /\ Len(Tail(s)) = Len(s) - 1
           /\ \A i \in 1..Len(Tail(s)) : i + 1 \in 1..Len(s) /\ Tail(s)[i] = s[i + 1]
<1>1. /\ Tail(s) \in Seq(T) /\ Len(Tail(s)) = Len(s) - 1 /\ Head(s) \in T
      /\ \A i \in 1..Len(Tail(s)) : Tail(s)[i] = s[i + 1]
      /\ Len(s) \in Nat \ {0}
  BY HeadTailProperties, EmptySeq, LenProperties
<1> QED
  BY <1>1

\* The steps of the tasks leave the synchronous side alone.
LEMMA EventsKept ==
    ASSUME IndInv, UNCHANGED syncVars
    PROVE  HoldsLast' /\ NoEventOfEarlierAttempts'
BY DEF IndInv, syncVars, HoldsLast, NoEventOfEarlierAttempts

\* A message that is no outcome, or the outcome of the connection task that ends
\* with it, keeps the outcome in one place.
LEMMA OutcomeSent ==
    ASSUME IndInv, NEW a \in Attempts, NEW m \in AsyncMessages, Enqueue(a, m),
           UNCHANGED syncVars,
           \/ ~IsOutcome(m) /\ UNCHANGED main
           \/ main[a] # "done" /\ main' = [main EXCEPT ![a] = "done"]
    PROVE  OneOutcome' /\ toSync' \in Seq(AsyncMessages)
<1> USE DEF IndInv, TypeOK, syncVars
<1>1. CASE ~Held(a)
  <2>1. toSync' = toSync /\ held' = held /\ events' = events
    BY <1>1 DEF Enqueue
  <2>2. held # 0 => main'[held] = main[held]
    <3>1. held # 0 => held \in Attempts /\ held # a
      BY <1>1, BoundsAssumption DEF Held, Attempts
    <3>2. main' = main \/ main' = [main EXCEPT ![a] = "done"]
      OBVIOUS
    <3> QED
      BY <3>1, <3>2
  <2> QED
    BY <2>1, <2>2 DEF OneOutcome
<1>2. CASE Held(a)
  <2>1. toSync' = Append(toSync, m) /\ held' = a /\ held = a /\ events' = events
    BY <1>2 DEF Enqueue, Held
  <2>2. /\ toSync' \in Seq(AsyncMessages)
        /\ Len(toSync) \in Nat /\ Len(toSync') = Len(toSync) + 1
        /\ \A i \in 1..Len(toSync) : toSync'[i] = toSync[i]
        /\ toSync'[Len(toSync) + 1] = m
    BY <2>1, QueuePut
  <2>3. a # 0
    BY DEF Attempts
  <2>4. CASE ~IsOutcome(m) /\ UNCHANGED main
    <3>1. \A i \in 1..Len(toSync') : IsOutcome(toSync'[i]) =>
              i \in 1..Len(toSync) /\ IsOutcome(toSync[i])
      BY <2>2, <2>4
    <3> QED
      BY <2>1, <2>2, <2>3, <2>4, <3>1 DEF OneOutcome
  <2>5. CASE main[a] # "done" /\ main' = [main EXCEPT ![a] = "done"]
    <3>1. main'[a] = "done"
      BY <2>5
    <3>2. /\ \A i \in 1..Len(toSync) : ~IsOutcome(toSync[i])
          /\ \A i \in 1..Len(events) : ~IsResolved(events[i])
      BY <2>1, <2>3, <2>5 DEF OneOutcome
    <3>3. \A i \in 1..Len(toSync') : i # Len(toSync) + 1 => i \in 1..Len(toSync)
      BY <2>2
    <3>4. \A i \in 1..Len(toSync') : IsOutcome(toSync'[i]) => i = Len(toSync) + 1
      BY <2>2, <3>2, <3>3
    <3> QED
      BY <2>1, <2>2, <2>3, <3>1, <3>2, <3>4 DEF OneOutcome
  <2> QED
    BY <2>4, <2>5
<1> QED
  BY <1>1, <1>2

\* A step of a task that sends nothing and does not undo the end of a connection task.
LEMMA OutcomeKept ==
    ASSUME IndInv, UNCHANGED <<syncVars, toSync>>,
           held # 0 /\ main'[held] # "done" => main[held] # "done"
    PROVE  OneOutcome'
BY DEF IndInv, syncVars, OneOutcome

\* An event of the held attempt, in the place of the message at the head of the
\* queue, or of no outcome.
LEMMA Raised ==
    ASSUME IndInv, held # 0, NEW e \in Events, Raise(e), UNCHANGED <<attempt, held, main>>
    PROVE  /\ events' \in Seq([kind : Events, from : Attempts])
           /\ NoEventOfEarlierAttempts' /\ HoldsLast'
           /\ Len(events) \in Nat /\ Len(events') = Len(events) + 1
           /\ \A i \in 1..Len(events) : events'[i] = events[i]
           /\ events'[Len(events) + 1].kind = e
<1> USE DEF IndInv, TypeOK
<1>1. held = attempt /\ held \in Attempts
  BY BoundsAssumption DEF HoldsLast, Attempts
<1>2. [kind |-> e, from |-> held] \in [kind : Events, from : Attempts]
  BY <1>1
<1>3. /\ events' \in Seq([kind : Events, from : Attempts])
      /\ Len(events) \in Nat /\ Len(events') = Len(events) + 1
      /\ \A i \in 1..Len(events) : events'[i] = events[i]
      /\ events'[Len(events) + 1] = [kind |-> e, from |-> held]
  BY <1>2, QueuePut DEF Raise
<1>4. events'[Len(events) + 1].kind = e /\ events'[Len(events) + 1].from = attempt'
  BY <1>1, <1>3
<1>5. NoEventOfEarlierAttempts'
  <2>1. SUFFICES ASSUME NEW i \in 1..Len(events')
                 PROVE  events'[i].from = attempt'
    BY DEF NoEventOfEarlierAttempts
  <2>2. i \in 1..Len(events) \/ i = Len(events) + 1
    BY <1>3
  <2> QED
    BY <1>3, <1>4, <2>2 DEF NoEventOfEarlierAttempts
<1> QED
  BY <1>3, <1>4, <1>5 DEF HoldsLast

-----------------------------------------------------------------------------
(* The steps.                                                              *)

\* A connection that was not opened is in the invariant.
LEMMA InitIndInv == Init => IndInv
<1> SUFFICES ASSUME Init
             PROVE  IndInv
  OBVIOUS
<1>1. TypeOK
  BY EmptySeq, BoundsAssumption DEF Init, TypeOK, States, Attempts
<1> QED
  BY <1>1 DEF Init, IndInv, HoldsLast, NoEventOfEarlierAttempts, OneOutcome

\* Every attempt starts with empty queues, no event and a task that runs.
LEMMA StartStep ==
    ASSUME IndInv, StartAttempt, attempt < MaxAttempts
    PROVE  IndInv'
<1> USE DEF IndInv, TypeOK, StartAttempt, ResetQueues
<1>1. attempt + 1 \in Attempts /\ attempt' \in 0..MaxAttempts /\ held' \in 0..MaxAttempts
  BY BoundsAssumption DEF Attempts
<1>2. /\ events' = <<>> /\ toSync' = <<>> /\ closeLog' = <<>>
      /\ <<>> \in Seq([kind : Events, from : Attempts]) /\ <<>> \in Seq(AsyncMessages)
      /\ <<>> \in Seq(CloseReasons) /\ Len(<<>>) = 0
  BY EmptySeq
<1>3. TypeOK'
  <2>1. since' \in [{"spawner", "channel"} -> Nat] /\ fromChannels' \in 0..MaxReports
    BY BoundsAssumption
  <2>2. main' \in [Attempts -> {"unborn", "connecting", "opened", "awaitId", "signalling", "done"}]
    BY <1>1
  <2>3. channel' \in [Attempts -> {"unborn", "queued", "opening", "running", "ended"}]
    BY <1>1
  <2> QED
    BY <1>1, <1>2, <2>1, <2>2, <2>3 DEF States
<1>4. HoldsLast' /\ NoEventOfEarlierAttempts' /\ OneOutcome'
  BY <1>2 DEF HoldsLast, NoEventOfEarlierAttempts, OneOutcome
<1> QED
  BY <1>3, <1>4

\* internal_disconnect keeps the types of what it writes.
LEMMA InternalDisconnectType ==
    ASSUME IndInv, NEW r \in CloseReasons, InternalDisconnect(r)
    PROVE  state' \in States /\ closeLog' \in Seq(CloseReasons)
<1>1. CASE state = "Disconnected"
  BY <1>1 DEF IndInv, TypeOK, InternalDisconnect
<1>2. CASE state # "Disconnected"
  <2>1. state' = "Disconnected" /\ closeLog' = Append(closeLog, r)
    BY <1>2 DEF InternalDisconnect
  <2>2. closeLog \in Seq(CloseReasons)
    BY DEF IndInv, TypeOK
  <2> QED
    BY <2>1, <2>2, QueuePut DEF States
<1> QED
  BY <1>1, <1>2

\* A call of the user either starts an attempt whose queues are new, or ends one.
LEMMA UserStep ==
    ASSUME IndInv, User
    PROVE  IndInv'
<1>1. CASE OpenConnection
  BY <1>1, StartStep, BoundsAssumption DEF OpenConnection
<1>2. CASE Reconnect
  BY <1>2, StartStep DEF Reconnect
<1>3. CASE Disconnect
  <2>1. state' \in States /\ closeLog' \in Seq(CloseReasons)
    BY <1>3, InternalDisconnectType DEF Disconnect, CloseReasons
  <2>2. TypeOK'
    BY <1>3, <2>1 DEF Disconnect, IndInv, TypeOK, taskVars
  <2> QED
    BY <1>3, <2>2 DEF Disconnect, IndInv, taskVars, HoldsLast, NoEventOfEarlierAttempts, OneOutcome
<1>4. CASE CloseConnection
  <2>1. state' \in States /\ closeLog' \in Seq(CloseReasons)
    BY <1>4, InternalDisconnectType DEF CloseConnection, CloseReasons
  <2>2. TypeOK'
    BY <1>4, <2>1, EmptySeq, BoundsAssumption DEF CloseConnection, IndInv, TypeOK, taskVars
  <2> QED
    BY <1>4, <2>2 DEF CloseConnection, IndInv, taskVars, HoldsLast, NoEventOfEarlierAttempts,
                      OneOutcome
<1> QED
  BY <1>1, <1>2, <1>3, <1>4 DEF User

\* A loss is no outcome, and is told of the held attempt.
LEMMA LossStep ==
    ASSUME IndInv, held # 0, LoseConnection, UNCHANGED <<attempt, held, main>>
    PROVE  /\ state' \in States /\ closeLog' \in Seq(CloseReasons)
           /\ events' \in Seq([kind : Events, from : Attempts])
           /\ HoldsLast' /\ NoEventOfEarlierAttempts'
           /\ \A i \in 1..Len(events') : IsResolved(events'[i]) =>
                 i \in 1..Len(events) /\ IsResolved(events[i])
<1>1. CASE state = "Disconnected"
  BY <1>1 DEF LoseConnection, IndInv, TypeOK, HoldsLast, NoEventOfEarlierAttempts
<1>2. CASE state # "Disconnected"
  <2>1. InternalDisconnect("PeerClosed") /\ Raise("Lost")
    BY <1>2 DEF LoseConnection
  <2>2. state' \in States /\ closeLog' \in Seq(CloseReasons)
    BY <2>1, InternalDisconnectType DEF CloseReasons
  <2>3. /\ events' \in Seq([kind : Events, from : Attempts])
        /\ NoEventOfEarlierAttempts' /\ HoldsLast'
        /\ Len(events) \in Nat /\ Len(events') = Len(events) + 1
        /\ \A i \in 1..Len(events) : events'[i] = events[i]
        /\ events'[Len(events) + 1].kind = "Lost"
    BY <2>1, Raised DEF Events
  <2>4. \A i \in 1..Len(events') : i \in 1..Len(events) \/ i = Len(events) + 1
    BY <2>3
  <2> QED
    BY <2>2, <2>3, <2>4 DEF IsResolved
<1> QED
  BY <1>1, <1>2

\* The outcome of the attempt leaves the queue as its event is raised.
LEMMA AsyncMessageStep ==
    ASSUME IndInv, HandleAsyncMessage
    PROVE  IndInv'
<1>0. /\ held # 0 /\ toSync # <<>> /\ toSync' = Tail(toSync)
      /\ UNCHANGED <<phase, attempt, held, fromChannels, since>>
      /\ UNCHANGED <<main, conn, watcher, spawner, channel>>
  BY DEF HandleAsyncMessage, taskVars
<1>1. /\ Head(toSync) \in AsyncMessages /\ Tail(toSync) \in Seq(AsyncMessages)
      /\ Head(toSync) = toSync[1]
      /\ Len(toSync) \in Nat /\ 1 \in 1..Len(toSync) /\ Len(Tail(toSync)) = Len(toSync) - 1
      /\ \A i \in 1..Len(Tail(toSync)) :
            i + 1 \in 1..Len(toSync) /\ Tail(toSync)[i] = toSync[i + 1]
  BY <1>0, QueueTaken DEF IndInv, TypeOK
<1>2. CASE IsOutcome(Head(toSync))
  <2>1. PICK e \in {"Connection", "Failed"} :
           Raise(e) /\ state' \in {"Connected", "Disconnected"} /\ UNCHANGED closeLog
    BY <1>2 DEF HandleAsyncMessage, IsOutcome
  <2>2. e \in Events
    BY DEF Events
  <2>3. /\ events' \in Seq([kind : Events, from : Attempts])
        /\ NoEventOfEarlierAttempts' /\ HoldsLast'
    BY <1>0, <2>1, <2>2, Raised
  <2>4. TypeOK'
    BY <1>0, <1>1, <2>1, <2>3 DEF IndInv, TypeOK, States
  <2>5. main[held] = "done"
    BY <1>0, <1>1, <1>2 DEF IndInv, OneOutcome
  <2>6. \A i \in 1..Len(toSync') : ~IsOutcome(toSync'[i])
    <3>1. \A j \in 1..Len(toSync) : IsOutcome(toSync[j]) => 1 = j
      BY <1>0, <1>1, <1>2 DEF IndInv, OneOutcome
    <3>2. SUFFICES ASSUME NEW i \in 1..Len(toSync')
                   PROVE  ~IsOutcome(toSync'[i])
      OBVIOUS
    <3>3. i + 1 \in 1..Len(toSync) /\ toSync'[i] = toSync[i + 1] /\ i + 1 # 1
      BY <1>0, <1>1
    <3> QED
      BY <3>1, <3>3
  <2>7. OneOutcome'
    BY <1>0, <2>5, <2>6 DEF OneOutcome
  <2> QED
    BY <2>3, <2>4, <2>7 DEF IndInv
<1>3. CASE ~IsOutcome(Head(toSync))
  <2>1. LoseConnection
    BY <1>1, <1>3 DEF HandleAsyncMessage, IsOutcome, AsyncMessages
  <2>2. /\ state' \in States /\ closeLog' \in Seq(CloseReasons)
        /\ events' \in Seq([kind : Events, from : Attempts])
        /\ HoldsLast' /\ NoEventOfEarlierAttempts'
        /\ \A i \in 1..Len(events') : IsResolved(events'[i]) =>
              i \in 1..Len(events) /\ IsResolved(events[i])
    BY <1>0, <2>1, LossStep
  <2>3. TypeOK'
    BY <1>0, <1>1, <2>2 DEF IndInv, TypeOK
  <2>4. \A i \in 1..Len(toSync') : i + 1 \in 1..Len(toSync) /\ toSync'[i] = toSync[i + 1]
    BY <1>0, <1>1
  <2>5. \A i, j \in 1..Len(toSync') : i + 1 = j + 1 => i = j
    BY <1>0, <1>1
  <2>6. OneOutcome'
    BY <1>0, <2>2, <2>4, <2>5 DEF IndInv, OneOutcome
  <2> QED
    BY <2>2, <2>3, <2>6 DEF IndInv
<1> QED
  BY <1>2, <1>3

\* A turn of the frame's loops raises an event of the held attempt only.
LEMMA FrameStep ==
    ASSUME IndInv, Frame
    PROVE  IndInv'
<1>1. CASE HandleAsyncMessage
  BY <1>1, AsyncMessageStep
<1>2. CASE HandleChannelMessage
  <2>0. /\ held # 0 /\ fromChannels > 0 /\ fromChannels' = fromChannels - 1 /\ LoseConnection
        /\ UNCHANGED <<phase, attempt, held, toSync, since>>
        /\ UNCHANGED <<main, conn, watcher, spawner, channel>>
    BY <1>2 DEF HandleChannelMessage, taskVars
  <2>1. /\ state' \in States /\ closeLog' \in Seq(CloseReasons)
        /\ events' \in Seq([kind : Events, from : Attempts])
        /\ HoldsLast' /\ NoEventOfEarlierAttempts'
        /\ \A i \in 1..Len(events') : IsResolved(events'[i]) =>
              i \in 1..Len(events) /\ IsResolved(events[i])
    BY <2>0, LossStep
  <2>2. fromChannels' \in 0..MaxReports
    BY <2>0, BoundsAssumption DEF IndInv, TypeOK
  <2>3. TypeOK'
    BY <2>0, <2>1, <2>2 DEF IndInv, TypeOK
  <2>4. OneOutcome'
    BY <2>0, <2>1 DEF IndInv, OneOutcome
  <2> QED
    BY <2>1, <2>3, <2>4 DEF IndInv
<1>3. CASE NextPhase
  BY <1>3 DEF NextPhase, queueVars, taskVars, IndInv, TypeOK, HoldsLast,
              NoEventOfEarlierAttempts, OneOutcome
<1> QED
  BY <1>1, <1>2, <1>3 DEF Frame

\* The connection task sends its outcome as it ends.
LEMMA ConnectStep ==
    ASSUME IndInv, NEW a \in Attempts, Connect(a)
    PROVE  IndInv'
<1>1. CASE ConnectSucceeds(a)
  <2>1. TypeOK'
    BY <1>1 DEF ConnectSucceeds, IndInv, TypeOK, syncVars, queueVars
  <2>2. OneOutcome'
    BY <1>1, OutcomeKept DEF ConnectSucceeds, queueVars, IndInv, TypeOK
  <2> QED
    BY <1>1, <2>1, <2>2, EventsKept DEF ConnectSucceeds, IndInv
<1>2. CASE ConnectFails(a)
  <2>1. OneOutcome' /\ toSync' \in Seq(AsyncMessages)
    BY <1>2, OutcomeSent DEF ConnectFails, AsyncMessages
  <2>2. TypeOK'
    BY <1>2, <2>1 DEF ConnectFails, IndInv, TypeOK, syncVars
  <2> QED
    BY <1>2, <2>1, <2>2, EventsKept DEF ConnectFails, IndInv
<1>3. CASE SpawnSpawner(a)
  <2>1. since' \in [{"spawner", "channel"} -> Nat]
    BY <1>3, LenProperties DEF SpawnSpawner, Subscribe, IndInv, TypeOK
  <2>2. TypeOK'
    BY <1>3, <2>1 DEF SpawnSpawner, IndInv, TypeOK, syncVars
  <2>3. OneOutcome'
    BY <1>3, OutcomeKept DEF SpawnSpawner, IndInv, TypeOK
  <2> QED
    BY <1>3, <2>2, <2>3, EventsKept DEF SpawnSpawner, IndInv
<1>4. CASE RetrieveClientId(a)
  <2>1. TypeOK'
    BY <1>4 DEF RetrieveClientId, IndInv, TypeOK, syncVars, queueVars
  <2>2. OneOutcome'
    BY <1>4, OutcomeKept DEF RetrieveClientId, queueVars, IndInv, TypeOK
  <2> QED
    BY <1>4, <2>1, <2>2, EventsKept DEF RetrieveClientId, IndInv
<1>5. CASE ClientIdFails(a)
  <2>1. OneOutcome' /\ toSync' \in Seq(AsyncMessages)
    BY <1>5, OutcomeSent DEF ClientIdFails, AsyncMessages
  <2>2. TypeOK'
    BY <1>5, <2>1 DEF ClientIdFails, IndInv, TypeOK, syncVars
  <2> QED
    BY <1>5, <2>1, <2>2, EventsKept DEF ClientIdFails, IndInv
<1>6. CASE ClientIdInterrupted(a)
  <2>1. TypeOK'
    BY <1>6 DEF ClientIdInterrupted, IndInv, TypeOK, syncVars, queueVars
  <2>2. OneOutcome'
    BY <1>6, OutcomeKept DEF ClientIdInterrupted, queueVars, IndInv, TypeOK
  <2> QED
    BY <1>6, <2>1, <2>2, EventsKept DEF ClientIdInterrupted, IndInv
<1>7. CASE SignalConnected(a)
  <2>1. OneOutcome' /\ toSync' \in Seq(AsyncMessages)
    BY <1>7, OutcomeSent DEF SignalConnected, AsyncMessages
  <2>2. TypeOK'
    BY <1>7, <2>1 DEF SignalConnected, IndInv, TypeOK, syncVars
  <2> QED
    BY <1>7, <2>1, <2>2, EventsKept DEF SignalConnected, IndInv
<1> QED
  BY <1>1, <1>2, <1>3, <1>4, <1>5, <1>6, <1>7 DEF Connect

\* The other tasks send no outcome.
LEMMA OtherTaskStep ==
    ASSUME IndInv, NEW a \in Attempts,
           WatcherSignals(a) \/ Spawner(a) \/ Channel(a) \/ ChannelSendFails(a) \/ ConnectionLost(a)
    PROVE  IndInv'
<1>1. CASE WatcherSignals(a)
  <2>1. OneOutcome' /\ toSync' \in Seq(AsyncMessages)
    BY <1>1, OutcomeSent DEF WatcherSignals, AsyncMessages, IsOutcome
  <2>2. TypeOK'
    BY <1>1, <2>1 DEF WatcherSignals, IndInv, TypeOK, syncVars
  <2> QED
    BY <1>1, <2>1, <2>2, EventsKept DEF WatcherSignals, IndInv
<1>2. CASE SpawnChannel(a)
  <2>1. since' \in [{"spawner", "channel"} -> Nat]
    BY <1>2, LenProperties DEF SpawnChannel, Subscribe, IndInv, TypeOK
  <2>2. TypeOK'
    BY <1>2, <2>1 DEF SpawnChannel, IndInv, TypeOK, syncVars
  <2> QED
    BY <1>2, <2>2, EventsKept, OutcomeKept DEF SpawnChannel, IndInv
<1>3. CASE SpawnerHearsClose(a) \/ SpawnerCloses(a)
  <2>1. TypeOK'
    BY <1>3 DEF SpawnerHearsClose, SpawnerCloses, IndInv, TypeOK, syncVars, queueVars
  <2> QED
    BY <1>3, <2>1, EventsKept, OutcomeKept DEF SpawnerHearsClose, SpawnerCloses, IndInv, queueVars
<1>4. CASE Channel(a)
  <2>1. TypeOK'
    BY <1>4 DEF Channel, ChannelOpens, ChannelEnds, IndInv, TypeOK, syncVars, queueVars
  <2> QED
    BY <1>4, <2>1, EventsKept, OutcomeKept DEF Channel, ChannelOpens, ChannelEnds, IndInv, queueVars
<1>5. CASE ChannelSendFails(a)
  <2>1. fromChannels' \in 0..MaxReports
    BY <1>5, BoundsAssumption DEF ChannelSendFails, IndInv, TypeOK
  <2>2. TypeOK'
    BY <1>5, <2>1 DEF ChannelSendFails, IndInv, TypeOK, syncVars
  <2> QED
    BY <1>5, <2>2, EventsKept, OutcomeKept DEF ChannelSendFails, IndInv
<1>6. CASE ConnectionLost(a)
  <2>1. TypeOK'
    BY <1>6 DEF ConnectionLost, IndInv, TypeOK, syncVars, queueVars
  <2> QED
    BY <1>6, <2>1, EventsKept, OutcomeKept DEF ConnectionLost, IndInv, queueVars
<1> QED
  BY <1>1, <1>2, <1>3, <1>4, <1>5, <1>6 DEF Spawner

\* Every step keeps the invariant.
LEMMA NextIndInv == IndInv /\ [Next]_vars => IndInv'
<1> SUFFICES ASSUME IndInv, [Next]_vars
             PROVE  IndInv'
  OBVIOUS
<1>1. CASE UNCHANGED vars
  BY <1>1 DEF vars, syncVars, queueVars, taskVars, IndInv, TypeOK, HoldsLast,
              NoEventOfEarlierAttempts, OneOutcome
<1>2. CASE Next
  BY <1>2, UserStep, FrameStep, ConnectStep, OtherTaskStep DEF Next
<1> QED
  BY <1>1, <1>2

\* The invariant holds of every run.
THEOREM Inductive == Spec => []IndInv
BY InitIndInv, NextIndInv, PTL DEF Spec

\* The types of the connection's state: no attempt beyond the last, and no queue
\* with a message of another kind.
THEOREM TypeCorrect == Spec => []TypeOK
<1>1. IndInv => TypeOK
  BY DEF IndInv
<1> QED
  BY <1>1, Inductive, PTL

\* No late message of an attempt that reconnect gave up raises an event
\* (client/connection.rs:239-262).
THEOREM EarlierAttemptsAreSilent == Spec => []NoEventOfEarlierAttempts
<1>1. IndInv => NoEventOfEarlierAttempts
  BY DEF IndInv
<1> QED
  BY <1>1, Inductive, PTL

-----------------------------------------------------------------------------
(* The refinement of ConnectionLife.                                       *)

\* What the connection is and has told, as ConnectionLife sees it.
Stage == CASE attempt = 0 -> "unborn"
           [] attempt # 0 /\ held = 0 -> "closed"
           [] OTHER -> state

Kinds(s) == [i \in 1..Len(s) |-> s[i].kind]

TellsNow == IF held = 0 THEN <<>> ELSE Kinds(events)

\* The mapped state of the one connection.
LifeIs == [c \in {1} |-> Stage]
ToldIs == [c \in {1} |-> TellsNow]

\* The abstract connection's variables, spelled out.
LEMMA LifeVars ==
    /\ Life!vars = <<LifeIs, ToldIs>>
    /\ LifeIs[1] = Stage /\ ToldIs[1] = TellsNow
BY DEF Life!vars, LifeIs, ToldIs, Stage, TellsNow, Kinds

\* The kinds of the events, with one more event, are the kinds with its kind.
LEMMA KindsOfMore ==
    ASSUME NEW s \in Seq([kind : Events, from : Attempts]),
           NEW e \in [kind : Events, from : Attempts]
    PROVE  Kinds(Append(s, e)) = Append(Kinds(s), e.kind)
<1>1. /\ Len(s) \in Nat /\ Len(Append(s, e)) = Len(s) + 1
      /\ \A i \in 1..Len(s) : Append(s, e)[i] = s[i]
      /\ Append(s, e)[Len(s) + 1] = e
  BY QueuePut
<1>2. Kinds(s) \in Seq(Events) /\ Len(Kinds(s)) = Len(s)
  <2>1. Kinds(s) \in [1..Len(s) -> Events]
    <3>1. \A i \in 1..Len(s) : s[i] \in [kind : Events, from : Attempts]
      BY <1>1, ElementOfSeq
    <3>2. \A i \in 1..Len(s) : s[i].kind \in Events
      BY <3>1
    <3> QED
      BY <3>2 DEF Kinds
  <2> QED
    BY <1>1, <2>1, SeqDef, LenProperties DEF Kinds
<1>3. /\ Append(Kinds(s), e.kind) \in Seq(Events)
      /\ Len(Append(Kinds(s), e.kind)) = Len(s) + 1
      /\ \A i \in 1..Len(s) : Append(Kinds(s), e.kind)[i] = Kinds(s)[i]
      /\ Append(Kinds(s), e.kind)[Len(s) + 1] = e.kind
  BY <1>2, QueuePut
<1>4. Append(Kinds(s), e.kind) = [i \in 1..(Len(s) + 1) |-> Append(Kinds(s), e.kind)[i]]
  BY <1>3, LenProperties
<1>5. \A i \in 1..(Len(s) + 1) : Append(s, e)[i].kind = Append(Kinds(s), e.kind)[i]
  <2>1. SUFFICES ASSUME NEW i \in 1..(Len(s) + 1)
                 PROVE  Append(s, e)[i].kind = Append(Kinds(s), e.kind)[i]
    OBVIOUS
  <2>2. CASE i = Len(s) + 1
    BY <1>1, <1>3, <2>2
  <2>3. CASE i # Len(s) + 1
    <3>1. i \in 1..Len(s)
      BY <1>1, <2>3
    <3> QED
      BY <1>1, <1>3, <3>1 DEF Kinds
  <2> QED
    BY <2>2, <2>3
<1> QED
  BY <1>1, <1>4, <1>5 DEF Kinds

\* How the steps of ConnectionLife read for this connection.
LEMMA LifeSteps ==
    /\ Stage = "unborn" /\ Stage' = "Connecting" /\ TellsNow' = TellsNow => Life!Open(1)
    /\ Stage = "Disconnected" /\ Stage' = "Connecting" /\ TellsNow' = <<>> => Life!Reconnect(1)
    /\ Stage \in {"Connecting", "Connected"} /\ Stage' = "Disconnected" /\ TellsNow' = TellsNow
          => Life!Disconnect(1)
    /\ Stage \in States /\ Stage' = "closed" /\ TellsNow' = <<>> => Life!Close({1})
    /\ \A event, st : Stage' = st /\ TellsNow' = Append(TellsNow, event) => Life!Tell(1, event, st)
<1>1. /\ LifeIs' = [c \in {1} |-> Stage'] /\ ToldIs' = [c \in {1} |-> TellsNow']
      /\ \A x : [LifeIs EXCEPT ![1] = x] = [c \in {1} |-> x]
      /\ \A x : [ToldIs EXCEPT ![1] = x] = [c \in {1} |-> x]
  BY DEF LifeIs, ToldIs
<1>2. Stage = "unborn" /\ Stage' = "Connecting" /\ TellsNow' = TellsNow => Life!Open(1)
  BY DEF Life!Open, Life!Become, Stage, TellsNow, Kinds
<1>3. Stage = "Disconnected" /\ Stage' = "Connecting" /\ TellsNow' = <<>> => Life!Reconnect(1)
  BY DEF Life!Reconnect, Life!Become, Stage, TellsNow, Kinds
<1>4. Stage \in {"Connecting", "Connected"} /\ Stage' = "Disconnected" /\ TellsNow' = TellsNow
          => Life!Disconnect(1)
  BY DEF Life!Disconnect, Life!Become, Stage, TellsNow, Kinds
<1>5. Stage \in States /\ Stage' = "closed" /\ TellsNow' = <<>> => Life!Close({1})
  BY DEF Life!Close, Life!Held, Life!States, States, Stage, TellsNow, Kinds
<1>6. \A event, st : Stage' = st /\ TellsNow' = Append(TellsNow, event) => Life!Tell(1, event, st)
  BY DEF Life!Tell, Life!Become, Stage, TellsNow, Kinds
<1> QED
  BY <1>2, <1>3, <1>4, <1>5, <1>6

\* No outcome among the events is no outcome told.
LEMMA Unresolved ==
    ASSUME IndInv, held # 0, \A i \in 1..Len(events) : ~IsResolved(events[i])
    PROVE  ~Life!Resolved(1)
<1>1. ToldIs[1] = Kinds(events)
  BY LifeVars DEF TellsNow
<1>2. Len(events) \in Nat /\ Kinds(events) = [i \in 1..Len(events) |-> events[i].kind]
  BY LenProperties DEF IndInv, TypeOK, Kinds
<1>3. Len(Kinds(events)) = Len(events)
  BY <1>2
<1>4. \A i \in 1..Len(ToldIs[1]) : ToldIs[1][i] \notin {"Connection", "Failed"}
  BY <1>1, <1>2, <1>3 DEF IsResolved
<1> QED
  BY <1>4 DEF Life!Resolved, ToldIs, TellsNow, Kinds

\* A connection that is held is in its state.
LEMMA WhileHeld ==
    ASSUME IndInv, held # 0
    PROVE  attempt # 0 /\ Stage = state /\ TellsNow = Kinds(events) /\ 1 \in Life!Held
<1>1. attempt # 0 /\ Stage = state /\ TellsNow = Kinds(events)
  BY DEF IndInv, HoldsLast, Stage, TellsNow
<1>2. LifeIs[1] \in States
  BY <1>1, LifeVars DEF IndInv, TypeOK
<1> QED
  BY <1>1, <1>2 DEF Life!Held, Life!States, States, LifeIs, Stage

\* A step that tells event e and leaves the connection in state st.
LEMMA Telling ==
    ASSUME IndInv, held # 0, NEW e \in Events, Raise(e), UNCHANGED <<attempt, held>>
    PROVE  TellsNow' = Append(TellsNow, e) /\ Stage' = state'
<1>1. held \in Attempts /\ attempt # 0
  BY BoundsAssumption DEF IndInv, TypeOK, HoldsLast, Attempts
<1>2. [kind |-> e, from |-> held] \in [kind : Events, from : Attempts]
  BY <1>1
<1>3. Kinds(events') = Append(Kinds(events), e)
  BY <1>2, KindsOfMore DEF Raise, IndInv, TypeOK
<1>4. TellsNow' = Kinds(events)' /\ Kinds(events)' = Kinds(events')
  BY DEF TellsNow, Kinds
<1> QED
  BY <1>1, <1>3, <1>4 DEF TellsNow, Stage

\* A step that leaves what the user sees alone is no step of ConnectionLife.
LEMMA Stutters ==
    ASSUME UNCHANGED <<state, attempt, held, events>>
    PROVE  UNCHANGED Life!vars
BY DEF Life!vars

\* A loss is one of the abstract connection's, or of one that is down already.
LEMMA LossImplements ==
    ASSUME IndInv, held # 0, LoseConnection, UNCHANGED <<attempt, held>>
    PROVE  [Life!Next]_Life!vars
<1>1. CASE state = "Disconnected"
  BY <1>1, Stutters DEF LoseConnection
<1>2. CASE state # "Disconnected"
  <2>1. Raise("Lost") /\ state' = "Disconnected" /\ "Lost" \in Events
    BY <1>2 DEF LoseConnection, InternalDisconnect, Events
  <2>2. TellsNow' = Append(TellsNow, "Lost") /\ Stage' = "Disconnected"
    BY <2>1, Telling
  <2>3. LifeIs[1] \in {"Connecting", "Connected"}
    BY <1>2, WhileHeld, LifeVars DEF IndInv, TypeOK, States
  <2>4. Life!Tell(1, "Lost", "Disconnected")
    BY <2>2, LifeSteps
  <2>5. Life!Loses(1)
    BY <2>3, <2>4 DEF Life!Loses, LifeIs, Stage
  <2> QED
    BY <2>5 DEF Life!Next
<1> QED
  BY <1>1, <1>2

\* A message of the held attempt is an outcome or a loss of the abstract connection.
LEMMA AsyncMessageImplements ==
    ASSUME IndInv, HandleAsyncMessage
    PROVE  [Life!Next]_Life!vars
<1>0. held # 0 /\ toSync # <<>> /\ UNCHANGED <<attempt, held>>
  BY DEF HandleAsyncMessage
<1>1. /\ Head(toSync) \in AsyncMessages /\ Head(toSync) = toSync[1] /\ 1 \in 1..Len(toSync)
  BY <1>0, QueueTaken DEF IndInv, TypeOK
<1>2. IsOutcome(Head(toSync)) => ~Life!Resolved(1)
  <2>1. IsOutcome(Head(toSync)) => \A i \in 1..Len(events) : ~IsResolved(events[i])
    BY <1>0, <1>1 DEF IndInv, OneOutcome
  <2> QED
    BY <1>0, <2>1, Unresolved
<1>3. CASE Head(toSync) = "Connected"
  <2>1. Raise("Connection") /\ state' = "Connected" /\ "Connection" \in Events
    BY <1>3 DEF HandleAsyncMessage, Events
  <2>2. TellsNow' = Append(TellsNow, "Connection") /\ Stage' = "Connected"
    BY <1>0, <2>1, Telling
  <2>3. Life!Connects(1)
    BY <1>0, <1>2, <1>3, <2>2, WhileHeld, LifeSteps DEF Life!Connects, IsOutcome
  <2> QED
    BY <2>3 DEF Life!Next
<1>4. CASE Head(toSync) = "ConnectionFailed"
  <2>1. Raise("Failed") /\ state' = "Disconnected" /\ "Failed" \in Events
    BY <1>4 DEF HandleAsyncMessage, Events
  <2>2. TellsNow' = Append(TellsNow, "Failed") /\ Stage' = "Disconnected"
    BY <1>0, <2>1, Telling
  <2>3. Life!Fails(1)
    BY <1>0, <1>2, <1>4, <2>2, WhileHeld, LifeSteps DEF Life!Fails, IsOutcome
  <2> QED
    BY <2>3 DEF Life!Next
<1>5. CASE Head(toSync) = "ConnectionClosed"
  BY <1>0, <1>5, LossImplements DEF HandleAsyncMessage
<1> QED
  BY <1>1, <1>3, <1>4, <1>5 DEF AsyncMessages

\* The calls of the user are those of the abstract connection.
LEMMA UserImplements ==
    ASSUME IndInv, User
    PROVE  Life!Next
<1>1. CASE OpenConnection
  <2>1. /\ held = 0 /\ attempt = 0 /\ attempt' = 1 /\ held' = 1
        /\ state' = "Connecting" /\ events' = <<>>
    BY <1>1 DEF OpenConnection, StartAttempt, IndInv, HoldsLast
  <2>2. Stage = "unborn" /\ Stage' = "Connecting" /\ TellsNow = <<>> /\ TellsNow' = <<>>
    BY <2>1 DEF Stage, TellsNow, Kinds
  <2>3. Life!Open(1)
    BY <2>2, LifeSteps
  <2> QED
    BY <2>3 DEF Life!Next
<1>2. CASE Reconnect
  <2>1. /\ held # 0 /\ state = "Disconnected" /\ attempt' = attempt + 1 /\ held' = attempt + 1
        /\ state' = "Connecting" /\ events' = <<>> /\ attempt \in Nat
    BY <1>2 DEF Reconnect, StartAttempt, IndInv, TypeOK
  <2>2. Stage = "Disconnected" /\ Stage' = "Connecting" /\ TellsNow' = <<>>
    BY <2>1, WhileHeld DEF Stage, TellsNow, Kinds
  <2>3. Life!Reconnect(1)
    BY <2>2, LifeSteps
  <2> QED
    BY <2>3 DEF Life!Next
<1>3. CASE Disconnect
  <2>1. /\ held # 0 /\ state # "Disconnected" /\ state' = "Disconnected"
        /\ UNCHANGED <<attempt, held, events>>
    BY <1>3 DEF Disconnect, InternalDisconnect
  <2>2. Stage = state /\ Stage' = "Disconnected" /\ TellsNow' = TellsNow
    BY <2>1, WhileHeld DEF Stage, TellsNow, Kinds
  <2>3. Life!Disconnect(1)
    BY <2>1, <2>2, LifeSteps DEF IndInv, TypeOK, States
  <2> QED
    BY <2>3 DEF Life!Next
<1>4. CASE CloseConnection
  <2>1. held # 0 /\ held' = 0 /\ attempt' = attempt
    BY <1>4 DEF CloseConnection
  <2>2. Stage \in States /\ Stage' = "closed" /\ TellsNow' = <<>>
    BY <2>1, WhileHeld DEF Stage, TellsNow, IndInv, TypeOK
  <2>3. Life!Close({1}) /\ {1} \in SUBSET Life!Held
    BY <2>1, <2>2, LifeSteps, WhileHeld
  <2> QED
    BY <2>3 DEF Life!Next
<1> QED
  BY <1>1, <1>2, <1>3, <1>4 DEF User

\* Every step is one of the abstract connection, or a stutter.
LEMMA NextImplements == IndInv /\ [Next]_vars => [Life!Next]_Life!vars
<1> SUFFICES ASSUME IndInv, [Next]_vars
             PROVE  [Life!Next]_Life!vars
  OBVIOUS
<1>1. CASE UNCHANGED vars
  BY <1>1, Stutters DEF vars, syncVars
<1>2. CASE User
  BY <1>2, UserImplements
<1>3. CASE Frame
  <2>1. CASE HandleAsyncMessage
    BY <2>1, AsyncMessageImplements
  <2>2. CASE HandleChannelMessage
    BY <2>2, LossImplements DEF HandleChannelMessage
  <2>3. CASE NextPhase
    BY <2>3, Stutters DEF NextPhase
  <2> QED
    BY <1>3, <2>1, <2>2, <2>3 DEF Frame
<1>4. ASSUME NEW a \in Attempts,
             \/ Connect(a) \/ WatcherSignals(a) \/ Spawner(a)
             \/ Channel(a) \/ ChannelSendFails(a) \/ ConnectionLost(a)
      PROVE  [Life!Next]_Life!vars
  <2>1. UNCHANGED syncVars
    BY <1>4 DEF Connect, ConnectSucceeds, ConnectFails, SpawnSpawner, RetrieveClientId,
                ClientIdFails, ClientIdInterrupted, SignalConnected, WatcherSignals, Spawner,
                SpawnChannel, SpawnerHearsClose, SpawnerCloses, Channel, ChannelOpens, ChannelEnds,
                ChannelSendFails, ConnectionLost
  <2> QED
    BY <2>1, Stutters DEF syncVars
<1> QED
  BY <1>1, <1>2, <1>3, <1>4 DEF Next

\* An attempt has one outcome, and a loss is told only of a connection that is not
\* down: the attempts, tasks and queues implement ConnectionLife
\* (client.rs:319-362, client/connection.rs:389-507).
THEOREM AttemptsAreALife == Spec => ImplementsLife
<1>1. Init => Life!Init
  BY DEF Init, Life!Init
<1> QED
  BY <1>1, NextImplements, Inductive, PTL DEF Spec, ImplementsLife, Life!Spec
=============================================================================
