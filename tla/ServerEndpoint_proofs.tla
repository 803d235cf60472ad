------------------------ MODULE ServerEndpoint_proofs ------------------------
(***************************************************************************)
(* Proofs about the server's endpoint, for every finite set of peers, of   *)
(* channel ids and of configured channels, and every size of its queues.   *)
(***************************************************************************)
EXTENDS ServerEndpoint, FiniteSetTheorems, SequenceTheorems, TLAPS

\* handle_server_events runs on a server that is listening; its second loop and
\* its set of lost clients are empty outside the part that uses them, and a client
\* it has yet to look at is not lost.
PhaseShape ==
    /\ phase # "idle" => listening
    /\ phase \in {"idle", "messages"} => unvisited = {} /\ lostClients = {}
    /\ phase = "lost" => unvisited = {}
    /\ unvisited \cap lostClients = {}

\* A ClientConnected message in the queue is the only one of a peer of this
\* endpoint that waits for its answer.
AnnouncedOnce ==
    \A p \in Peers : \A i \in 1..Len(inbox) : inbox[i] = Connected(p) =>
        /\ Current(p) /\ task[p] = "waiting" /\ id[p] = 0
        /\ \A j \in 1..Len(inbox) : inbox[j] = Connected(p) => i = j

\* A connection has no task before it is accepted, and no id before its task
\* announced it.
TasksBegin ==
    \A p \in Peers :
        /\ conn[p] = "none" => task[p] = "none"
        /\ task[p] \in {"none", "announcing"} => id[p] = 0

\* An open channel's id is taken; a client has an id; who is not in the map has no
\* channels.
TableShape ==
    /\ opened \cap available = {}
    /\ \A p \in clients : id[p] # 0
    /\ \A p \in Peers \ clients : slots[p] = {} /\ opening[p] = {} /\ dead[p] = {}

\* What the user has been told of each peer, by where the peer is.
WellTold ==
    \A p \in Peers :
        /\ id[p] = 0 => events[p] = <<>>
        /\ id[p] # 0 => events[p] \in {<<"Connected">>, <<"Connected", "Lost">>}
        /\ p \in clients \ lostClients => events[p] = <<"Connected">>
        /\ p \in lostClients => events[p] = <<"Connected", "Lost">>
        /\ id[p] # 0 /\ p \notin clients \cup ordered => events[p] = <<"Connected", "Lost">>

\* Each id given out, of this endpoint, is that of a peer.
Counted ==
    /\ clientIdGen <= Cardinality({p \in Peers : id[p] # 0})
    /\ NoClientCountedTwice

IndInv ==
    /\ TypeOK /\ PhaseShape /\ AnnouncedOnce /\ TasksBegin /\ TableShape
    /\ OpenForAll /\ AvailableIsUnused /\ WellTold /\ Counted

-----------------------------------------------------------------------------
(* Facts used in several steps.                                            *)

\* The messages of different peers, or of different kinds, differ.
LEMMA MessagesDiffer ==
    ASSUME NEW p, NEW q
    PROVE  Connected(p) # Closed(q) /\ (Connected(p) = Connected(q) => p = q)
BY DEF Connected, Closed

\* One turn of the first loop takes the first message of the queue.
LEMMA InboxTaken ==
    ASSUME IndInv, inbox # <<>>
    PROVE  /\ Tail(inbox) \in Seq(Messages) /\ Len(Tail(inbox)) <= InboxSize
           /\ Len(inbox) \in Nat /\ 1 \in 1..Len(inbox) /\ Head(inbox) = inbox[1]
           /\ \A i \in 1..Len(Tail(inbox)) :
                 i + 1 \in 1..Len(inbox) /\ Tail(inbox)[i] = inbox[i + 1]
<1>1. inbox \in Seq(Messages) /\ Len(inbox) <= InboxSize
  BY DEF IndInv, TypeOK
<1>2. /\ Tail(inbox) \in Seq(Messages) /\ Len(Tail(inbox)) = Len(inbox) - 1
      /\ \A i \in 1..Len(Tail(inbox)) : Tail(inbox)[i] = inbox[i + 1]
      /\ Len(inbox) \in Nat \ {0}
  BY <1>1, HeadTailProperties, EmptySeq
<1> QED
  BY <1>1, <1>2, EndpointAssumption

\* A task puts a message at the end of the queue.
LEMMA InboxPut ==
    ASSUME IndInv, NEW m \in Messages, Len(inbox) < InboxSize
    PROVE  /\ Append(inbox, m) \in Seq(Messages) /\ Len(Append(inbox, m)) <= InboxSize
           /\ Len(Append(inbox, m)) = Len(inbox) + 1 /\ Len(inbox) \in Nat
           /\ \A i \in 1..Len(inbox) : Append(inbox, m)[i] = inbox[i]
           /\ Append(inbox, m)[Len(inbox) + 1] = m
<1>1. inbox \in Seq(Messages)
  BY DEF IndInv, TypeOK
<1> QED
  BY <1>1, AppendProperties, LenProperties, EndpointAssumption

\* What stays of the table when the clients in S leave the map.
LEMMA Leaving ==
    ASSUME IndInv, NEW S \in SUBSET clients, DropClients(S)
    PROVE  /\ clients' \subseteq Peers
           /\ slots' \in [Peers -> SUBSET Ids]
           /\ opening' \in [Peers -> SUBSET Ids] /\ dead' \in [Peers -> SUBSET Ids]
           /\ \A p \in Peers : opening'[p] \cup dead'[p] \subseteq slots'[p]
           /\ creating' \in [Peers -> 0..CreateQueueSize]
           /\ reports' \in [Peers -> 0..MaxReports]
           /\ \A p \in clients' : p \in clients /\ slots'[p] = slots[p]
           /\ \A p \in Peers \ clients' : slots'[p] = {} /\ opening'[p] = {} /\ dead'[p] = {}
BY EndpointAssumption DEF IndInv, TypeOK, TableShape, DropClients

\* The map and the peers with an id are finite.
LEMMA FiniteSides ==
    ASSUME IndInv
    PROVE  /\ IsFiniteSet(clients) /\ Cardinality(clients) \in Nat
           /\ IsFiniteSet({p \in Peers : id[p] # 0})
           /\ Cardinality({p \in Peers : id[p] # 0}) \in Nat
           /\ Cardinality(Peers) \in Nat /\ Cardinality(Ids) \in Nat
           /\ Cardinality({p \in Peers : id[p] # 0}) <= Cardinality(Peers)
<1>1. clients \in SUBSET Peers /\ {p \in Peers : id[p] # 0} \in SUBSET Peers
  BY DEF IndInv, TypeOK
<1> QED
  BY <1>1, EndpointAssumption, FS_Subset, FS_CardinalityType

\* What the steps that leave the endpoint's side alone keep.
LEMMA TableKept ==
    ASSUME IndInv, UNCHANGED <<available, userVars, systemVars>>
    PROVE  PhaseShape' /\ TableShape' /\ OpenForAll' /\ AvailableIsUnused' /\ WellTold' /\ Counted'
BY DEF IndInv, PoolVars, userVars, tableVars, systemVars, PhaseShape, TableShape, OpenForAll,
       AvailableIsUnused, WellTold, Counted, NoClientCountedTwice

\* What the steps that leave the queue and the tasks alone keep.
LEMMA QueueKept ==
    ASSUME IndInv, UNCHANGED <<listening, started, id, inbox, asyncVars>>
    PROVE  AnnouncedOnce' /\ TasksBegin'
BY DEF IndInv, asyncVars, acceptVars, AnnouncedOnce, TasksBegin, Current

\* No ClientConnected message of p is in the queue.
NotAnnounced(p) == \A i \in 1..Len(inbox) : inbox[i] # Connected(p)

\* A peer whose task is not waiting for its first answer is not announced.
LEMMA OnlyWaitingAnnounced ==
    ASSUME IndInv, NEW p \in Peers, ~Current(p) \/ task[p] # "waiting" \/ id[p] # 0
    PROVE  NotAnnounced(p)
BY DEF IndInv, AnnouncedOnce, NotAnnounced

\* A step that changes of the tasks only those of a peer not announced keeps the
\* queue's invariant.
LEMMA TaskStepKeepsQueue ==
    ASSUME IndInv, NEW p \in Peers, NotAnnounced(p),
           UNCHANGED <<listening, started, id, inbox>>,
           \A q \in Peers : q # p => of'[q] = of[q] /\ task'[q] = task[q]
    PROVE  AnnouncedOnce'
BY DEF IndInv, AnnouncedOnce, Current, NotAnnounced

-----------------------------------------------------------------------------
(* The steps of the tasks and of the network.                              *)

\* An accepted connection has no id.
LEMMA AcceptStep ==
    ASSUME IndInv, NEW p \in Peers, NEW e \in 1..MaxStarts, Accept(p, e)
    PROVE  IndInv'
<1> USE DEF Accept
<1>1. TypeOK'
  BY DEF IndInv, TypeOK, PoolTypeOK, PoolVars, userVars, tableVars, systemVars
<1>2. AnnouncedOnce'
  <2>1. NotAnnounced(p)
    BY OnlyWaitingAnnounced DEF IndInv, TasksBegin
  <2> QED
    BY <2>1, TaskStepKeepsQueue DEF IndInv, TypeOK, userVars, tableVars
<1>3. TasksBegin'
  BY DEF IndInv, TypeOK, TasksBegin, userVars, tableVars
<1> QED
  BY <1>1, <1>2, <1>3, TableKept DEF IndInv, PoolVars

\* An accept loop that ends leaves the clients alone.
LEMMA AcceptEndsStep ==
    ASSUME IndInv, NEW e \in 1..MaxStarts, AcceptEnds(e)
    PROVE  IndInv'
<1> USE DEF AcceptEnds
<1>1. TypeOK'
  BY DEF IndInv, TypeOK, PoolTypeOK, PoolVars, userVars, tableVars, systemVars
<1>2. AnnouncedOnce' /\ TasksBegin'
  BY DEF IndInv, AnnouncedOnce, TasksBegin, Current, userVars, tableVars
<1> QED
  BY <1>1, <1>2, TableKept DEF IndInv, PoolVars

\* A task announces its peer once, and waits.
LEMMA AnnounceStep ==
    ASSUME IndInv, NEW p \in Peers, Announce(p)
    PROVE  IndInv'
<1> USE DEF Announce
<1>0. Connected(p) \in Messages
  BY DEF Messages
<1>1. TypeOK'
  BY <1>0, InboxPut DEF IndInv, TypeOK, PoolTypeOK, PoolVars, userVars, tableVars, systemVars, acceptVars
<1>2. AnnouncedOnce'
  <2>1. NotAnnounced(p) /\ id[p] = 0
    BY OnlyWaitingAnnounced DEF IndInv, TasksBegin
  <2> SUFFICES ASSUME NEW q \in Peers, NEW i \in 1..Len(inbox'), inbox'[i] = Connected(q)
               PROVE  /\ Current(q)' /\ task'[q] = "waiting" /\ id'[q] = 0
                      /\ \A j \in 1..Len(inbox') : inbox'[j] = Connected(q) => i = j
    BY DEF AnnouncedOnce
  <2>2. /\ Len(inbox') = Len(inbox) + 1 /\ Len(inbox) \in Nat
        /\ \A j \in 1..Len(inbox) : inbox'[j] = inbox[j]
        /\ inbox'[Len(inbox) + 1] = Connected(p)
    BY <1>0, InboxPut
  <2>3. CASE q = p
    BY <2>1, <2>2, <2>3 DEF NotAnnounced, IndInv, TypeOK, Current, userVars, tableVars, acceptVars
  <2>4. CASE q # p
    <3>1. i \in 1..Len(inbox)
      BY <2>2, <2>4, MessagesDiffer
    <3>2. \A j \in 1..Len(inbox') : inbox'[j] = Connected(q) => j \in 1..Len(inbox)
      BY <2>2, <2>4, MessagesDiffer
    <3>3. /\ Current(q) /\ task[q] = "waiting" /\ id[q] = 0
          /\ \A j \in 1..Len(inbox) : inbox[j] = Connected(q) => i = j
      BY <2>2, <3>1 DEF AnnouncedOnce, IndInv
    <3> QED
      BY <2>2, <2>4, <3>2, <3>3 DEF IndInv, TypeOK, Current, userVars, tableVars, acceptVars
  <2> QED
    BY <2>3, <2>4
<1>3. TasksBegin'
  BY DEF IndInv, TypeOK, TasksBegin, userVars, tableVars
<1> QED
  BY <1>1, <1>2, <1>3, TableKept DEF IndInv, PoolVars

\* A task whose endpoint is gone ends without an id.
LEMMA RefusedStep ==
    ASSUME IndInv, NEW p \in Peers, Refused(p)
    PROVE  IndInv'
<1> USE DEF Refused
<1>1. TypeOK'
  BY DEF IndInv, TypeOK, PoolTypeOK, PoolVars, userVars, tableVars, systemVars, acceptVars
<1>2. AnnouncedOnce'
  <2>1. NotAnnounced(p)
    BY OnlyWaitingAnnounced
  <2> QED
    BY <2>1, TaskStepKeepsQueue DEF IndInv, TypeOK, userVars, tableVars, acceptVars
<1>3. TasksBegin'
  BY DEF IndInv, TypeOK, TasksBegin, userVars, tableVars
<1> QED
  BY <1>1, <1>2, <1>3, TableKept DEF IndInv, PoolVars

\* A task that was answered serves a client that has an id.
LEMMA ServeStep ==
    ASSUME IndInv, NEW p \in Peers, Serve(p)
    PROVE  IndInv'
<1> USE DEF Serve
<1>1. TypeOK'
  BY DEF IndInv, TypeOK, PoolTypeOK, PoolVars, userVars, tableVars, systemVars, acceptVars
<1>2. AnnouncedOnce'
  <2>1. NotAnnounced(p)
    BY OnlyWaitingAnnounced
  <2> QED
    BY <2>1, TaskStepKeepsQueue DEF IndInv, TypeOK, userVars, tableVars, acceptVars
<1>3. TasksBegin'
  BY DEF IndInv, TypeOK, TasksBegin, userVars, tableVars
<1> QED
  BY <1>1, <1>2, <1>3, TableKept DEF IndInv, PoolVars

\* The watcher's message is no announcement.
LEMMA WatcherSignalsStep ==
    ASSUME IndInv, NEW p \in Peers, WatcherSignals(p)
    PROVE  IndInv'
<1> USE DEF WatcherSignals
<1>0. Closed(p) \in Messages
  BY DEF Messages
<1>1. CASE Len(inbox) < InboxSize /\ inbox' = Append(inbox, Closed(p))
  <2>1. TypeOK'
    BY <1>0, <1>1, InboxPut
       DEF IndInv, TypeOK, PoolTypeOK, PoolVars, userVars, tableVars, systemVars, acceptVars
  <2>2. /\ Len(inbox') = Len(inbox) + 1 /\ Len(inbox) \in Nat
        /\ \A j \in 1..Len(inbox) : inbox'[j] = inbox[j]
        /\ inbox'[Len(inbox) + 1] = Closed(p)
    BY <1>0, <1>1, InboxPut
  <2>3. AnnouncedOnce'
    <3>1. ASSUME NEW q \in Peers, NEW i \in 1..Len(inbox'), inbox'[i] = Connected(q)
          PROVE  i \in 1..Len(inbox)
      BY <2>2, <3>1, MessagesDiffer
    <3> QED
      BY <2>2, <3>1 DEF IndInv, AnnouncedOnce, Current, userVars, tableVars, acceptVars
  <2>4. TasksBegin'
    BY DEF IndInv, TasksBegin, userVars, tableVars
  <2> QED
    BY <2>1, <2>3, <2>4, TableKept DEF IndInv, PoolVars
<1>2. CASE UNCHANGED inbox
  <2>1. TypeOK'
    BY <1>2 DEF IndInv, TypeOK, PoolTypeOK, PoolVars, userVars, tableVars, systemVars, acceptVars
  <2>2. AnnouncedOnce' /\ TasksBegin'
    BY <1>2 DEF IndInv, AnnouncedOnce, TasksBegin, Current, userVars, tableVars, acceptVars
  <2> QED
    BY <2>1, <2>2, TableKept DEF IndInv, PoolVars
<1> QED
  BY <1>1, <1>2

\* The spawner takes a CreateChannel message of a client.
LEMMA TakeCreateStep ==
    ASSUME IndInv, NEW p \in Peers, TakeCreate(p)
    PROVE  IndInv'
<1> USE DEF TakeCreate
<1>1. creating' \in [Peers -> 0..CreateQueueSize]
  BY EndpointAssumption DEF IndInv, TypeOK
<1>2. TypeOK'
  BY <1>1 DEF IndInv, TypeOK, PoolTypeOK, PoolVars, userVars, tableVars, systemVars, asyncVars, acceptVars
<1> QED
  BY <1>2, TableKept, QueueKept DEF IndInv, PoolVars, userVars, tableVars

\* A report of an end leaves the channels alone.
LEMMA TaskReportsStep ==
    ASSUME IndInv, NEW p \in Peers, TaskReports(p)
    PROVE  IndInv'
<1> USE DEF TaskReports
<1>1. reports' \in [Peers -> 0..MaxReports]
  BY EndpointAssumption DEF IndInv, TypeOK
<1>2. TypeOK'
  BY <1>1 DEF IndInv, TypeOK, PoolTypeOK, PoolVars, userVars, tableVars, systemVars, asyncVars, acceptVars
<1> QED
  BY <1>2, TableKept, QueueKept DEF IndInv, PoolVars, userVars, tableVars

\* A stream that opens and a task that ends leave the vector's entries.
LEMMA OpensStep ==
    ASSUME IndInv, NEW p \in Peers, NEW c \in Ids, StreamOpens(p, c) \/ TaskEnds(p, c)
    PROVE  IndInv'
<1>1. Opens(p, c) /\ (UNCHANGED dead \/ dead' = [dead EXCEPT ![p] = @ \cup {c}])
  BY DEF StreamOpens, TaskEnds
<1> USE <1>1 DEF Opens
<1>2. TypeOK'
  <2>1. c \in slots[p] /\ opening' \in [Peers -> SUBSET Ids] /\ dead' \in [Peers -> SUBSET Ids]
    <3>1. /\ opening \in [Peers -> SUBSET Ids] /\ dead \in [Peers -> SUBSET Ids]
          /\ opening[p] \subseteq slots[p]
      BY DEF IndInv, TypeOK
    <3>2. opening' \in [Peers -> SUBSET Ids] /\ c \in slots[p]
      BY <3>1
    <3>3. dead' \in [Peers -> SUBSET Ids]
      BY <3>1
    <3> QED
      BY <3>2, <3>3
  <2>2. \A q \in Peers : opening'[q] \cup dead'[q] \subseteq slots'[q]
    BY <2>1 DEF IndInv, TypeOK
  <2> QED
    BY <2>1, <2>2 DEF IndInv, TypeOK, PoolTypeOK, PoolVars, systemVars, asyncVars, acceptVars
<1>3. PhaseShape' /\ WellTold' /\ Counted'
  BY DEF IndInv, PhaseShape, WellTold, Counted, NoClientCountedTwice, systemVars
<1>4. TableShape' /\ OpenForAll' /\ AvailableIsUnused'
  BY DEF IndInv, TypeOK, TableShape, OpenForAll, AvailableIsUnused, PoolVars
<1> QED
  BY <1>2, <1>3, <1>4, QueueKept DEF IndInv

\* An ended connection is noticed later.
LEMMA ConnectionEndsStep ==
    ASSUME IndInv, NEW p \in Peers, SpawnerCloses(p) \/ ConnectionLost(p)
    PROVE  IndInv'
<1> USE DEF SpawnerCloses, ConnectionLost
<1>1. TypeOK'
  BY DEF IndInv, TypeOK, PoolTypeOK, PoolVars, userVars, tableVars, systemVars, acceptVars
<1>2. AnnouncedOnce'
  BY DEF IndInv, AnnouncedOnce, Current, userVars, tableVars, acceptVars
<1>3. TasksBegin'
  BY DEF IndInv, TypeOK, TasksBegin, userVars, tableVars
<1> QED
  BY <1>1, <1>2, <1>3, TableKept DEF IndInv, PoolVars

-----------------------------------------------------------------------------
(* The steps of handle_server_events.                                      *)

\* The first message leaves the queue.
LEMMA TakenKeepsQueue ==
    ASSUME IndInv, inbox # <<>>, inbox' = Tail(inbox),
           UNCHANGED <<listening, started, asyncVars>>,
           \A q \in Peers : id'[q] = id[q] \/ (Head(inbox) = Connected(q) /\ id'[q] # 0)
    PROVE  AnnouncedOnce' /\ TasksBegin'
<1>1. /\ 1 \in 1..Len(inbox) /\ Head(inbox) = inbox[1]
      /\ \A i \in 1..Len(inbox') : i + 1 \in 1..Len(inbox) /\ inbox'[i] = inbox[i + 1] /\ i \in Nat
  BY InboxTaken
<1>2. AnnouncedOnce'
  <2> SUFFICES ASSUME NEW p \in Peers, NEW i \in 1..Len(inbox'), inbox'[i] = Connected(p)
               PROVE  /\ Current(p)' /\ task'[p] = "waiting" /\ id'[p] = 0
                      /\ \A j \in 1..Len(inbox') : inbox'[j] = Connected(p) => i = j
    BY DEF AnnouncedOnce
  <2>1. /\ Current(p) /\ task[p] = "waiting" /\ id[p] = 0
        /\ \A j \in 1..Len(inbox) : inbox[j] = Connected(p) => i + 1 = j
    BY <1>1 DEF IndInv, AnnouncedOnce
  <2>2. Head(inbox) # Connected(p)
    BY <1>1, <2>1
  <2>3. \A j \in 1..Len(inbox') : inbox'[j] = Connected(p) => i = j
    BY <1>1, <2>1
  <2> QED
    BY <2>1, <2>2, <2>3 DEF Current, asyncVars, acceptVars
<1>3. TasksBegin'
  <2>1. \A q \in Peers : Head(inbox) = Connected(q) => task[q] = "waiting"
    BY <1>1 DEF IndInv, AnnouncedOnce
  <2> QED
    BY <2>1 DEF IndInv, TasksBegin, asyncVars, acceptVars
<1> QED
  BY <1>2, <1>3

\* The table and the counters when the clients in S leave the map.
LEMMA LeavingTable ==
    ASSUME IndInv, NEW S \in SUBSET clients, RemoveClients(S), UNCHANGED PoolVars
    PROVE  /\ TableShape' /\ OpenForAll' /\ AvailableIsUnused'
           /\ Cardinality(clients') = Cardinality(clients) - Cardinality(S)
           /\ Cardinality(S) \in Nat /\ Cardinality(clients') \in Nat
<1>1. DropClients(S) /\ UNCHANGED <<clientIdGen, id, opened>>
  BY DEF RemoveClients
<1>2. TableShape' /\ OpenForAll' /\ AvailableIsUnused'
  BY <1>1, Leaving DEF IndInv, TableShape, OpenForAll, AvailableIsUnused, PoolVars
<1>3. clients' = clients \ S /\ clients \cap S = S
  BY <1>1 DEF DropClients
<1>4. IsFiniteSet(clients) /\ IsFiniteSet(S) /\ IsFiniteSet(clients')
  BY <1>3, FiniteSides, FS_Subset
<1>5. Cardinality(clients') = Cardinality(clients) - Cardinality(S)
  <2>1. Cardinality(clients \ S) = Cardinality(clients) - Cardinality(clients \cap S)
    BY <1>4, FS_Difference
  <2> QED
    BY <1>3, <2>1
<1> QED
  BY <1>2, <1>4, <1>5, FS_CardinalityType

\* The counters when at most the clients in S are counted as they leave.
LEMMA LeavingCounted ==
    ASSUME IndInv, NEW S \in SUBSET clients, RemoveClients(S), UNCHANGED PoolVars,
           disconnectCount' \in {disconnectCount, disconnectCount + Cardinality(S)}
    PROVE  disconnectCount' \in Nat /\ Counted'
<1>1. /\ Cardinality(clients') = Cardinality(clients) - Cardinality(S)
      /\ Cardinality(S) \in Nat /\ Cardinality(clients') \in Nat
      /\ Cardinality(clients) \in Nat
  BY LeavingTable, FiniteSides
<1>2. UNCHANGED <<clientIdGen, id>> /\ clientIdGen \in Nat /\ disconnectCount \in Nat
  BY EndpointAssumption, FiniteSides DEF RemoveClients, IndInv, TypeOK
<1>3. /\ disconnectCount + Cardinality(clients) <= clientIdGen
      /\ clientIdGen <= Cardinality({p \in Peers : id[p] # 0})
  BY DEF IndInv, Counted, NoClientCountedTwice
<1>4. disconnectCount' \in Nat /\ disconnectCount' + Cardinality(clients') <= clientIdGen
  BY <1>1, <1>2, <1>3
<1> QED
  BY <1>2, <1>3, <1>4 DEF Counted, NoClientCountedTwice

\* The types when the clients in S leave the map.
LEMMA LeavingTypes ==
    ASSUME IndInv, NEW S \in SUBSET clients, RemoveClients(S),
           UNCHANGED <<PoolVars, listening, started, connectCount, asyncVars>>,
           disconnectCount' \in Nat, ordered' \subseteq Peers,
           events' \in [Peers -> Seq({"Connected", "Lost"})],
           phase' \in {"idle", "messages", "channels", "lost"},
           unvisited' = {}, lostClients' = {},
           inbox' \in Seq(Messages), Len(inbox') <= InboxSize
    PROVE  TypeOK'
<1>1. DropClients(S) /\ UNCHANGED <<clientIdGen, id, opened>>
  BY DEF RemoveClients
<1> QED
  BY <1>1, Leaving DEF IndInv, TypeOK, PoolTypeOK, PoolVars, asyncVars, acceptVars

\* A new client gets the next id, the endpoint's channels and its first event.
LEMMA HandleConnectedStep ==
    ASSUME IndInv, NEW p \in Peers, HandleConnected(p)
    PROVE  IndInv'
<1> USE DEF HandleConnected
<1>1. /\ Current(p) /\ task[p] = "waiting" /\ id[p] = 0 /\ p \notin clients
      /\ unvisited = {} /\ lostClients = {} /\ events[p] = <<>>
  BY InboxTaken DEF IndInv, AnnouncedOnce, PhaseShape, TableShape, WellTold
<1>2. clientIdGen \in Nat /\ id' = [id EXCEPT ![p] = clientIdGen + 1]
  BY EndpointAssumption, FiniteSides DEF IndInv, TypeOK
<1>3. /\ {q \in Peers : id'[q] # 0} = {q \in Peers : id[q] # 0} \cup {p}
      /\ Cardinality({q \in Peers : id'[q] # 0}) = Cardinality({q \in Peers : id[q] # 0}) + 1
      /\ Cardinality({q \in Peers : id'[q] # 0}) <= Cardinality(Peers)
  <2>1. {q \in Peers : id'[q] # 0} = {q \in Peers : id[q] # 0} \cup {p}
    BY <1>1, <1>2 DEF IndInv, TypeOK
  <2>2. {q \in Peers : id'[q] # 0} \in SUBSET Peers
    OBVIOUS
  <2> DEFINE I == {q \in Peers : id[q] # 0}
             J == {q \in Peers : id'[q] # 0}
  <2>3. IsFiniteSet(I) /\ p \notin I /\ J = I \cup {p} /\ J \in SUBSET Peers
    BY <1>1, <2>1, <2>2, FiniteSides
  <2> HIDE DEF I, J
  <2>4. Cardinality(J) = Cardinality(I) + 1 /\ Cardinality(J) <= Cardinality(Peers)
    BY <2>3, FS_AddElement, FS_Subset, EndpointAssumption
  <2> QED
    BY <2>1, <2>4 DEF I, J
<1>4. clientIdGen' <= Cardinality({q \in Peers : id'[q] # 0}) /\ clientIdGen' \in 0..Cardinality(Peers)
  BY <1>2, <1>3, FiniteSides DEF IndInv, Counted
<1>5. TypeOK'
  <2>1. creating' \in [Peers -> 0..CreateQueueSize]
    <3>1. Cardinality(opened) \in 0..CreateQueueSize
      BY EndpointAssumption, FS_Subset, FS_CardinalityType, FiniteSides DEF IndInv, TypeOK
    <3> QED
      BY <3>1 DEF IndInv, TypeOK
  <2>2. /\ slots' \in [Peers -> SUBSET Ids] /\ opening' \in [Peers -> SUBSET Ids]
        /\ \A q \in Peers : opening'[q] \cup dead'[q] \subseteq slots'[q]
    BY <1>1 DEF IndInv, TypeOK, TableShape
  <2>3. events' \in [Peers -> Seq({"Connected", "Lost"})]
    BY <1>1 DEF Raise, IndInv, TypeOK
  <2>4. id' \in [Peers -> 0..Cardinality(Peers)] /\ clients' \subseteq Peers /\ connectCount' \in Nat
    BY <1>2, <1>4 DEF IndInv, TypeOK
  <2> QED
    BY <1>1, <1>4, <2>1, <2>2, <2>3, <2>4, InboxTaken
       DEF IndInv, TypeOK, PoolTypeOK, PoolVars, systemVars, asyncVars, acceptVars
<1>6. AnnouncedOnce' /\ TasksBegin'
  <2>1. \A q \in Peers : id'[q] = id[q] \/ (Head(inbox) = Connected(q) /\ id'[q] # 0)
    <3>1. id \in [Peers -> 0..Cardinality(Peers)]
      BY DEF IndInv, TypeOK
    <3>2. id'[p] # 0 /\ \A q \in Peers \ {p} : id'[q] = id[q]
      BY <1>2, <3>1
    <3>3. Head(inbox) = Connected(p)
      OBVIOUS
    <3> HIDE DEF HandleConnected
    <3> QED
      BY <3>2, <3>3
  <2> QED
    BY <2>1, TakenKeepsQueue
<1>7. PhaseShape'
  BY DEF IndInv, PhaseShape, systemVars
<1>8. TableShape' /\ OpenForAll' /\ AvailableIsUnused'
  BY <1>1, <1>2 DEF IndInv, TypeOK, TableShape, OpenForAll, AvailableIsUnused, PoolVars
<1>9. WellTold'
  <2>1. events' = [events EXCEPT ![p] = <<"Connected">>]
    BY <1>1 DEF Raise, IndInv, TypeOK
  <2> QED
    BY <1>1, <1>2, <2>1 DEF IndInv, TypeOK, WellTold, systemVars
<1>10. Counted'
  <2>1. Cardinality(clients') = Cardinality(clients) + 1
    BY <1>1, FiniteSides, FS_AddElement
  <2> QED
    <3>1. /\ disconnectCount \in Nat /\ disconnectCount' = disconnectCount
          /\ disconnectCount + Cardinality(clients) <= clientIdGen
          /\ clientIdGen' = clientIdGen + 1 /\ Cardinality(clients) \in Nat
      BY FiniteSides DEF IndInv, TypeOK, Counted, NoClientCountedTwice
    <3>2. disconnectCount' + Cardinality(clients') <= clientIdGen'
      BY <1>2, <2>1, <3>1
    <3> QED
      BY <1>4, <3>2 DEF Counted, NoClientCountedTwice
<1> QED
  BY <1>5, <1>6, <1>7, <1>8, <1>9, <1>10 DEF IndInv

\* A client that is reported closed is told lost as it leaves the map.
LEMMA HandleClosedStep ==
    ASSUME IndInv, NEW p \in Peers, HandleClosed(p)
    PROVE  IndInv'
<1> USE DEF HandleClosed
<1>1. unvisited = {} /\ lostClients = {} /\ listening
  BY DEF IndInv, PhaseShape
<1>2. AnnouncedOnce' /\ TasksBegin'
  <2>1. UNCHANGED id
    BY DEF RemoveClients, tableVars
  <2>2. UNCHANGED <<listening, started, asyncVars>> /\ inbox # <<>> /\ inbox' = Tail(inbox)
    OBVIOUS
  <2> HIDE DEF HandleClosed
  <2> QED
    BY <2>1, <2>2, TakenKeepsQueue
<1>3. PhaseShape'
  BY <1>1 DEF IndInv, PhaseShape, systemVars
<1>4. CASE p \in clients
  <2>1. /\ {p} \in SUBSET clients /\ RemoveClients({p}) /\ Cardinality({p}) = 1
        /\ disconnectCount' = disconnectCount + 1
        /\ UNCHANGED <<clientIdGen, id>> /\ clients' = clients \ {p}
    BY <1>4, FS_Singleton DEF RemoveClients, DropClients
  <2>2. events[p] = <<"Connected">> /\ id[p] # 0
    BY <1>1, <1>4 DEF IndInv, WellTold, TableShape
  <2>3. events' = [events EXCEPT ![p] = <<"Connected", "Lost">>]
    BY <1>4, <2>2 DEF Raise, IndInv, TypeOK
  <2>4. TypeOK'
    <3>1. events' \in [Peers -> Seq({"Connected", "Lost"})]
      <4>1. <<"Connected", "Lost">> \in Seq({"Connected", "Lost"})
        OBVIOUS
      <4> QED
        BY <2>3, <4>1 DEF IndInv, TypeOK
    <3>2. /\ disconnectCount' \in Nat /\ ordered' \subseteq Peers
          /\ phase' \in {"idle", "messages", "channels", "lost"}
          /\ unvisited' = {} /\ lostClients' = {}
      BY <1>1, <2>1 DEF IndInv, TypeOK, systemVars
    <3>3. inbox' \in Seq(Messages) /\ Len(inbox') <= InboxSize
      BY InboxTaken
    <3>4. UNCHANGED <<PoolVars, listening, started, connectCount, asyncVars>>
      OBVIOUS
    <3> QED
      BY <2>1, <3>1, <3>2, <3>3, <3>4, LeavingTypes
  <2>5. TableShape' /\ OpenForAll' /\ AvailableIsUnused'
    BY <2>1, LeavingTable
  <2>6. WellTold'
    BY <1>1, <2>1, <2>2, <2>3 DEF IndInv, TypeOK, WellTold, systemVars
  <2>7. Counted'
    BY <2>1, LeavingCounted
  <2> QED
    BY <1>2, <1>3, <2>4, <2>5, <2>6, <2>7 DEF IndInv
<1>5. CASE p \notin clients
  <2>1. TypeOK'
    BY <1>5, InboxTaken
       DEF IndInv, TypeOK, PoolTypeOK, PoolVars, tableVars, systemVars, asyncVars, acceptVars
  <2> QED
    BY <1>2, <1>5, <2>1, TableKept DEF IndInv, PoolVars, userVars
<1> QED
  BY <1>4, <1>5

\* The steps that only move the system on.
LEMMA PhaseStep ==
    ASSUME IndInv, BeginEvents \/ MessagesDone \/ ChannelsDone
    PROVE  IndInv'
<1> USE DEF BeginEvents, MessagesDone, ChannelsDone
<1>1. TypeOK'
  BY DEF IndInv, TypeOK, PoolTypeOK, PoolVars, userVars, tableVars, asyncVars, acceptVars, PhaseShape
<1>2. PhaseShape'
  BY DEF IndInv, PhaseShape, userVars
<1>3. TableShape' /\ OpenForAll' /\ AvailableIsUnused' /\ WellTold' /\ Counted'
  BY DEF IndInv, PoolVars, userVars, tableVars, TableShape, OpenForAll,
         AvailableIsUnused, WellTold, Counted, NoClientCountedTwice
<1> QED
  BY <1>1, <1>2, <1>3, QueueKept DEF IndInv, userVars, tableVars

\* A client with a report is told lost, and joins those that will leave the map.
LEMMA VisitClientStep ==
    ASSUME IndInv, NEW p \in Peers, VisitClient(p)
    PROVE  IndInv'
<1> USE DEF VisitClient
<1>1. /\ p \in clients \ lostClients /\ id[p] # 0 /\ events[p] = <<"Connected">>
      /\ listening /\ phase = "channels"
  BY DEF IndInv, TypeOK, PhaseShape, WellTold, TableShape
<1>2. \/ UNCHANGED <<lostClients, events>>
      \/ /\ lostClients' = lostClients \cup {p}
         /\ events' = [events EXCEPT ![p] = <<"Connected", "Lost">>]
  BY <1>1 DEF Raise, IndInv, TypeOK
<1>3. TypeOK'
  <2>1. events' \in [Peers -> Seq({"Connected", "Lost"})]
    <3>1. <<"Connected", "Lost">> \in Seq({"Connected", "Lost"})
      OBVIOUS
    <3>2. events \in [Peers -> Seq({"Connected", "Lost"})]
      BY DEF IndInv, TypeOK
    <3> QED
      BY <1>2, <3>1, <3>2
  <2>2. lostClients' \subseteq clients' /\ unvisited' \subseteq clients' /\ clients' \subseteq Peers
    BY <1>1, <1>2 DEF IndInv, TypeOK, tableVars
  <2>3. reports' \in [Peers -> 0..MaxReports]
    BY EndpointAssumption DEF IndInv, TypeOK
  <2> QED
    BY <2>1, <2>2, <2>3 DEF IndInv, TypeOK, PoolTypeOK, PoolVars, tableVars, asyncVars, acceptVars
<1>4. PhaseShape'
  BY <1>1, <1>2 DEF IndInv, PhaseShape
<1>5. TableShape' /\ OpenForAll' /\ AvailableIsUnused' /\ Counted'
  BY DEF IndInv, TableShape, OpenForAll, AvailableIsUnused, Counted, NoClientCountedTwice,
         PoolVars, tableVars
<1>6. WellTold'
  BY <1>1, <1>2 DEF IndInv, TypeOK, WellTold, tableVars
<1> QED
  BY <1>3, <1>4, <1>5, <1>6, QueueKept DEF IndInv, tableVars

\* The lost clients leave the map and are counted.
LEMMA DisconnectLostStep ==
    ASSUME IndInv, DisconnectLost
    PROVE  IndInv'
<1> USE DEF DisconnectLost
<1>1. /\ lostClients \in SUBSET clients /\ RemoveClients(lostClients)
      /\ unvisited = {} /\ UNCHANGED <<clientIdGen, id>> /\ clients' = clients \ lostClients
  BY DEF IndInv, TypeOK, PhaseShape, RemoveClients, DropClients
<1>2. TableShape' /\ OpenForAll' /\ AvailableIsUnused'
  BY <1>1, LeavingTable
<1>3. disconnectCount' \in Nat /\ Counted'
  BY <1>1, LeavingCounted
<1>4. TypeOK'
  BY <1>1, <1>3, LeavingTypes DEF IndInv, TypeOK
<1>5. PhaseShape'
  BY <1>1 DEF IndInv, PhaseShape
<1>6. WellTold'
  BY <1>1 DEF IndInv, WellTold
<1> QED
  BY <1>1, <1>2, <1>3, <1>4, <1>5, <1>6, QueueKept DEF IndInv

-----------------------------------------------------------------------------
(* The calls of the user.                                                  *)

\* A channel is opened for every client, under an id that none uses.
LEMMA OpenChannelStep ==
    ASSUME IndInv, NEW c \in Ids, OpenChannel(c)
    PROVE  IndInv'
<1> USE DEF OpenChannel, TakeId, CreateChannel
<1>1. TypeOK'
  <2>1. creating' \in [Peers -> 0..CreateQueueSize]
    <3>1. /\ creating \in [Peers -> 0..CreateQueueSize] /\ CreateQueueSize \in Nat
          /\ \A p \in clients : creating[p] + 1 \in 0..CreateQueueSize
      BY EndpointAssumption DEF IndInv, TypeOK
    <3>2. creating' = [p \in Peers |-> IF p \in clients THEN creating[p] + 1 ELSE creating[p]]
      OBVIOUS
    <3> HIDE DEF OpenChannel
    <3> QED
      BY <3>1, <3>2
  <2>2. /\ slots' \in [Peers -> SUBSET Ids] /\ opening' \in [Peers -> SUBSET Ids]
        /\ \A p \in Peers : opening'[p] \cup dead'[p] \subseteq slots'[p]
    BY DEF IndInv, TypeOK
  <2> QED
    BY <2>1, <2>2 DEF IndInv, TypeOK, PoolTypeOK, systemVars, asyncVars, acceptVars
<1>2. PhaseShape' /\ WellTold' /\ Counted'
  BY DEF IndInv, PhaseShape, WellTold, Counted, NoClientCountedTwice, systemVars
<1>3. TableShape'
  BY DEF IndInv, TypeOK, TableShape
<1>4. OpenForAll'
  BY DEF IndInv, TypeOK, OpenForAll
<1>5. AvailableIsUnused'
  BY IdsAssumption DEF IndInv, TypeOK, PoolTypeOK, AvailableIsUnused
<1> QED
  BY <1>1, <1>2, <1>3, <1>4, <1>5, QueueKept DEF IndInv

\* A channel that cannot be opened for every client is opened for none.
LEMMA OpenChannelFailsStep ==
    ASSUME IndInv, NEW c \in Ids, NEW B \in SUBSET clients, OpenChannelFails(c, B)
    PROVE  IndInv'
<1> USE DEF OpenChannelFails
<1>1. TypeOK'
  <2>1. creating' \in [Peers -> 0..CreateQueueSize]
    <3>1. /\ creating \in [Peers -> 0..CreateQueueSize] /\ B \subseteq Peers
          /\ \A p \in B : creating[p] + 1 \in 0..CreateQueueSize
      BY EndpointAssumption DEF IndInv, TypeOK
    <3>2. creating' = [p \in Peers |-> IF p \in B THEN creating[p] + 1 ELSE creating[p]]
      OBVIOUS
    <3> HIDE DEF OpenChannelFails
    <3> QED
      BY <3>1, <3>2
  <2>2. PoolTypeOK'
    BY DEF IndInv, TypeOK, PoolTypeOK
  <2> QED
    BY <2>1, <2>2 DEF IndInv, TypeOK, userVars, tableVars, systemVars, asyncVars, acceptVars
<1> QED
  BY <1>1, TableKept, QueueKept DEF IndInv, userVars, tableVars

\* The id of a closed channel is free when no client has a channel of it.
LEMMA CloseChannelStep ==
    ASSUME IndInv, NEW c \in Ids,
           \/ CloseChannel(c)
           \/ \E B \in SUBSET clients : \E p \in clients \ B : CloseChannelFails(c, p, B)
    PROVE  IndInv'
<1>1. PICK S \in SUBSET clients :
        /\ TakeOut(c, S)
        /\ (ReleaseId(c) /\ S = clients) \/ UNCHANGED PoolVars
        /\ opened' = opened \ {c}
        /\ UNCHANGED <<listening, started, clientIdGen, clients, id, connectCount, disconnectCount,
                       events, ordered, systemVars, inbox, asyncVars, creating, reports>>
  <2>1. CASE CloseChannel(c)
    BY <2>1 DEF CloseChannel
  <2>2. CASE \E B \in SUBSET clients : \E p \in clients \ B : CloseChannelFails(c, p, B)
    <3>0. PICK B \in SUBSET clients : \E p \in clients \ B : CloseChannelFails(c, p, B)
      BY <2>2
    <3>1. PICK p \in clients \ B : CloseChannelFails(c, p, B)
      BY <3>0
    <3>2. B \cup {p} \in SUBSET clients
      OBVIOUS
    <3> QED
      BY <3>1, <3>2 DEF CloseChannelFails
  <2> QED
    BY <2>1, <2>2
<1> USE <1>1 DEF TakeOut, ReleaseId
<1>2. TypeOK'
  <2>1. /\ slots' \in [Peers -> SUBSET Ids] /\ opening' \in [Peers -> SUBSET Ids]
        /\ dead' \in [Peers -> SUBSET Ids]
        /\ \A p \in Peers : opening'[p] \cup dead'[p] \subseteq slots'[p]
    BY DEF IndInv, TypeOK
  <2>2. PoolTypeOK'
    BY DEF IndInv, TypeOK, PoolTypeOK, PoolVars
  <2> QED
    BY <2>1, <2>2 DEF IndInv, TypeOK, systemVars, asyncVars, acceptVars
<1>3. PhaseShape' /\ WellTold' /\ Counted'
  BY DEF IndInv, PhaseShape, WellTold, Counted, NoClientCountedTwice, systemVars
<1>4. TableShape'
  BY DEF IndInv, TypeOK, TableShape, PoolVars
<1>5. OpenForAll'
  BY DEF IndInv, TypeOK, OpenForAll
<1>6. AvailableIsUnused'
  BY IdsAssumption DEF IndInv, TypeOK, PoolTypeOK, AvailableIsUnused, PoolVars
<1> QED
  BY <1>2, <1>3, <1>4, <1>5, <1>6, QueueKept DEF IndInv

\* The default channel bears on no client's.
LEMMA SetDefaultStep ==
    ASSUME IndInv, NEW c \in Ids, SetDefault(c)
    PROVE  IndInv'
<1> USE DEF SetDefault, SetDefaultChannel
<1>1. TypeOK'
  BY DEF IndInv, TypeOK, PoolTypeOK, userVars, tableVars, systemVars, asyncVars, acceptVars
<1>2. PhaseShape' /\ WellTold' /\ Counted'
  BY DEF IndInv, PhaseShape, WellTold, Counted, NoClientCountedTwice, userVars, tableVars, systemVars
<1>3. TableShape' /\ OpenForAll' /\ AvailableIsUnused'
  BY DEF IndInv, TableShape, OpenForAll, AvailableIsUnused, userVars, tableVars
<1> QED
  BY <1>1, <1>2, <1>3, QueueKept DEF IndInv, userVars, tableVars

\* The clients in S leave the map by order of the user, which does not touch what
\* was told of them.
LEMMA OrderedToLeave ==
    ASSUME IndInv, InUpdate, NEW S \in SUBSET clients, RemoveClients(S), ordered' = ordered \cup S,
           UNCHANGED <<PoolVars, started, connectCount, events, systemVars, asyncVars>>,
           listening' \in BOOLEAN, inbox' = inbox \/ inbox' = <<>>,
           disconnectCount' \in {disconnectCount, disconnectCount + Cardinality(S)}
    PROVE  /\ TypeOK' /\ PhaseShape' /\ TableShape' /\ OpenForAll' /\ AvailableIsUnused'
           /\ WellTold' /\ Counted'
<1>1. /\ clients' = clients \ S /\ UNCHANGED <<clientIdGen, id, opened>>
      /\ DropClients(S) /\ unvisited = {} /\ lostClients = {} /\ phase = "idle"
  BY DEF RemoveClients, DropClients, IndInv, PhaseShape, InUpdate
<1>2. disconnectCount' \in Nat /\ Counted'
  BY LeavingCounted
<1>3. TableShape' /\ OpenForAll' /\ AvailableIsUnused'
  BY LeavingTable
<1>4. inbox' \in Seq(Messages) /\ Len(inbox') <= InboxSize
  <2>1. CASE inbox' = <<>>
    BY <2>1, EndpointAssumption
  <2> QED
    BY <2>1 DEF IndInv, TypeOK
<1>5. TypeOK'
  BY <1>1, <1>2, <1>4, Leaving DEF IndInv, TypeOK, PoolTypeOK, PoolVars, systemVars, asyncVars, acceptVars
<1>6. PhaseShape'
  BY <1>1 DEF IndInv, PhaseShape, systemVars
<1>7. WellTold'
  BY <1>1 DEF IndInv, WellTold, systemVars
<1> QED
  BY <1>2, <1>3, <1>5, <1>6, <1>7

\* Clients the user disconnects are ordered out as they leave the map.
LEMMA DisconnectStep ==
    ASSUME IndInv, DisconnectAllClients \/ \E p \in Peers : DisconnectClient(p)
    PROVE  IndInv'
<1>1. PICK S \in SUBSET clients :
        /\ InUpdate /\ RemoveClients(S) /\ ordered' = ordered \cup S
        /\ UNCHANGED <<PoolVars, listening, started, connectCount, events, systemVars, inbox, asyncVars>>
        /\ disconnectCount' \in {disconnectCount, disconnectCount + Cardinality(S)}
  <2>1. CASE DisconnectAllClients
    BY <2>1 DEF DisconnectAllClients
  <2>2. ASSUME NEW p \in Peers, DisconnectClient(p)
        PROVE  {p} \in SUBSET clients /\ Cardinality({p}) = 1
    BY <2>2, FS_Singleton DEF DisconnectClient
  <2> QED
    BY <2>1, <2>2 DEF DisconnectClient
<1>2. listening' \in BOOLEAN
  BY <1>1 DEF IndInv, TypeOK
<1>3. AnnouncedOnce' /\ TasksBegin'
  BY <1>1, QueueKept DEF RemoveClients
<1> QED
  BY <1>1, <1>2, <1>3, OrderedToLeave DEF IndInv

\* An empty queue announces nobody.
LEMMA NothingAnnounced ==
    ASSUME IndInv, inbox' = <<>>, UNCHANGED <<id, conn, task>>
    PROVE  AnnouncedOnce' /\ TasksBegin'
BY DEF IndInv, AnnouncedOnce, TasksBegin

\* A stopped endpoint has no clients.
LEMMA StopEndpointStep ==
    ASSUME IndInv, StopEndpoint
    PROVE  IndInv'
<1> USE DEF StopEndpoint
<1>1. AnnouncedOnce' /\ TasksBegin'
  BY NothingAnnounced DEF RemoveClients, asyncVars
<1>2. UNCHANGED <<PoolVars, started, connectCount, events, systemVars, asyncVars>>
  OBVIOUS
<1> QED
  BY <1>1, <1>2, OrderedToLeave DEF IndInv

\* A new endpoint counts its clients from the start.
LEMMA StartEndpointStep ==
    ASSUME IndInv, StartEndpoint
    PROVE  IndInv'
<1> USE DEF StartEndpoint
<1>1. /\ DropClients(clients) /\ clients \in SUBSET clients /\ clients' = {}
      /\ unvisited = {} /\ lostClients = {} /\ phase = "idle"
  BY DEF DropClients, IndInv, PhaseShape
<1>2. AnnouncedOnce' /\ TasksBegin'
  BY NothingAnnounced
<1>3. available' = Ids \ Configured /\ default' \in Configured \cup {NoChannel}
  BY DEF PoolAfterTaking
<1>4. TypeOK'
  <2>1. PoolTypeOK' /\ opened' \subseteq Ids
    BY <1>3, EndpointAssumption DEF PoolTypeOK
  <2>2. inbox' \in Seq(Messages) /\ Len(inbox') <= InboxSize /\ clientIdGen' \in 0..Cardinality(Peers)
    BY EndpointAssumption, FiniteSides
  <2>3. started' \in 1..MaxStarts /\ accepting' \subseteq 1..MaxStarts
    BY EndpointAssumption DEF IndInv, TypeOK
  <2> QED
    BY <1>1, <2>1, <2>2, <2>3, Leaving DEF IndInv, TypeOK, systemVars
<1>5. PhaseShape'
  BY <1>1 DEF IndInv, PhaseShape, systemVars
<1>6. TableShape' /\ OpenForAll' /\ AvailableIsUnused'
  BY <1>1, <1>3, Leaving, IdsAssumption, EndpointAssumption DEF TableShape, OpenForAll, AvailableIsUnused
<1>7. WellTold'
  BY <1>1 DEF IndInv, WellTold, systemVars
<1>8. Counted'
  <2>1. UNCHANGED id /\ clientIdGen' = 0 /\ disconnectCount' = 0
    OBVIOUS
  <2>2. Cardinality(clients') = 0
    BY <1>1, FS_EmptySet
  <2> QED
    BY <2>1, <2>2, FiniteSides DEF Counted, NoClientCountedTwice
<1> QED
  BY <1>2, <1>4, <1>5, <1>6, <1>7, <1>8 DEF IndInv

-----------------------------------------------------------------------------
(* The invariant, and what follows from it.                                *)

\* A server that was not started is in the invariant.
LEMMA InitIndInv == Init => IndInv
<1> SUFFICES ASSUME Init PROVE IndInv
  OBVIOUS
<1> USE DEF Init
<1>1. available = Ids \ Configured /\ default \in Configured \cup {NoChannel}
  BY DEF PoolAfterTaking
<1>2. Cardinality(clients) = 0 /\ Cardinality(Peers) \in Nat /\ {p \in Peers : id[p] # 0} = {}
  BY EndpointAssumption, FS_EmptySet, FS_CardinalityType
<1>3. TypeOK
  <2>1. PoolTypeOK
    BY <1>1, EndpointAssumption DEF PoolTypeOK
  <2> QED
    BY <1>2, <2>1, EndpointAssumption DEF TypeOK
<1>4. PhaseShape /\ AnnouncedOnce /\ TasksBegin /\ WellTold /\ OpenForAll
  BY DEF PhaseShape, AnnouncedOnce, TasksBegin, WellTold, OpenForAll
<1>5. TableShape /\ AvailableIsUnused
  BY <1>1, IdsAssumption, EndpointAssumption DEF TableShape, AvailableIsUnused
<1>6. Counted
  <2>1. clientIdGen = 0 /\ disconnectCount = 0 /\ Cardinality({p \in Peers : id[p] # 0}) = 0
    BY <1>2, FS_EmptySet
  <2> QED
    BY <1>2, <2>1 DEF Counted, NoClientCountedTwice
<1> QED
  BY <1>3, <1>4, <1>5, <1>6 DEF IndInv

\* Every step keeps the invariant.
LEMMA NextIndInv == IndInv /\ [Next]_vars => IndInv'
<1> SUFFICES ASSUME IndInv, [Next]_vars PROVE IndInv'
  OBVIOUS
<1>1. CASE \E p \in Peers : Task(p)
  BY <1>1, AnnounceStep, RefusedStep, ServeStep, WatcherSignalsStep, TakeCreateStep,
     ConnectionEndsStep DEF Task
<1>2. CASE \E p \in Peers : TaskReports(p) \/ ConnectionLost(p)
  BY <1>2, TaskReportsStep, ConnectionEndsStep
<1>3. CASE \E p \in Peers, e \in 1..MaxStarts : Accept(p, e)
  BY <1>3, AcceptStep
<1>4. CASE \E p \in Peers, c \in Ids : StreamOpens(p, c) \/ TaskEnds(p, c)
  BY <1>4, OpensStep
<1>5. CASE \E e \in 1..MaxStarts : AcceptEnds(e)
  BY <1>5, AcceptEndsStep
<1>6. CASE HandleEvents
  BY <1>6, HandleConnectedStep, HandleClosedStep, PhaseStep, VisitClientStep, DisconnectLostStep
     DEF HandleEvents
<1>7. CASE User
  BY <1>7, OpenChannelStep, OpenChannelFailsStep, CloseChannelStep, SetDefaultStep, DisconnectStep,
     StopEndpointStep, StartEndpointStep DEF User
<1>8. CASE UNCHANGED vars
  <2>1. TypeOK'
    BY <1>8 DEF vars, IndInv, TypeOK, PoolTypeOK, PoolVars, userVars, tableVars, systemVars,
               asyncVars, acceptVars
  <2> QED
    BY <1>8, <2>1, TableKept, QueueKept DEF vars, IndInv, PoolVars, userVars, tableVars
<1> QED
  BY <1>1, <1>2, <1>3, <1>4, <1>5, <1>6, <1>7, <1>8 DEF Next

\* The invariant holds of every run.
THEOREM Inductive == Spec => []IndInv
  BY InitIndInv, NextIndInv, PTL DEF Spec

\* The types of the endpoint's state: the queues stay within their sizes, and no
\* id is given out that no peer can have.
THEOREM TypeCorrect == Spec => []TypeOK
<1>1. IndInv => TypeOK
  BY DEF IndInv
<1> QED
  BY <1>1, Inductive, PTL

\* The events of each connection of a client are a ConnectionEvent and then at most
\* one ConnectionLostEvent (server.rs:336-384).
THEOREM ClientsToldInOrder == Spec => []EventsOfAClient
<1>1. IndInv => EventsOfAClient
  BY DEF IndInv, WellTold, EventsOfAClient
<1> QED
  BY <1>1, Inductive, PTL

\* Between two runs of the system the map of clients and the user's events agree
\* (server.rs:350-384).
THEOREM TableIsTold == Spec => []TableMatchesEvents
<1>1. ToSet(<<"Connected">>) = {"Connected"} /\ ToSet(<<"Connected", "Lost">>) = {"Connected", "Lost"}
  BY DEF ToSet
<1>2. IndInv => TableMatchesEvents
  BY <1>1 DEF IndInv, WellTold, PhaseShape, TypeOK, TableMatchesEvents, Lost
<1> QED
  BY <1>2, Inductive, PTL

\* Every client has every open channel, however its connection, its queue of
\* CreateChannel messages and the calls of the user interleave (endpoint.rs:313-406).
THEOREM ChannelsOpenForAll == Spec => []OpenForAll
<1>1. IndInv => OpenForAll
  BY DEF IndInv
<1> QED
  BY <1>1, Inductive, PTL

\* An id that open_channel may hand out names no channel of any client
\* (endpoint.rs:313-361).
THEOREM IdsAreNotShared == Spec => []AvailableIsUnused
<1>1. IndInv => AvailableIsUnused
  BY DEF IndInv
<1> QED
  BY <1>1, Inductive, PTL

\* No client is counted twice as disconnected, whoever ends its connection
\* (endpoint.rs:232-271, server.rs:350-384).
THEOREM CountedOnce == Spec => []NoClientCountedTwice
<1>1. IndInv => NoClientCountedTwice
  BY DEF IndInv, Counted
<1> QED
  BY <1>1, Inductive, PTL
==============================================================================
