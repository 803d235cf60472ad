---------------------------- MODULE EndpointSends ----------------------------
(***************************************************************************)
(* The sends of the server: to a client, to a group, to everybody, of a    *)
(* payload or of a message, on a channel or on the default one             *)
(* (src/src/server/endpoint.rs, src/src/server/messages.rs), and what they *)
(* tell their caller of each client.  A send to several clients is a loop; *)
(* between two of its turns the tasks of the channels take payloads from   *)
(* the queues, or end.                                                     *)
(*                                                                         *)
(* The clients and channels come and go between two calls, as in           *)
(* ServerEndpoint; here the vector send_channels keeps its length, which   *)
(* the errors depend on.                                                   *)
(***************************************************************************)
EXTENDS ChannelsIdsPool, Sequences, FiniteSets, SequencesExt

CONSTANTS
    ClientIds,      \* the ids given to clients, and those asked for
    QueueSize,      \* DEFAULT_MESSAGE_QUEUE_SIZE
    MaxGroup        \* bound: the clients named in one group

ASSUME SendsAssumption ==
    /\ IsFiniteSet(ClientIds)
    /\ QueueSize \in Nat \ {0}
    /\ MaxGroup \in Nat

SendErrors == {"UnknownClient", "InvalidChannelId", "ChannelClosed", "FullQueue",
               "InternalChannelClosed"}
Refusals   == {"NoDefaultChannel", "Serialization"}
Outcomes   == {"none", "sending", "Ok", "SendError"} \cup Refusals

VARIABLES
    opened,     \* opened_channels
    clients,    \* the ids in clients
    joined,     \* those that ever were: client_id_gen gives none twice
    table,      \* table[i]: send_channels of client i; index 1 is channel 0
    waiting,    \* waiting[i][c]: payloads queued for the task of c
    outcome,    \* what the last call returned, "sending" while it runs
    channel,    \* the channel of that call
    asked,      \* the clients it is for, in its order
    todo,       \* those of them it has yet to come to
    errors,     \* its errors so far, each with its client
    copies      \* copies[i]: how often client i accepted its payload

envVars  == <<PoolVars, opened, clients, joined>>
callVars == <<outcome, channel, asked, todo, errors, copies>>
vars == <<envVars, table, waiting, callVars>>

TypeOK ==
    /\ PoolTypeOK
    /\ opened \subseteq Ids
    /\ clients \subseteq joined /\ joined \subseteq ClientIds
    /\ table \in [ClientIds -> Seq({"none", "open", "dead"})]
    /\ waiting \in [ClientIds -> [Ids -> 0..QueueSize]]
    /\ outcome \in Outcomes
    /\ channel \in Ids \cup {NoChannel}
    /\ asked \in Seq(ClientIds) /\ todo \in Seq(ClientIds)
    /\ errors \in Seq([client : ClientIds, error : SendErrors])
    /\ copies \in [ClientIds -> Nat]

NoCopies == [i \in ClientIds |-> 0]
NoneWait == [c \in Ids |-> 0]

\* An endpoint with no configured channel and no client.
Init ==
    /\ PoolAfterTaking({}, available, default)
    /\ opened = {} /\ clients = {} /\ joined = {}
    /\ table = [i \in ClientIds |-> <<>>]
    /\ waiting = [i \in ClientIds |-> NoneWait]
    /\ outcome = "none" /\ channel = NoChannel
    /\ asked = <<>> /\ todo = <<>> /\ errors = <<>>
    /\ copies = NoCopies

-----------------------------------------------------------------------------
(* The calls.                                                              *)

Slot(i, c) == table[i][c + 1]
HasSlot(i, c) == c < Len(table[i])

\* A call that refuses changes nothing.  The default channel is looked up, and
\* a message serialised, before any client is.
Refuse(why) ==
    /\ outcome # "sending"
    /\ why = "NoDefaultChannel" => default = NoChannel
    /\ outcome' = why
    /\ asked' = <<>> /\ todo' = <<>> /\ errors' = <<>> /\ copies' = NoCopies
    /\ channel' = NoChannel
    /\ UNCHANGED <<envVars, table, waiting>>

\* A call for the clients of s, in this order, on channel c.
Begin(s, c) ==
    /\ outcome # "sending"
    /\ outcome' = "sending"
    /\ channel' = c
    /\ asked' = s /\ todo' = s /\ errors' = <<>> /\ copies' = NoCopies
    /\ UNCHANGED <<envVars, table, waiting>>

\* The channel the caller names, or the default one.
Chosen == IF default = NoChannel THEN Ids ELSE Ids \cup {default}

SendPayload == \E i \in ClientIds, c \in Chosen : Begin(<<i>>, c)

\* The iterator is the caller's, and may name a client twice.
SendGroup ==
    \E s \in UNION {[1..n -> ClientIds] : n \in 0..MaxGroup}, c \in Chosen : Begin(s, c)

\* Over the map of clients, in any order.
Broadcast == \E s \in SetToSeqs(clients), c \in Chosen : Begin(s, c)

\* A queue without a bound.
MutSendResult(i, c) ==
    CASE i \notin clients                             -> "UnknownClient"
      [] i \in clients /\ ~HasSlot(i, c)              -> "InvalidChannelId"
      [] i \in clients /\ HasSlot(i, c) ->
            IF Slot(i, c) = "none" THEN "ChannelClosed"
            ELSE IF Slot(i, c) = "dead" THEN "InternalChannelClosed" ELSE "Ok"

\* What sending on channel c to client i comes to.
SendResult(i, c) ==
    CASE i \notin clients                             -> "UnknownClient"
      [] i \in clients /\ ~HasSlot(i, c)              -> "InvalidChannelId"
      [] i \in clients /\ HasSlot(i, c) ->
            IF Slot(i, c) = "none" THEN "ChannelClosed"
            ELSE IF Slot(i, c) = "dead" THEN "InternalChannelClosed"
            ELSE IF waiting[i][c] = QueueSize THEN "FullQueue" ELSE "Ok"

\* A loop that returns at the first error.
MutVisit ==
    /\ todo # <<>>
    /\ LET i == Head(todo)
           r == SendResult(i, channel)
       IN IF r = "Ok"
          THEN /\ waiting' = [waiting EXCEPT ![i][channel] = @ + 1]
               /\ copies' = [copies EXCEPT ![i] = @ + 1]
               /\ todo' = Tail(todo)
               /\ UNCHANGED errors
          ELSE /\ errors' = Append(errors, [client |-> i, error |-> r])
               /\ todo' = <<>>
               /\ UNCHANGED <<waiting, copies>>
    /\ UNCHANGED <<envVars, table, outcome, channel, asked>>

\* One turn of the loop.
Visit ==
    /\ todo # <<>>
    /\ todo' = Tail(todo)
    /\ LET i == Head(todo)
           r == SendResult(i, channel)
       IN IF r = "Ok"
          THEN /\ waiting' = [waiting EXCEPT ![i][channel] = @ + 1]
               /\ copies' = [copies EXCEPT ![i] = @ + 1]
               /\ UNCHANGED errors
          ELSE /\ errors' = Append(errors, [client |-> i, error |-> r])
               /\ UNCHANGED <<waiting, copies>>
    /\ UNCHANGED <<envVars, table, outcome, channel, asked>>

Return ==
    /\ outcome = "sending"
    /\ todo = <<>>
    /\ outcome' = IF errors = <<>> THEN "Ok" ELSE "SendError"
    /\ UNCHANGED <<envVars, table, waiting, channel, asked, todo, errors, copies>>

-----------------------------------------------------------------------------
(* The tasks of the channels.                                              *)

TakePayload(i, c) ==
    /\ waiting[i][c] > 0
    /\ waiting' = [waiting EXCEPT ![i][c] = @ - 1]
    /\ UNCHANGED <<envVars, table, callVars>>

\* The task of c at client i is gone, and its queue with it.
TaskEnds(i, c) ==
    /\ HasSlot(i, c) /\ Slot(i, c) = "open"
    /\ table' = [table EXCEPT ![i][c + 1] = "dead"]
    /\ waiting' = [waiting EXCEPT ![i][c] = 0]
    /\ UNCHANGED <<envVars, callVars>>

-----------------------------------------------------------------------------
(* What else happens between two calls.                                    *)

\* The result of the last call is looked at, and forgotten.
Forget ==
    /\ outcome # "sending"
    /\ outcome' = "none" /\ channel' = NoChannel
    /\ asked' = <<>> /\ errors' = <<>> /\ copies' = NoCopies
    /\ UNCHANGED todo

\* A channel that is pushed to the end of the vector, whatever its id.
MutRegister(t, c) ==
    IF c < Len(t) THEN [t EXCEPT ![c + 1] = "open"] ELSE Append(t, "open")

\* register_connection_channel: the vector t grows up to c.
Register(t, c) ==
    [k \in 1..(IF c < Len(t) THEN Len(t) ELSE c + 1) |->
        IF k = c + 1 THEN "open" ELSE IF k <= Len(t) THEN t[k] ELSE "none"]

\* handle_new_connection: each open channel registered, in any order.
NewTable ==
    [k \in 1..(IF opened = {} THEN 0 ELSE Max(opened) + 1) |->
        IF k - 1 \in opened THEN "open" ELSE "none"]

Connect(i) ==
    /\ Forget
    /\ i \notin joined
    /\ clients' = clients \cup {i} /\ joined' = joined \cup {i}
    /\ table' = [table EXCEPT ![i] = NewTable]
    /\ UNCHANGED <<PoolVars, opened, waiting>>

\* A client is disconnected: its PeerConnection is dropped.
Leave(i) ==
    /\ Forget
    /\ i \in clients
    /\ clients' = clients \ {i}
    /\ table' = [table EXCEPT ![i] = <<>>]
    /\ waiting' = [waiting EXCEPT ![i] = NoneWait]
    /\ UNCHANGED <<PoolVars, opened, joined>>

\* open_channel; its failures are in ServerEndpoint.
OpenChannel(c) ==
    /\ Forget
    /\ TakeId(c)
    /\ opened' = opened \cup {c}
    /\ table' = [i \in ClientIds |-> IF i \in clients THEN Register(table[i], c) ELSE table[i]]
    /\ UNCHANGED <<clients, joined, waiting>>

\* The channel is taken out of its slot at the clients in S; its payloads are its
\* task's, and the next channel under c has a queue of its own.
TakeOut(c, S) ==
    /\ table' = [i \in ClientIds |->
                    IF i \in S /\ HasSlot(i, c) THEN [table[i] EXCEPT ![c + 1] = "none"]
                    ELSE table[i]]
    /\ waiting' = [i \in ClientIds |->
                    IF i \in S THEN [waiting[i] EXCEPT ![c] = 0] ELSE waiting[i]]

CanClose(i, c) == HasSlot(i, c) /\ Slot(i, c) = "open"

CloseChannel(c) ==
    /\ Forget
    /\ c \in opened
    /\ opened' = opened \ {c}
    /\ \A i \in clients : CanClose(i, c)
    /\ TakeOut(c, clients)
    /\ ReleaseId(c)
    /\ UNCHANGED <<clients, joined>>

\* The task is gone at client i: the clients after it keep the channel.
CloseChannelFails(c, i, B) ==
    /\ Forget
    /\ c \in opened
    /\ opened' = opened \ {c}
    /\ ~CanClose(i, c) /\ \A j \in B : CanClose(j, c)
    /\ TakeOut(c, B \cup {i})
    /\ UNCHANGED <<PoolVars, clients, joined>>

\* set_default_channel takes any id, open or not.
SetDefault(c) ==
    /\ Forget
    /\ SetDefaultChannel(c)
    /\ UNCHANGED <<opened, clients, joined, table, waiting>>

-----------------------------------------------------------------------------

Call == SendPayload \/ Broadcast \/ SendGroup \/ \E why \in Refusals : Refuse(why)

Loop == Visit \/ Return

Tasks == \E i \in clients, c \in Ids : TakePayload(i, c) \/ TaskEnds(i, c)

Between ==
    \/ \E i \in ClientIds : Connect(i) \/ Leave(i)
    \/ \E c \in Ids : OpenChannel(c) \/ CloseChannel(c) \/ SetDefault(c)
    \/ \E c \in Ids, i \in clients : \E B \in SUBSET (clients \ {i}) :
          CloseChannelFails(c, i, B)

Next == Call \/ Loop \/ Tasks \/ Between

Spec == Init /\ [][Next]_vars

-----------------------------------------------------------------------------
(* Properties.                                                             *)

AskedFor(i)  == Cardinality({k \in DOMAIN asked : asked[k] = i})
ErrorsOf(i)  == Cardinality({k \in DOMAIN errors : errors[k].client = i})

\* What a call returns tells of every client it was for: "Ok" that each of them
\* has the payload as often as it was named, an error which of them have not,
\* and one client's failure takes the payload from no other.  This is so on any
\* default channel the user set, open or not (endpoint.rs:94-230,
\* messages.rs:107-235, peer_connection.rs:78-88 and 140-153).
OutcomeTellsAll ==
    /\ outcome \in {"Ok", "SendError"} =>
          \A i \in ClientIds : copies[i] + ErrorsOf(i) = AskedFor(i)
    /\ outcome = "Ok" => copies = [i \in ClientIds |-> AskedFor(i)]
    /\ outcome \in Refusals => copies = NoCopies

\* On a channel the endpoint has open, a send to a connected client fails only
\* for a full queue or a task that is gone, whenever the client connected and
\* whichever ids were closed and opened again (README.md:208,
\* endpoint.rs:327-361, peer_connection.rs:222-231).
OpenIsSendable ==
    channel \in opened =>
        \A k \in DOMAIN errors :
            errors[k].client \in clients =>
                errors[k].error \in {"FullQueue", "InternalChannelClosed"}
=============================================================================
