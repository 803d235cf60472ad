---------------------------- MODULE SendChannels ----------------------------
(***************************************************************************)
(* The sending half of one PeerConnection: the calls of                    *)
(* src/src/shared/peer_connection.rs and src/src/shared/channels.rs on the *)
(* Bevy side, and the tasks of src/src/shared/channels/tasks.rs,           *)
(* reliable/send.rs and unreliable/send.rs on the tokio side.              *)
(*                                                                         *)
(* A channel here is one opening of a ChannelId: the n-th CreateChannel    *)
(* message.  Opening a channel queues that message; the spawner takes it   *)
(* and starts the channel's task, which moves payloads from the channel's  *)
(* queue to its QUIC stream until it hears a close signal, then drains the *)
(* queue.  The spawner waits for every task and closes the connection.     *)
(***************************************************************************)
EXTENDS Naturals, Sequences, SequencesExt

CONSTANTS
    MaxChannels,    \* bound: channels opened over the connection's life
    MaxPayloads,    \* bound: payloads accepted over the connection's life
    Kinds,          \* the channel configurations in use
    QueueSize,      \* DEFAULT_MESSAGE_QUEUE_SIZE
    Oversized,      \* payloads longer than their channel's max_frame_size
    DropsOnClose    \* TRUE on the server, whose endpoint removes the connection
                    \* it closes; the client keeps it until reconnect or
                    \* close_connection

AllKinds == {"Ordered", "Unordered", "Unreliable"}

ASSUME ConstantsAssumption ==
    /\ MaxChannels \in Nat
    /\ MaxPayloads \in Nat
    /\ Kinds \subseteq AllKinds
    /\ QueueSize \in Nat \ {0}
    /\ Oversized \subseteq 1..MaxPayloads
    /\ DropsOnClose \in BOOLEAN

Channels == 1..MaxChannels
Payloads == 1..MaxPayloads
Orders   == {"LocalOrder", "PeerClosed"}

VARIABLES
    opened,         \* how many channels were opened
    kind,           \* kind[c]: the configuration c was opened with
    registered,     \* the channels held in send_channels
    accepted,       \* accepted[c]: the payloads send_payload took, in order
    numAccepted,    \* how many that were on all channels; they are numbered
    late,           \* those of them accepted after an order to close
    orders,         \* the reasons sent on the close broadcast
    refuses,        \* the connection was disconnected: it accepts no payload
    dropped,        \* the PeerConnection, and so every sender in it, is dropped
    creating,       \* CreateChannel messages not yet taken
    queue,          \* queue[c]: payloads waiting for the task of c
    spawner,        \* send_channels_tasks_spawner
    task,           \* task[c]: the task of c
    missed,         \* missed[c]: the orders sent before the task of c subscribed
    reason,         \* reason[c]: why the task of c left its loop
    buffer,         \* buffer[c]: framed by the task of c, not yet written
    inflight,       \* inflight[c]: payloads handed to a task of their own, by
                    \* the loop of the task of c or by its drain
    wire,           \* wire[c]: payloads written to the connection, in order
    reported,       \* a LostConnection message was sent to the sync side
    conn,           \* the QUIC connection: "open", "closed" by us, or "lost"
    stopped         \* the channels of which the peer has stopped a stream

tableVars == <<opened, kind, registered>>
acceptVars == <<accepted, numAccepted, late>>
closeVars == <<orders, refuses, dropped>>
syncVars == <<tableVars, acceptVars, closeVars>>
taskVars == <<task, missed, reason, buffer, inflight, wire, reported>>
netVars == <<conn, stopped>>
vars == <<syncVars, creating, queue, spawner, taskVars, netVars>>

TypeOK ==
    /\ opened \in 0..MaxChannels
    /\ kind \in [Channels -> AllKinds \cup {"none"}]
    /\ registered \subseteq Channels
    /\ accepted \in [Channels -> Seq(Payloads)]
    /\ numAccepted \in 0..MaxPayloads
    /\ late \subseteq Payloads
    /\ orders \in Seq(Orders) /\ Len(orders) <= 2
    /\ refuses \in BOOLEAN /\ dropped \in BOOLEAN
    /\ creating \in Seq(Channels)
    /\ queue \in [Channels -> Seq(Payloads)]
    /\ \A c \in Channels : Len(queue[c]) <= QueueSize
    /\ spawner \in {"listening", "waiting", "done"}
    /\ task \in [Channels -> {"unborn", "opening", "running", "draining", "flushing", "done"}]
    /\ missed \in [Channels -> 0..2]
    /\ reason \in [Channels -> Orders \cup {"none"}]
    /\ buffer \in [Channels -> Seq(Payloads)]
    /\ inflight \in [Channels -> SUBSET (Payloads \X {"loop", "drain"})]
    /\ wire \in [Channels -> Seq(Payloads)]
    /\ reported \in BOOLEAN
    /\ conn \in {"open", "closed", "lost"}
    /\ stopped \subseteq Channels

Init ==
    /\ opened = 0
    /\ kind = [c \in Channels |-> "none"]
    /\ registered = {}
    /\ accepted = [c \in Channels |-> <<>>]
    /\ numAccepted = 0
    /\ late = {}
    /\ orders = <<>>
    /\ refuses = FALSE /\ dropped = FALSE
    /\ creating = <<>>
    /\ queue = [c \in Channels |-> <<>>]
    /\ spawner = "listening"
    /\ task = [c \in Channels |-> "unborn"]
    /\ missed = [c \in Channels |-> 0]
    /\ reason = [c \in Channels |-> "none"]
    /\ buffer = [c \in Channels |-> <<>>]
    /\ inflight = [c \in Channels |-> {}]
    /\ wire = [c \in Channels |-> <<>>]
    /\ reported = FALSE
    /\ conn = "open"
    /\ stopped = {}

Alive(c) == task[c] \in {"opening", "running", "draining", "flushing"}

\* Somebody still holds the receiving end of c's queue.
Receiving(c) == Alive(c) \/ c \in ToSet(creating)

-----------------------------------------------------------------------------
(* The calls of the sync side.                                             *)

\* create_connection_channel: the CreateChannel message is queued and the
\* channel registered.  With the spawner gone it fails and changes nothing.
OpenChannel ==
    /\ ~dropped
    /\ opened < MaxChannels
    /\ spawner # "done"
    /\ opened' = opened + 1
    /\ \E k \in Kinds : kind' = [kind EXCEPT ![opened + 1] = k]
    /\ registered' = registered \cup {opened + 1}
    /\ creating' = Append(creating, opened + 1)
    /\ UNCHANGED <<acceptVars, closeVars, queue, spawner, taskVars, netVars>>

\* A send that ignores the queue's capacity.
MutSendUnbounded(c) ==
    /\ c \in registered
    /\ ~refuses /\ ~dropped
    /\ numAccepted < MaxPayloads
    /\ numAccepted' = numAccepted + 1
    /\ late' = IF orders = <<>> THEN late ELSE late \cup {numAccepted'}
    /\ Receiving(c)
    /\ accepted' = [accepted EXCEPT ![c] = Append(@, numAccepted')]
    /\ queue' = [queue EXCEPT ![c] = Append(@, numAccepted')]
    /\ UNCHANGED <<tableVars, closeVars, creating, spawner, taskVars, netVars>>

\* internal_send_payload, when it succeeds: a closed or unknown channel, a full
\* queue and a task that is gone are errors that change nothing here.  A client
\* that is disconnected refuses; the server forgot the connection.
SendPayload(c) ==
    /\ c \in registered
    /\ ~refuses /\ ~dropped
    /\ numAccepted < MaxPayloads
    /\ numAccepted' = numAccepted + 1
    /\ late' = IF orders = <<>> THEN late ELSE late \cup {numAccepted'}
    /\ Receiving(c)
    /\ Len(queue[c]) < QueueSize
    /\ accepted' = [accepted EXCEPT ![c] = Append(@, numAccepted')]
    /\ queue' = [queue EXCEPT ![c] = Append(@, numAccepted')]
    /\ UNCHANGED <<tableVars, closeVars, creating, spawner, taskVars, netVars>>

\* internal_close_channel: the Channel is taken out, its close signal sent and
\* its senders dropped.
CloseChannel(c) ==
    /\ ~dropped
    /\ c \in registered
    /\ registered' = registered \ {c}
    /\ UNCHANGED <<opened, kind, acceptVars, closeVars, creating, queue, spawner, taskVars,
                   netVars>>

\* PeerConnection::close, called by the user, or after a loss was noticed; a client
\* that is disconnected does not call it.  The server drops the connection with it.
Close(r) ==
    /\ ~refuses /\ ~dropped
    /\ r = "PeerClosed" => conn # "open" \/ reported
    /\ orders' = Append(orders, r)
    /\ refuses' = TRUE
    /\ dropped' = DropsOnClose
    /\ UNCHANGED <<tableVars, acceptVars, creating, queue, spawner, taskVars, netVars>>

\* The attempt's Connected message, queued before the client was disconnected, is
\* applied after that: the client takes payloads again, and may close again.
ConnectedApplied ==
    /\ ~DropsOnClose
    /\ refuses /\ ~dropped
    /\ Len(orders) = 1
    /\ refuses' = FALSE
    /\ UNCHANGED <<tableVars, acceptVars, orders, dropped, creating, queue, spawner, taskVars,
                   netVars>>

\* The client drops a disconnected connection, or its ends in internal_reset; the
\* server drops its connections, whatever their state, with an endpoint that
\* start_endpoint replaces.
Drop ==
    /\ refuses \/ DropsOnClose
    /\ ~dropped
    /\ dropped' = TRUE
    /\ UNCHANGED <<tableVars, acceptVars, orders, refuses, creating, queue, spawner, taskVars,
                   netVars>>

-----------------------------------------------------------------------------
(* The spawner.                                                            *)

\* It takes a CreateChannel message and spawns the task, whose receiver of the
\* close broadcast subscribes now.  Only an ordered channel opens its stream
\* first.
SpawnTask ==
    /\ spawner = "listening"
    /\ creating # <<>>
    /\ LET c == Head(creating) IN
          /\ task' = [task EXCEPT ![c] = IF kind[c] = "Ordered" THEN "opening" ELSE "running"]
          /\ missed' = [missed EXCEPT ![c] = Len(orders)]
    /\ creating' = Tail(creating)
    /\ UNCHANGED <<syncVars, queue, spawner, reason, buffer, inflight, wire, reported, netVars>>

SpawnerHearsClose ==
    /\ spawner = "listening"
    /\ orders # <<>> \/ dropped
    /\ spawner' = "waiting"
    /\ UNCHANGED <<syncVars, creating, queue, taskVars, netVars>>

\* A spawner that does not wait for the tasks' keepalives.
MutSpawnerCloses ==
    /\ spawner = "waiting"
    /\ spawner' = "done"
    /\ conn' = IF conn = "open" THEN "closed" ELSE conn
    /\ creating' = <<>>
    /\ queue' = [c \in Channels |-> IF c \in ToSet(creating) THEN <<>> ELSE queue[c]]
    /\ UNCHANGED <<syncVars, taskVars, stopped>>

\* No keepalive is left: close the connection; the messages never taken are
\* dropped, and with them the queues of their channels.
SpawnerCloses ==
    /\ spawner = "waiting"
    /\ \A c \in Channels : ~Alive(c) /\ inflight[c] = {}
    /\ spawner' = "done"
    /\ conn' = IF conn = "open" THEN "closed" ELSE conn
    /\ creating' = <<>>
    /\ queue' = [c \in Channels |-> IF c \in ToSet(creating) THEN <<>> ELSE queue[c]]
    /\ UNCHANGED <<syncVars, taskVars, stopped>>

-----------------------------------------------------------------------------
(* The task of channel c.                                                  *)

\* new_uni_frame_sender: the stream opens, or the task panics and its queue
\* goes with it.
OpenStream(c) ==
    /\ task[c] = "opening"
    /\ IF conn = "open"
       THEN task' = [task EXCEPT ![c] = "running"] /\ UNCHANGED queue
       ELSE /\ task' = [task EXCEPT ![c] = "done"]
            /\ queue' = [queue EXCEPT ![c] = <<>>]
    /\ UNCHANGED <<syncVars, creating, spawner, missed, reason, buffer, inflight, wire,
                   reported, netVars>>

\* The select's first branch: the first order sent since the task subscribed, or the
\* end of the broadcast.
HearOrder(c) ==
    /\ task[c] = "running"
    /\ missed[c] < Len(orders) \/ dropped
    /\ task' = [task EXCEPT ![c] = "draining"]
    /\ reason' = [reason EXCEPT ![c] = IF missed[c] < Len(orders) THEN orders[missed[c] + 1]
                                       ELSE "LocalOrder"]
    /\ UNCHANGED <<syncVars, creating, queue, spawner, missed, buffer, inflight, wire,
                   reported, netVars>>

\* A task that, told to close, forgets what it was writing.
MutHearChannelClose(c) ==
    /\ task[c] = "running"
    /\ c \notin registered \/ dropped
    /\ task' = [task EXCEPT ![c] = "draining"]
    /\ reason' = [reason EXCEPT ![c] = "LocalOrder"]
    /\ buffer' = [buffer EXCEPT ![c] = <<>>]
    /\ UNCHANGED <<syncVars, creating, queue, spawner, missed, inflight, wire,
                   reported, netVars>>

\* The select's second branch, a close signal for this channel; the third ends
\* when the channel's sender is dropped, with the same effect.  What was being
\* written stays in the framed writer's buffer.
HearChannelClose(c) ==
    /\ task[c] = "running"
    /\ c \notin registered \/ dropped
    /\ task' = [task EXCEPT ![c] = "draining"]
    /\ reason' = [reason EXCEPT ![c] = "LocalOrder"]
    /\ UNCHANGED <<syncVars, creating, queue, spawner, missed, buffer, inflight, wire,
                   reported, netVars>>

Drains(c) == task[c] = "draining" /\ reason[c] # "PeerClosed"

\* The task flushes its frames as it sends, in its loop or its drain, and at its end.
Flushes(c) == task[c] \in {"running", "flushing"} \/ Drains(c)

\* A payload could not be sent, which leaves q in the queue and b in the
\* buffer.  A task in its loop reports LostConnection, a drain only logs.  With
\* the sync side's receiver dropped the report panics, and all is lost.
SendFails(c, q, b) ==
    IF task[c] = "running" /\ dropped
    THEN /\ task' = [task EXCEPT ![c] = "done"]
         /\ queue' = [queue EXCEPT ![c] = <<>>]
         /\ buffer' = [buffer EXCEPT ![c] = <<>>]
         /\ UNCHANGED reported
    ELSE /\ reported' = (reported \/ task[c] = "running")
         /\ queue' = [queue EXCEPT ![c] = q]
         /\ buffer' = [buffer EXCEPT ![c] = b]
         /\ UNCHANGED task

\* Framing that puts a payload before those not yet written.
MutFramePayload(c) ==
    /\ kind[c] = "Ordered"
    /\ (task[c] = "running" /\ buffer[c] = <<>>) \/ Drains(c)
    /\ queue[c] # <<>>
    /\ queue' = [queue EXCEPT ![c] = Tail(@)]
    /\ buffer' = [buffer EXCEPT ![c] = <<Head(queue[c])>> \o @]
    /\ UNCHANGED <<syncVars, creating, spawner, task, missed, reason, inflight, wire,
                   reported, netVars>>

\* An ordered channel frames its next payload.  The loop writes a frame out
\* before it takes the next; the drain may find one still in the buffer.
FramePayload(c) ==
    /\ kind[c] = "Ordered"
    /\ (task[c] = "running" /\ buffer[c] = <<>>) \/ Drains(c)
    /\ queue[c] # <<>>
    /\ IF Head(queue[c]) \in Oversized
       THEN SendFails(c, Tail(queue[c]), buffer[c])
       ELSE /\ queue' = [queue EXCEPT ![c] = Tail(@)]
            /\ buffer' = [buffer EXCEPT ![c] = Append(@, Head(queue[c]))]
            /\ UNCHANGED <<task, reported>>
    /\ UNCHANGED <<syncVars, creating, spawner, missed, reason, inflight, wire, netVars>>

\* A frame written again by the next flush.
MutWriteFrame(c) ==
    /\ Flushes(c)
    /\ buffer[c] # <<>>
    /\ Len(wire[c]) < MaxPayloads
    /\ wire' = [wire EXCEPT ![c] = Append(@, Head(buffer[c]))]
    /\ UNCHANGED <<syncVars, creating, queue, spawner, task, missed, reason, buffer,
                   inflight, reported, netVars>>

\* The oldest frame is written.  The write fails when the connection is gone, or the
\* peer has stopped the stream, which then takes none of the later ones either.
WriteFrame(c) ==
    /\ Flushes(c)
    /\ buffer[c] # <<>>
    /\ IF conn = "open" /\ c \notin stopped
       THEN /\ wire' = [wire EXCEPT ![c] = Append(@, Head(buffer[c]))]
            /\ buffer' = [buffer EXCEPT ![c] = Tail(@)]
            /\ UNCHANGED <<queue, task, reported>>
       ELSE /\ SendFails(c, queue[c], Tail(buffer[c]))
            /\ UNCHANGED wire
    /\ UNCHANGED <<syncVars, creating, spawner, missed, reason, inflight, netVars>>

\* An unordered channel hands each payload to a task of its own.
HandPayload(c) ==
    /\ kind[c] = "Unordered"
    /\ task[c] = "running" \/ Drains(c)
    /\ queue[c] # <<>>
    /\ queue' = [queue EXCEPT ![c] = Tail(@)]
    /\ inflight' = [inflight EXCEPT ![c] =
            @ \cup {<<Head(queue[c]), IF task[c] = "running" THEN "loop" ELSE "drain">>}]
    /\ UNCHANGED <<syncVars, creating, spawner, task, missed, reason, buffer, wire,
                   reported, netVars>>

\* That task opens a stream, writes and finishes it.  When the connection is
\* gone it panics on opening or, later, fails to write; a payload too long
\* fails to write, and so may one whose stream the peer stopped.
WriteUnordered(c, m, from) ==
    /\ <<m, from>> \in inflight[c]
    /\ inflight' = [inflight EXCEPT ![c] = @ \ {<<m, from>>}]
    /\ \E written \in BOOLEAN :
          /\ written => conn = "open" /\ m \notin Oversized
          /\ ~written => conn # "open" \/ m \in Oversized \/ c \in stopped
          /\ wire' = IF written THEN [wire EXCEPT ![c] = Append(@, m)] ELSE wire
          /\ reported' \in IF written \/ from = "drain" \/ dropped THEN {reported}
                           ELSE IF conn = "open" THEN {TRUE} ELSE {reported, TRUE}
    /\ UNCHANGED <<syncVars, creating, queue, spawner, task, missed, reason, buffer, netVars>>

\* An unreliable channel sends a datagram.  One too long is only logged; a lost
\* connection is reported by the loop.
SendDatagram(c) ==
    /\ kind[c] = "Unreliable"
    /\ task[c] = "running" \/ Drains(c)
    /\ queue[c] # <<>>
    /\ IF conn = "open"
       THEN /\ wire' = IF Head(queue[c]) \in Oversized THEN wire
                       ELSE [wire EXCEPT ![c] = Append(@, Head(queue[c]))]
            /\ queue' = [queue EXCEPT ![c] = Tail(@)]
            /\ UNCHANGED <<task, reported, buffer>>
       ELSE /\ SendFails(c, Tail(queue[c]), buffer[c])
            /\ UNCHANGED wire
    /\ UNCHANGED <<syncVars, creating, spawner, missed, reason, inflight, netVars>>

\* The queue is found empty; the task then only flushes its stream, and still holds
\* the receiving end of the queue.
DrainEnds(c) ==
    /\ Drains(c)
    /\ queue[c] = <<>>
    /\ task' = [task EXCEPT ![c] = "flushing"]
    /\ UNCHANGED <<syncVars, creating, queue, spawner, missed, reason, buffer, inflight, wire,
                   reported, netVars>>

\* A task that ends without draining its queue.
MutFinish(c) ==
    /\ task[c] \in {"draining", "flushing"}
    /\ task' = [task EXCEPT ![c] = "done"]
    /\ queue' = [queue EXCEPT ![c] = <<>>]
    /\ buffer' = [buffer EXCEPT ![c] = <<>>]
    /\ UNCHANGED <<syncVars, creating, spawner, missed, reason, inflight, wire, reported, netVars>>

\* A task that ends its drain only, which it does not begin for a peer that is gone.
MutFinishDrained(c) ==
    /\ task[c] = "flushing" /\ buffer[c] = <<>>
    /\ task' = [task EXCEPT ![c] = "done"]
    /\ queue' = [queue EXCEPT ![c] = <<>>]
    /\ UNCHANGED <<syncVars, creating, spawner, missed, reason, buffer, inflight, wire, reported,
                   netVars>>

\* The stream is flushed and finished; nothing of that is done for a peer known to
\* be gone.  What came into the queue meanwhile is dropped with it.
Finish(c) ==
    /\ \/ task[c] = "draining" /\ reason[c] = "PeerClosed"
       \/ task[c] = "flushing" /\ buffer[c] = <<>>
    /\ task' = [task EXCEPT ![c] = "done"]
    /\ queue' = [queue EXCEPT ![c] = <<>>]
    /\ buffer' = [buffer EXCEPT ![c] = <<>>]
    /\ UNCHANGED <<syncVars, creating, spawner, missed, reason, inflight, wire, reported, netVars>>

-----------------------------------------------------------------------------
(* The peer and the network.                                               *)

\* The peer drops a stream it was reading: it failed to decode a frame of it, or its
\* receiving tasks ended.
StopStream(c) ==
    /\ conn = "open"
    /\ IF kind[c] = "Ordered" THEN buffer[c] # <<>> \/ wire[c] # <<>> ELSE inflight[c] # {}
    /\ stopped' = stopped \cup {c}
    /\ UNCHANGED <<syncVars, creating, queue, spawner, taskVars, conn>>

ConnectionLost ==
    /\ conn = "open"
    /\ conn' = "lost"
    /\ UNCHANGED <<syncVars, creating, queue, spawner, taskVars, stopped>>

-----------------------------------------------------------------------------
Spawner == SpawnTask \/ SpawnerHearsClose \/ SpawnerCloses

Hear(c) == HearOrder(c) \/ HearChannelClose(c)

Work(c) ==
    \/ OpenStream(c) \/ Hear(c) \/ DrainEnds(c) \/ Finish(c)
    \/ FramePayload(c) \/ WriteFrame(c) \/ HandPayload(c) \/ SendDatagram(c)

Next ==
    \/ OpenChannel
    \/ \E c \in Channels : SendPayload(c) \/ CloseChannel(c)
    \/ \E r \in Orders : Close(r)
    \/ ConnectedApplied \/ Drop
    \/ Spawner
    \/ \E c \in Channels : Work(c)
    \/ \E c \in Channels, m \in Payloads, from \in {"loop", "drain"} :
          WriteUnordered(c, m, from)
    \/ ConnectionLost \/ \E c \in Channels : StopStream(c)

\* tokio runs every ready task; QUIC makes room for what is written, or loses
\* the connection.
Fairness ==
    /\ WF_vars(Spawner)
    /\ \A c \in Channels : WF_vars(Work(c))
    /\ \A c \in Channels, m \in Payloads, from \in {"loop", "drain"} :
          WF_vars(WriteUnordered(c, m, from))

Spec == Init /\ [][Next]_vars /\ Fairness

-----------------------------------------------------------------------------
(* Properties.                                                             *)

\* What of the payloads accepted on c its framing lets through.
Sendable(c) == ToSet(accepted[c]) \ Oversized

\* The payloads of c that are in the hands of a task of their own.
Handed(c) == {p[1] : p \in inflight[c]}

\* No channel writes a payload twice, and none writes another's.
NoDuplicates ==
    \A c \in Channels :
        /\ IsInjective(wire[c])
        /\ ToSet(wire[c]) \subseteq ToSet(accepted[c])

\* The channels that were never given a payload too long.
Clean == {c \in Channels : ToSet(accepted[c]) \cap Oversized = {}}

\* Where the payloads of c are that are not lost.
Found(c) == ToSet(queue[c]) \cup ToSet(buffer[c]) \cup Handed(c) \cup ToSet(wire[c])

\* An accepted payload of a connection that still works is queued, framed, in its own
\* task or written, unless the task was told that the peer is gone, or the peer has
\* stopped a stream of the channel.  The sync side is told of the latter, unless the
\* task had been told to close or the connection was dropped.  Two kinds of loss
\* remain: a payload accepted once an order to close was out, and what a task held
\* that panicked as it reported a payload too long to a connection that had been
\* dropped (reliable/send.rs:46-84).
NoSilentLoss ==
    conn = "open" =>
        \A c \in Channels : \A m \in Sendable(c) \ Found(c) :
            \/ reason[c] = "PeerClosed"
            \/ c \in stopped /\ (reported \/ reason[c] # "none" \/ dropped)
            \/ m \in late /\ task[c] = "done"
            \/ c \notin Clean /\ dropped

\* peer_connection.rs:233 for the channels whose task was spawned: when the
\* connection closes, what a channel accepted before the order to close has been
\* written, unless its task was told that the peer is gone or the peer stopped it.
CloseFlushesSpawned ==
    conn = "closed" =>
        \A c \in Clean \ stopped :
            task[c] = "done" /\ reason[c] # "PeerClosed"
                => ToSet(accepted[c]) \ late \subseteq ToSet(wire[c])

\* peer_connection.rs:169-170: a closed channel writes all its buffered
\* payloads, unless the whole connection ends first, or the peer stops the channel.
ChannelCloseFlushes ==
    \A c \in Channels, m \in Payloads :
        (c \notin registered /\ m \in Sendable(c))
            ~> (m \in ToSet(wire[c]) \/ conn # "open" \/ orders # <<>> \/ c \in stopped)

\* Each ordered channel is one of FifoChannels.
IsOrdered(c) == kind[c] = "Ordered"

Sent == [c \in Channels |-> IF IsOrdered(c) THEN accepted[c] ELSE <<>>]

Delivered == [c \in Channels |-> IF IsOrdered(c) THEN wire[c] ELSE <<>>]

Fifo == INSTANCE FifoChannels WITH
    TooLong <- Oversized, sent <- Sent, delivered <- Delivered

\* "An OrderedReliable channel ensures that messages sent are delivered, and are
\* processed by the receiving end in the same order as they were sent"
\* (channels.rs:35), here as far as the stream: whichever signal interrupts the
\* task, and whatever payload is too long, nothing is overtaken or written twice.
ImplementsFifo == Fifo!Spec

\* A connection ordered to close and dropped does close, with all its tasks.
DroppedCloses ==
    dropped ~> (conn # "open" /\ spawner = "done" /\ \A c \in Channels : ~Alive(c))

\* peer_connection.rs:233, "Before trully closing, the connection will wait for
\* all buffered messages in all its opened channels to be properly sent", of the
\* channels the peer reads.
CloseFlushesAll ==
    conn = "closed" /\ orders = <<"LocalOrder">> =>
        \A c \in Clean \ stopped : ToSet(accepted[c]) \subseteq ToSet(wire[c])
=============================================================================
