---------------------------- MODULE RecvChannels ----------------------------
(***************************************************************************)
(* The receiving half of one PeerConnection: the receiver tasks of         *)
(* src/src/shared/channels/reliable/recv.rs and unreliable/recv.rs, the    *)
(* queue they share, the buffers of                                        *)
(* src/src/shared/peer_connection/recv_channels.rs and the systems that    *)
(* fill and clear them once per update, on the client and on the server.   *)
(*                                                                         *)
(* The n-th payload the peer sends on channel c is <<c, n>>.               *)
(***************************************************************************)
EXTENDS Naturals, Sequences, FiniteSets, SequencesExt

CONSTANTS
    Channels,           \* the channel ids the peer uses
    Ordered,            \* those of them that are OrderedReliable
    Unreliable,         \* those that are Unreliable
    MaxSent,            \* bound: payloads the peer sends on any channel
    Limit,              \* bound: payloads the peer sends on each
    MaxResets,          \* bound: connections that take the place of this one
    QueueSize,          \* DEFAULT_MESSAGE_QUEUE_SIZE
    MaxBuffered,        \* max_buffered_payloads_count_per_channel
    MaxRecvChannels,    \* max_receive_channels_count
    Overlong,           \* payloads whose frames the decoder refuses
    Undecodable,        \* the channels whose payloads are no messages
    ClearStale,         \* clear_stale_received_payloads
    OnServer            \* which of the two sides this is

ASSUME RecvAssumption ==
    /\ Channels \subseteq Nat
    /\ Ordered \subseteq Channels
    /\ Unreliable \subseteq Channels \ Ordered
    /\ Overlong \subseteq (Channels \ Unreliable) \X (1..MaxSent)
    /\ Undecodable \subseteq Channels
    /\ MaxSent \in Nat /\ MaxResets \in Nat
    /\ Limit \in [Channels -> 0..MaxSent]
    /\ QueueSize \in Nat \ {0}
    /\ MaxBuffered \in Nat /\ MaxRecvChannels \in Nat
    /\ ClearStale \in BOOLEAN /\ OnServer \in BOOLEAN

VARIABLES
    state,          \* "up", or "down" once disconnected: on the server a
                    \* connection that is down is in no table
    resets,         \* how many times it was reset
    sent,           \* sent[c]: how many payloads the peer sent on c
    starts,         \* starts[c]: the first payloads after it closed c and opened a
                    \* channel that took the same id
    pending,        \* pending[c]: those that are still on their way
    cut,            \* those a decoder refused on this connection, and so ended their
                    \* stream
    receiving,      \* whether the receiver tasks are there
    incoming,       \* bytes_from_peer_recv
    opened,         \* the length of the vector recv_channels_payloads
    buffers,        \* buffers[c]: what it holds at c
    read,           \* read[c]: the payloads the user received, in order
    refused,        \* those a RecvChannelErrorEvent was raised for, or receive_message
                    \* returned an error for
    cleared,        \* those cleared as stale
    gone,           \* those that went with a connection
    cutOff,         \* those a decoder refused, and those behind them in their stream
    frame,          \* "systems" while those of PreUpdate run, "dispatching" inside
                    \* dispatch_received_payloads, then "update"
    todo,           \* the systems of PreUpdate that have yet to run
    connClear,      \* clear_stale_received_payloads of the connection
    endpointClear   \* the same of the server's endpoint

netVars  == <<sent, starts, pending, cut, receiving>>
bufVars  == <<opened, buffers>>
sinkVars == <<read, refused, cleared, gone, cutOff>>
frameVars == <<frame, todo>>
cfgVars  == <<connClear, endpointClear>>
vars == <<state, resets, netVars, incoming, bufVars, sinkVars, frameVars, cfgVars>>

Payloads == Channels \X (1..MaxSent)

TypeOK ==
    /\ state \in {"up", "down"}
    /\ resets \in 0..MaxResets
    /\ sent \in [Channels -> 0..MaxSent]
    /\ starts \in [Channels -> SUBSET (1..MaxSent)]
    /\ pending \in [Channels -> SUBSET (1..MaxSent)]
    /\ cut \subseteq Payloads
    /\ receiving \in BOOLEAN
    /\ incoming \in Seq(Payloads) /\ Len(incoming) <= QueueSize
    /\ opened \in Nat
    /\ buffers \in [Channels -> Seq(1..MaxSent)]
    /\ read \in [Channels -> Seq(1..MaxSent)]
    /\ refused \subseteq Payloads
    /\ cleared \subseteq Payloads
    /\ gone \subseteq Payloads
    /\ cutOff \subseteq Payloads
    /\ frame \in {"systems", "dispatching", "update"}
    /\ todo \subseteq {"events", "dispatch"}
    /\ connClear \in BOOLEAN /\ endpointClear \in BOOLEAN

Init ==
    /\ state = "up" /\ resets = 0
    /\ sent = [c \in Channels |-> 0]
    /\ starts = [c \in Channels |-> {}]
    /\ pending = [c \in Channels |-> {}]
    /\ cut = {}
    /\ receiving = TRUE
    /\ incoming = <<>>
    /\ opened = 0
    /\ buffers = [c \in Channels |-> <<>>]
    /\ read = [c \in Channels |-> <<>>]
    /\ refused = {} /\ cleared = {} /\ gone = {} /\ cutOff = {}
    /\ frame = "update" /\ todo = {}
    /\ connClear = ClearStale /\ endpointClear = ClearStale

Buffered(c) == {<<c, n>> : n \in ToSet(buffers[c])}
OnTheWay(c) == {<<c, n>> : n \in pending[c]}
ReadOn(c)   == {<<c, n>> : n \in ToSet(read[c])}

\* Payload m of channel c precedes n in one stream.
Precedes(c, m, n) == m < n /\ \A k \in starts[c] : ~(m < k /\ k <= n)

-----------------------------------------------------------------------------
(* The network and the receiver tasks.                                     *)

\* The stream of payload n of channel c ended before it: only an ordered channel has
\* one stream for many payloads.
IsCut(c, n) ==
    c \in Ordered /\ \E m \in 1..MaxSent : <<c, m>> \in cut /\ Precedes(c, m, n)

\* External: the peer writes its next payload to a stream, or in a datagram.
PeerSends(c) ==
    /\ receiving
    /\ sent[c] < Limit[c]
    /\ sent' = [sent EXCEPT ![c] = @ + 1]
    /\ IF IsCut(c, sent[c] + 1)
       THEN cutOff' = cutOff \cup {<<c, sent[c] + 1>>} /\ UNCHANGED pending
       ELSE pending' = [pending EXCEPT ![c] = @ \cup {sent[c] + 1}] /\ UNCHANGED cutOff
    /\ UNCHANGED <<state, resets, starts, cut, receiving, incoming, bufVars, read, refused,
                   cleared, gone, frameVars, cfgVars>>

\* External: the peer closes channel c, and opens one that is given its id.  It
\* makes a difference when there is one stream for the payloads of a channel.
PeerReopens(c) ==
    /\ receiving
    /\ c \in Ordered
    /\ sent[c] \in 1..(Limit[c] - 1)
    /\ starts' = [starts EXCEPT ![c] = @ \cup {sent[c] + 1}]
    /\ UNCHANGED <<state, resets, sent, pending, cut, receiving, incoming, bufVars, sinkVars,
                   frameVars, cfgVars>>

\* External: a datagram is lost.
LoseDatagram(c) ==
    /\ c \in Unreliable
    /\ \E n \in pending[c] :
          /\ pending' = [pending EXCEPT ![c] = @ \ {n}]
          /\ gone' = gone \cup {<<c, n>>}
    /\ UNCHANGED <<state, resets, sent, starts, cut, receiving, incoming, bufVars, read, refused,
                   cleared, cutOff, frameVars, cfgVars>>

\* A task per payload, for the ordered channels too.
MutReceive(c) ==
    /\ receiving
    /\ Len(incoming) < QueueSize
    /\ \E n \in pending[c] :
          /\ <<c, n>> \notin Overlong
          /\ pending' = [pending EXCEPT ![c] = @ \ {n}]
          /\ incoming' = Append(incoming, <<c, n>>)
    /\ UNCHANGED <<state, resets, sent, starts, cut, receiving, bufVars, sinkVars, frameVars,
                   cfgVars>>

\* A receiver task that does not wait for room.
MutReceiveUnbounded(c) ==
    /\ receiving
    /\ \E n \in pending[c] :
          /\ <<c, n>> \notin Overlong
          /\ c \in Ordered => \A m \in pending[c] : ~Precedes(c, m, n)
          /\ pending' = [pending EXCEPT ![c] = @ \ {n}]
          /\ incoming' = Append(incoming, <<c, n>>)
    /\ UNCHANGED <<state, resets, sent, starts, cut, receiving, bufVars, sinkVars, frameVars,
                   cfgVars>>

\* A receiver task hands a payload over, waiting for room in the queue.  An
\* ordered channel has one stream and one task for it, and so has the channel that
\* takes its id while the first stream is still read; an unordered one has a stream
\* and a task for each payload, and datagrams come in any order.
Receive(c) ==
    /\ receiving
    /\ Len(incoming) < QueueSize
    /\ \E n \in pending[c] :
          /\ <<c, n>> \notin Overlong
          /\ c \in Ordered => \A m \in pending[c] : ~Precedes(c, m, n)
          /\ pending' = [pending EXCEPT ![c] = @ \ {n}]
          /\ incoming' = Append(incoming, <<c, n>>)
    /\ UNCHANGED <<state, resets, sent, starts, cut, receiving, bufVars, sinkVars, frameVars,
                   cfgVars>>

\* The decoder refuses a frame: the task of the stream ends without a word, and
\* nothing that is behind it in the stream is read.
DecodeFails(c) ==
    /\ receiving
    /\ \E n \in pending[c] :
          /\ <<c, n>> \in Overlong
          /\ c \in Ordered => \A m \in pending[c] : ~Precedes(c, m, n)
          /\ LET behind == {m \in pending[c] : c \in Ordered /\ Precedes(c, n, m)} IN
                /\ pending' = [pending EXCEPT ![c] = @ \ ({n} \cup behind)]
                /\ cutOff' = cutOff \cup ({c} \X ({n} \cup behind))
          /\ cut' = cut \cup {<<c, n>>}
    /\ UNCHANGED <<state, resets, sent, starts, receiving, incoming, bufVars, read, refused,
                   cleared, gone, frameVars, cfgVars>>

\* The receiver tasks hear the close signal, or find the connection closed.
ReceiversEnd ==
    /\ receiving
    /\ state = "down"
    /\ receiving' = FALSE
    /\ gone' = gone \cup UNION {OnTheWay(c) : c \in Channels}
    /\ pending' = [c \in Channels |-> {}]
    /\ UNCHANGED <<state, resets, sent, starts, cut, incoming, bufVars, read, refused, cleared,
                   cutOff, frameVars, cfgVars>>

-----------------------------------------------------------------------------
(* PreUpdate.  Nothing orders the system that handles the events and the   *)
(* one that dispatches the payloads.                                       *)

\* handle_client_events or handle_server_events: the connection is reported
\* lost, or it is not.
HandleEvents ==
    /\ frame = "systems"
    /\ "events" \in todo
    /\ todo' = todo \ {"events"}
    /\ state' \in {state, "down"}
    /\ UNCHANGED <<resets, netVars, incoming, bufVars, sinkVars, frame, cfgVars>>

BeginDispatch ==
    /\ frame = "systems"
    /\ "dispatch" \in todo
    /\ todo' = todo \ {"dispatch"}
    /\ frame' = "dispatching"
    /\ UNCHANGED <<state, resets, netVars, incoming, bufVars, sinkVars, cfgVars>>

\* An off-by-one in each bound.
MutFits(c) ==
    IF c < opened THEN Len(buffers[c]) <= MaxBuffered ELSE c <= MaxRecvChannels

\* Channel c has room for one more payload.  A channel the vector does not reach
\* yet gets its first payload with the entry, whatever MaxBuffered is.
Fits(c) ==
    IF c < opened THEN Len(buffers[c]) < MaxBuffered ELSE c < MaxRecvChannels

\* A loop that stops at a payload for a full channel.
MutDispatchPayload ==
    /\ frame = "dispatching"
    /\ state = "up"
    /\ incoming # <<>>
    /\ LET c == Head(incoming)[1]
           n == Head(incoming)[2]
       IN IF Fits(c)
          THEN /\ buffers' = [buffers EXCEPT ![c] = Append(@, n)]
               /\ opened' = IF c < opened THEN opened ELSE c + 1
               /\ incoming' = Tail(incoming)
               /\ UNCHANGED frame
          ELSE /\ frame' = "systems"
               /\ UNCHANGED <<bufVars, incoming>>
    /\ UNCHANGED <<state, resets, netVars, sinkVars, todo, cfgVars>>

\* One turn of dispatch_received_payloads_to_channel_buffers.
DispatchPayload ==
    /\ frame = "dispatching"
    /\ state = "up"
    /\ incoming # <<>>
    /\ LET c == Head(incoming)[1]
           n == Head(incoming)[2]
       IN IF Fits(c)
          THEN /\ buffers' = [buffers EXCEPT ![c] = Append(@, n)]
               /\ opened' = IF c < opened THEN opened ELSE c + 1
               /\ UNCHANGED refused
          ELSE /\ refused' = refused \cup {Head(incoming)}
               /\ UNCHANGED bufVars
    /\ incoming' = Tail(incoming)
    /\ UNCHANGED <<state, resets, netVars, read, cleared, gone, cutOff, frameVars, cfgVars>>

\* The queue is empty, or nothing is dispatched for the connection is down.
DispatchDone ==
    /\ frame = "dispatching"
    /\ incoming = <<>> \/ state = "down"
    /\ frame' = "systems"
    /\ UNCHANGED <<state, resets, netVars, incoming, bufVars, sinkVars, todo, cfgVars>>

BeginUpdate ==
    /\ frame = "systems"
    /\ todo = {}
    /\ frame' = "update"
    /\ UNCHANGED <<state, resets, netVars, incoming, bufVars, sinkVars, todo, cfgVars>>

-----------------------------------------------------------------------------
(* The user's calls, and Last.                                             *)

\* receive_payload
ReceivePayload(c) ==
    /\ frame = "update"
    /\ state = "up"
    /\ buffers[c] # <<>>
    /\ read' = [read EXCEPT ![c] = Append(@, Head(buffers[c]))]
    /\ buffers' = [buffers EXCEPT ![c] = Tail(@)]
    /\ UNCHANGED <<state, resets, netVars, incoming, opened, refused, cleared, gone, cutOff,
                   frameVars, cfgVars>>

\* receive_message: a payload that cannot be decoded is taken all the same.
ReceiveMessageFails(c) ==
    /\ frame = "update"
    /\ state = "up"
    /\ c \in Undecodable
    /\ buffers[c] # <<>>
    /\ refused' = refused \cup {<<c, Head(buffers[c])>>}
    /\ buffers' = [buffers EXCEPT ![c] = Tail(@)]
    /\ UNCHANGED <<state, resets, netVars, incoming, opened, read, cleared, gone, cutOff,
                   frameVars, cfgVars>>

ClearAll ==
    /\ cleared' = cleared \cup UNION {Buffered(c) : c \in Channels}
    /\ buffers' = [c \in Channels |-> <<>>]

\* clear_received_payloads, a call of the user; the buffers that are down can
\* only be cleared on the client.
ClearReceivedPayloads ==
    /\ frame = "update"
    /\ OnServer => state = "up"
    /\ ClearAll
    /\ UNCHANGED <<state, resets, netVars, incoming, opened, read, refused, gone, cutOff,
                   frameVars, cfgVars>>

SetConnClear ==
    /\ frame = "update"
    /\ OnServer => state = "up"
    /\ connClear' = ~connClear
    /\ UNCHANGED <<state, resets, netVars, incoming, bufVars, sinkVars, frameVars,
                   endpointClear>>

SetEndpointClear ==
    /\ OnServer
    /\ frame = "update"
    /\ endpointClear' = ~endpointClear
    /\ UNCHANGED <<state, resets, netVars, incoming, bufVars, sinkVars, frameVars, connClear>>

\* clear_stale_received_payloads, in Last: the client asks each connection for
\* its flag, the server asks the endpoint.
EndUpdate ==
    /\ frame = "update"
    /\ frame' = "systems"
    /\ todo' = {"events", "dispatch"}
    /\ IF (OnServer /\ state = "up" /\ endpointClear) \/ (~OnServer /\ connClear)
       THEN ClearAll ELSE UNCHANGED <<cleared, buffers>>
    /\ UNCHANGED <<state, resets, netVars, incoming, opened, read, refused, gone, cutOff, cfgVars>>

Disconnect ==
    /\ frame = "update"
    /\ state' = "down"
    /\ UNCHANGED <<resets, netVars, incoming, bufVars, sinkVars, frameVars, cfgVars>>

\* A reset that keeps the buffers.
MutReset ==
    /\ frame = "update"
    /\ state = "down"
    /\ resets < MaxResets
    /\ resets' = resets + 1
    /\ state' = "up"
    /\ receiving' = TRUE
    /\ gone' = gone \cup ToSet(incoming)
                    \cup UNION {OnTheWay(c) \cup Buffered(c) : c \in Channels}
    /\ pending' = [c \in Channels |-> {}]
    /\ cut' = {}
    /\ incoming' = <<>>
    /\ connClear' = IF OnServer THEN ClearStale ELSE connClear
    /\ UNCHANGED <<sent, starts, bufVars, read, refused, cleared, cutOff, frameVars,
                   endpointClear>>

\* On the client reconnect, internal_reset; on the server the PeerConnection of
\* the peer's next connection.
Reset ==
    /\ frame = "update"
    /\ state = "down"
    /\ resets < MaxResets
    /\ resets' = resets + 1
    /\ state' = "up"
    /\ receiving' = TRUE
    /\ gone' = gone \cup ToSet(incoming)
                    \cup UNION {OnTheWay(c) \cup Buffered(c) : c \in Channels}
    /\ pending' = [c \in Channels |-> {}]
    /\ cut' = {}
    /\ incoming' = <<>>
    /\ opened' = 0
    /\ buffers' = [c \in Channels |-> <<>>]
    /\ connClear' = IF OnServer THEN ClearStale ELSE connClear
    /\ UNCHANGED <<sent, starts, read, refused, cleared, cutOff, frameVars, endpointClear>>

-----------------------------------------------------------------------------

Systems ==
    \/ HandleEvents \/ BeginDispatch \/ DispatchPayload \/ DispatchDone
    \/ BeginUpdate \/ EndUpdate

User ==
    \/ \E c \in Channels : ReceivePayload(c) \/ ReceiveMessageFails(c)
    \/ ClearReceivedPayloads \/ SetConnClear \/ SetEndpointClear
    \/ Disconnect \/ Reset

Next ==
    \/ \E c \in Channels : PeerSends(c) \/ PeerReopens(c) \/ LoseDatagram(c)
    \/ \E c \in Channels : Receive(c) \/ DecodeFails(c)
    \/ ReceiversEnd
    \/ Systems
    \/ User

\* The runtime runs every receiver task that can run (a full tokio queue serves
\* its waiting senders in turn), and the app runs its updates.  The user need
\* not read anything.
Fairness ==
    /\ \A c \in Channels : SF_vars(Receive(c)) /\ WF_vars(DecodeFails(c))
    /\ WF_vars(ReceiversEnd)
    /\ WF_vars(Systems)
    /\ WF_vars(frame = "update" /\ EndUpdate)

Spec == Init /\ [][Next]_vars

FairSpec == Spec /\ Fairness

-----------------------------------------------------------------------------
(* Properties.                                                             *)

\* On an OrderedReliable channel the user reads the payloads in the order they
\* were sent, across full queues and buffers, stale payloads and reconnections, as
\* long as the channel's id is not given to another: then only each channel's own
\* payloads are in order, for the last of the old stream may come after the first of
\* the new (channels.rs:35, recv.rs:44-59, recv_channels.rs:51-108).
ReadInOrder ==
    \A c \in Ordered :
        LET dispatched == read[c] \o buffers[c]
            arrived == [i \in DOMAIN dispatched |-> <<c, dispatched[i]>>] \o incoming
            mine == {i \in DOMAIN arrived : arrived[i][1] = c}
        IN \A i \in mine :
              /\ \A j \in mine : j < i => ~Precedes(c, arrived[i][2], arrived[j][2])
              /\ \A n \in pending[c] : ~Precedes(c, n, arrived[i][2])

\* A payload that was sent is in one place: nothing is handed out twice, none
\* gets lost but with its connection, in a datagram, in a clearing the user asked
\* for, with an error event, or with a stream whose decoder refused it or one before
\* it, and none is read after its connection was reset.  A channel that takes the id
\* of one whose stream ended loses nothing by that (recv.rs:51-59,
\* recv_channels.rs:51-108, peer_connection.rs:266-283).
EveryPayloadInOnePlace ==
    /\ IsInjective(incoming)
    /\ \A c \in Channels :
          /\ IsInjective(buffers[c]) /\ IsInjective(read[c])
          /\ \A p \in {c} \X (1..sent[c]) :
                Cardinality({i \in 1..8 :
                    p \in <<OnTheWay(c), ToSet(incoming), Buffered(c), ReadOn(c),
                            refused, cleared, gone, cutOff>>[i]}) = 1
    /\ \A p \in cutOff \ Overlong :
          \E m \in 1..MaxSent : /\ <<p[1], m>> \in cutOff \cap Overlong
                                /\ Precedes(p[1], m, p[2])

\* recv_channels.rs:23-26, "Maximum number of payloads that can be buffered per
\* receive channel".
BufferBounded == \A c \in Channels : Len(buffers[c]) <= MaxBuffered

\* recv_channels.rs:25-26, "Maximum number of receive channels that can be opened
\* on this connection".
ChannelsBounded == opened <= MaxRecvChannels

\* A channel nobody reads does not hold up the others, nor itself: whatever is on
\* its way on a reliable channel leaves the network while the connection is up
\* (recv.rs:51-59, recv_channels.rs:71-108).
PayloadsArrive ==
    \A c \in Channels \ Unreliable, n \in 1..MaxSent :
        n \in pending[c] ~> n \notin pending[c]
=============================================================================
