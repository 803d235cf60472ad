---------------------------- MODULE FifoChannels ----------------------------
(***************************************************************************)
(* What OrderedReliable channels promise (src/src/shared/channels.rs): the *)
(* payloads a channel accepts reach the peer's stream in the order they    *)
(* were accepted, none skipped but those it cannot carry and none twice,   *)
(* as long as it delivers at all.                                          *)
(***************************************************************************)
EXTENDS Naturals, Sequences, SequencesExt

CONSTANTS
    Channels,
    Payloads,           \* what may be sent, each of them once
    TooLong             \* those no frame can carry

VARIABLES
    sent,               \* sent[c]: the payloads c accepted, in order
    delivered           \* delivered[c]: those written to its stream, in order

Init ==
    /\ sent = [c \in Channels |-> <<>>]
    /\ delivered = [c \in Channels |-> <<>>]

Accept(c, m) ==
    /\ \A d \in Channels : m \notin ToSet(sent[d])
    /\ sent' = [sent EXCEPT ![c] = Append(@, m)]
    /\ UNCHANGED delivered

\* What c has yet to deliver of what can be delivered.
Owed(c) == ToSet(sent[c]) \ (TooLong \cup ToSet(delivered[c]))

\* The i-th payload of c is the oldest one it owes.
Deliver(c, i) ==
    /\ i \in 1..Len(sent[c]) /\ sent[c][i] \in Owed(c)
    /\ \A j \in 1..(i - 1) : sent[c][j] \notin Owed(c)
    /\ delivered' = [delivered EXCEPT ![c] = Append(@, sent[c][i])]
    /\ UNCHANGED sent

Next ==
    \E c \in Channels :
        \/ \E m \in Payloads : Accept(c, m)
        \/ \E i \in 1..Len(sent[c]) : Deliver(c, i)

Spec == Init /\ [][Next]_<<sent, delivered>>
=============================================================================
