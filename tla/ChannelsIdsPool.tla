--------------------------- MODULE ChannelsIdsPool ---------------------------
(***************************************************************************)
(* ChannelsIdsPool (src/src/shared/peer_connection.rs): the channel ids a  *)
(* connection or an endpoint may still hand out, and its default channel.  *)
(***************************************************************************)
EXTENDS Naturals

CONSTANTS
    Ids,        \* the channel ids, 0..u8::MAX in the code
    NoChannel   \* the default channel when there is none

ASSUME IdsAssumption == Ids \subseteq Nat /\ NoChannel \notin Ids

VARIABLES
    available,  \* available_channel_ids
    default     \* default_channel

PoolVars == <<available, default>>

PoolTypeOK ==
    /\ available \subseteq Ids
    /\ default \in Ids \cup {NoChannel}

\* A new pool from which the channels C of a configuration have been taken, in
\* increasing order.
PoolAfterTaking(C, av, df) ==
    /\ av = Ids \ C
    /\ df \in C \cup {NoChannel}
    /\ df = NoChannel => C = {}
    /\ \A c \in C : df <= c

\* A pool that hands out its first id without taking it out.
MutTakeId(c) ==
    /\ c \in available
    /\ \A d \in available : c <= d
    /\ available' = available
    /\ default' = IF default = NoChannel THEN c ELSE default

\* take_id: c is the smallest available id; the first one taken becomes the
\* default channel.
TakeId(c) ==
    /\ c \in available
    /\ \A d \in available : c <= d
    /\ available' = available \ {c}
    /\ default' = IF default = NoChannel THEN c ELSE default

\* A release that leaves a released id as the default.
MutReleaseId(c) ==
    /\ available' = available \cup {c}
    /\ UNCHANGED default

ReleaseId(c) ==
    /\ available' = available \cup {c}
    /\ default' = IF default = c THEN NoChannel ELSE default

SetDefaultChannel(c) ==
    /\ default' = c
    /\ UNCHANGED available
=============================================================================
