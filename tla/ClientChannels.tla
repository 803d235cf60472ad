--------------------------- MODULE ClientChannels ---------------------------
(***************************************************************************)
(* The channel table of a ClientSideConnection: open_channel and           *)
(* close_channel (src/src/client/connection.rs) over the id pool and the   *)
(* send_channels vector of src/src/shared/peer_connection.rs.  Of the      *)
(* tasks only two facts matter here: how many CreateChannel messages wait, *)
(* and which open channels have lost the task that listens to them.  Calls *)
(* refused at once, for want of an id or of an open channel, change        *)
(* nothing and are left out.                                               *)
(***************************************************************************)
EXTENDS ChannelsIdsPool, FiniteSets

CONSTANTS
    Configured,     \* ids of the channels of the SendChannelsConfiguration
    CreateQueueSize \* DEFAULT_QCHANNEL_MESSAGES_CHANNEL_SIZE

ASSUME ConfiguredAssumption ==
    /\ Configured \subseteq Ids
    /\ \A c \in Configured, d \in Ids \ Configured : c < d
    /\ IsFiniteSet(Configured)
    /\ CreateQueueSize \in Nat
    /\ Cardinality(Configured) <= CreateQueueSize

VARIABLES
    slots,      \* slots[c]: send_channels at c: "absent" past its end, "none" or
                \* "open"
    orphans,    \* the open channels whose task is gone, and its receivers with it
    spawner,    \* whether somebody holds the queue of CreateChannel messages
    creating    \* how many CreateChannel messages wait in it

vars == <<PoolVars, slots, orphans, spawner, creating>>

OpenIds == {c \in Ids : slots[c] = "open"}

TypeOK ==
    /\ PoolTypeOK
    /\ slots \in [Ids -> {"absent", "none", "open"}]
    /\ orphans \subseteq Ids
    /\ spawner \in {"alive", "gone"}
    /\ creating \in 0..CreateQueueSize

\* A new connection, or a reset one, after open_configured_channels: the ids of
\* the configuration are taken in order, one CreateChannel each.
Fresh(av, df, sl, orp, sp, cr) ==
    /\ PoolAfterTaking(Configured, av, df)
    /\ sl = [c \in Ids |-> IF c \in Configured THEN "open" ELSE "absent"]
    /\ orp = {}
    /\ sp = "alive"
    /\ cr = Cardinality(Configured)

Init == Fresh(available, default, slots, orphans, spawner, creating)

\* register_connection_channel: the vector grows up to c.
Register(c) ==
    slots' = [d \in Ids |-> IF d = c THEN "open"
                            ELSE IF d < c /\ slots[d] = "absent" THEN "none"
                            ELSE slots[d]]

\* An open_channel that does not look at the queue of CreateChannel messages.
MutOpenChannel(c) ==
    /\ TakeId(c)
    /\ spawner = "alive"
    /\ creating' = creating + 1
    /\ Register(c)
    /\ UNCHANGED <<orphans, spawner>>

\* open_channel succeeds.
OpenChannel(c) ==
    /\ TakeId(c)
    /\ spawner = "alive"
    /\ creating < CreateQueueSize
    /\ creating' = creating + 1
    /\ Register(c)
    /\ UNCHANGED <<orphans, spawner>>

\* open_channel took an id, but the CreateChannel message cannot be sent: the
\* error is returned and the id stays taken.
OpenChannelFails(c) ==
    /\ TakeId(c)
    /\ spawner = "gone" \/ creating = CreateQueueSize
    /\ UNCHANGED <<slots, orphans, spawner, creating>>

\* close_channel succeeds: the channel is taken out of its slot and signalled,
\* and its id released.
CloseChannel(c) ==
    /\ slots[c] = "open"
    /\ c \notin orphans
    /\ slots' = [slots EXCEPT ![c] = "none"]
    /\ ReleaseId(c)
    /\ UNCHANGED <<orphans, spawner, creating>>

\* The channel is taken out, but nobody hears the signal: close_channel returns
\* before it releases the id.
CloseOrphan(c) ==
    /\ slots[c] = "open"
    /\ c \in orphans
    /\ slots' = [slots EXCEPT ![c] = "none"]
    /\ orphans' = orphans \ {c}
    /\ UNCHANGED <<PoolVars, spawner, creating>>

\* set_default_channel takes any id, open or not.
SetDefault(c) ==
    /\ SetDefaultChannel(c)
    /\ UNCHANGED <<slots, orphans, spawner, creating>>

\* The spawner takes a CreateChannel message.
TakeCreate ==
    /\ spawner = "alive"
    /\ creating > 0
    /\ creating' = creating - 1
    /\ UNCHANGED <<PoolVars, slots, orphans, spawner>>

\* The task of an open channel panics, for its stream cannot be opened.
TaskEnds(c) ==
    /\ slots[c] = "open"
    /\ orphans' = orphans \cup {c}
    /\ UNCHANGED <<PoolVars, slots, spawner, creating>>

\* The connection task or the spawner ends, after every channel task.
SpawnerEnds ==
    /\ spawner = "alive"
    /\ spawner' = "gone"
    /\ creating' = 0
    /\ orphans' = OpenIds
    /\ UNCHANGED <<PoolVars, slots>>

\* reconnect: a new pool and vector, and the configured channels again.
Reconnect == Fresh(available', default', slots', orphans', spawner', creating')

Next ==
    \/ \E c \in Ids :
          \/ OpenChannel(c) \/ OpenChannelFails(c)
          \/ CloseChannel(c) \/ CloseOrphan(c)
          \/ SetDefault(c) \/ TaskEnds(c)
    \/ TakeCreate
    \/ SpawnerEnds
    \/ Reconnect

Spec == Init /\ [][Next]_vars

-----------------------------------------------------------------------------
(* Properties.                                                             *)

\* The id of an open channel is not available: open_channel never overwrites a
\* channel that is in use (peer_connection.rs:58-76 and 222-231).
OpenIdsAreTaken == OpenIds \cap available = {}

\* The default channel that open_channel chose, or the user among the open ones,
\* stays out of the pool through closes, failures and resets: payloads sent with
\* no channel given go to a channel opened later, under the same id and for
\* another use, only if the user named an id that was free as the default
\* (peer_connection.rs:57-82, client/connection.rs:203-224).
DefaultStaysTaken ==
    [][default \notin available /\ default' \in available'
          => \E c \in available : SetDefault(c)]_vars
=============================================================================
