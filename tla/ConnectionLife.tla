--------------------------- MODULE ConnectionLife ---------------------------
(***************************************************************************)
(* What a ClientSideConnection promises its user: the states it goes       *)
(* through and the events it raises, with nothing of the tasks and queues  *)
(* that bring them about.                                                  *)
(***************************************************************************)
EXTENDS Naturals, Sequences

CONSTANT Connections

States == {"Connecting", "Connected", "Disconnected"}
Events == {"Connection", "Failed", "Lost"}

VARIABLES
    life,   \* life[c]: its ConnectionState, or "unborn" or "closed" when IrohClient
            \* does not hold it yet or any more
    told    \* told[c]: while it is held, the events raised of its last attempt

vars == <<life, told>>

Held == {c \in Connections : life[c] \in States}

\* Whether the attempt's ConnectionEvent or ConnectionFailedEvent was raised.
Resolved(c) == \E i \in 1..Len(told[c]) : told[c][i] \in {"Connection", "Failed"}

Init ==
    /\ life = [c \in Connections |-> "unborn"]
    /\ told = [c \in Connections |-> <<>>]

Become(c, state) == life' = [life EXCEPT ![c] = state]

\* The user's calls.
Open(c) ==
    /\ life[c] = "unborn"
    /\ Become(c, "Connecting")
    /\ UNCHANGED told

Reconnect(c) ==
    /\ life[c] = "Disconnected"
    /\ Become(c, "Connecting")
    /\ told' = [told EXCEPT ![c] = <<>>]

Disconnect(c) ==
    /\ life[c] \in {"Connecting", "Connected"}
    /\ Become(c, "Disconnected")
    /\ UNCHANGED told

Close(C) ==
    /\ C \subseteq Held
    /\ life' = [c \in Connections |-> IF c \in C THEN "closed" ELSE life[c]]
    /\ told' = [c \in Connections |-> IF c \in C THEN <<>> ELSE told[c]]

\* An event, with the state it leaves.  A disconnected connection may still be
\* told of the outcome of its attempt, but not that it is lost.
Tell(c, event, state) ==
    /\ Become(c, state)
    /\ told' = [told EXCEPT ![c] = Append(@, event)]

Connects(c) == c \in Held /\ ~Resolved(c) /\ Tell(c, "Connection", "Connected")
Fails(c)    == c \in Held /\ ~Resolved(c) /\ Tell(c, "Failed", "Disconnected")
Loses(c)    == life[c] \in {"Connecting", "Connected"} /\ Tell(c, "Lost", "Disconnected")

Next ==
    \/ \E C \in SUBSET Held : Close(C)
    \/ \E c \in Connections :
          \/ Open(c) \/ Reconnect(c) \/ Disconnect(c)
          \/ Connects(c) \/ Fails(c) \/ Loses(c)

Spec == Init /\ [][Next]_vars
=============================================================================
