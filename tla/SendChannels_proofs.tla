------------------------- MODULE SendChannels_proofs -------------------------
(***************************************************************************)
(* Proofs about the sending half of a connection, for every number of      *)
(* channels and payloads, every size of the queues, every set of payloads  *)
(* too long and both sides: nothing is written twice, nothing is lost      *)
(* silently, and each ordered channel implements FifoChannels.             *)
(***************************************************************************)
EXTENDS SendChannels, SequenceTheorems, TLAPS

Increasing(s) == \A i, j \in 1..Len(s) : i < j => s[i] < s[j]

Queued(c) == ToSet(queue[c])
Framed(c) == ToSet(buffer[c])
Written(c) == ToSet(wire[c])

\* The channels of the CreateChannel messages are distinct, were opened, and have
\* no task; a channel that was not opened has nothing at all.
CreatingShape ==
    /\ Increasing(creating)
    /\ \A c \in ToSet(creating) : c <= opened /\ task[c] = "unborn"
    /\ \A c \in Channels : c > opened =>
          /\ kind[c] = "none" /\ accepted[c] = <<>> /\ c \notin registered /\ task[c] = "unborn"

\* Payloads are numbered in the order in which they are accepted.
Numbered ==
    \A c \in Channels :
        /\ Increasing(accepted[c])
        /\ \A m \in ToSet(accepted[c]) : m <= numAccepted

\* Where the payloads of a channel are: at most at one place, in order where the
\* channel is ordered.
PlacesOf(c) ==
    /\ Queued(c) \cup Framed(c) \cup Written(c) \cup Handed(c) \subseteq ToSet(accepted[c])
    /\ Increasing(queue[c]) /\ Increasing(buffer[c]) /\ IsInjective(wire[c])
    /\ \A m \in Framed(c), n \in Queued(c) : m < n
    /\ IsOrdered(c) => \A m \in Written(c), n \in Framed(c) \cup Queued(c) : m < n
    /\ Written(c) \cap (Queued(c) \cup Framed(c) \cup Handed(c)) = {}
    /\ Handed(c) \cap Queued(c) = {}
    /\ \A p, q \in inflight[c] : p[1] = q[1] => p = q
    /\ buffer[c] # <<>> => IsOrdered(c)
    /\ inflight[c] # {} => ~IsOrdered(c)
    /\ Framed(c) \cap Oversized = {}

Places == \A c \in Channels : PlacesOf(c)

\* What a task leaves as it ends, and what it has before it runs; what the reason
\* of its end says.  A task told to close may still get payloads only after an
\* order, and once it found its queue empty it gets no others.
EndOf(c) ==
    /\ task[c] \in {"unborn", "opening", "running"} => reason[c] = "none"
    /\ task[c] = "done" => queue[c] = <<>>
    /\ task[c] \in {"unborn", "opening", "done"} => buffer[c] = <<>>
    /\ task[c] \in {"draining", "flushing"} =>
          reason[c] # "none" /\ (orders # <<>> \/ dropped \/ c \notin registered)
    /\ task[c] = "flushing" => reason[c] # "PeerClosed" /\ Queued(c) \subseteq late
    /\ \A p \in inflight[c] : p[2] = "drain" => reason[c] # "none"

TasksEnd == \A c \in Channels : EndOf(c)

\* The spawner stops for an order or a drop, and is done with every task ended.  A
\* connection that accepts payloads has heard one order at most.
SpawnerEnds ==
    /\ spawner # "listening" => orders # <<>> \/ dropped
    /\ spawner = "done" => conn # "open" /\ creating = <<>> /\ \A c \in Channels : ~Alive(c)
    /\ conn = "closed" => spawner = "done"
    /\ ~refuses => Len(orders) <= 1

\* As long as the connection works a payload is lost only to a task that was told
\* that the peer is gone, to a stream the peer stopped, to a task that ended as it
\* came, or to one that panicked after the connection was dropped.
LostTo(c, m) ==
    \/ reason[c] = "PeerClosed"
    \/ c \in stopped /\ (reported \/ reason[c] # "none" \/ dropped)
    \/ m \in late /\ task[c] = "done"
    \/ c \notin Clean /\ dropped /\ task[c] = "done"

KeptOf(c) == conn = "open" => \A m \in Sendable(c) \ Found(c) : LostTo(c, m)

Kept == \A c \in Channels : KeptOf(c)

IndInv ==
    /\ TypeOK /\ CreatingShape /\ Numbered /\ Places /\ TasksEnd /\ SpawnerEnds
    /\ Kept /\ CloseFlushesSpawned

-----------------------------------------------------------------------------
(* Facts about sequences.                                                  *)

\* What holds of the empty sequence.
LEMMA EmptyFacts == ToSet(<<>>) = {} /\ Increasing(<<>>) /\ IsInjective(<<>>)
  BY DEF ToSet, Increasing, IsInjective

\* The elements of a sequence.
LEMMA ToSetType ==
    ASSUME NEW S, NEW s \in Seq(S)
    PROVE  ToSet(s) \subseteq S /\ ToSet(s) = {s[i] : i \in 1..Len(s)}
  BY LenProperties, ElementOfSeq DEF ToSet

\* A sequence with one more element at its end.
LEMMA AppendFacts ==
    ASSUME NEW S, NEW s \in Seq(S), NEW e \in S
    PROVE  /\ Append(s, e) \in Seq(S) /\ Len(Append(s, e)) = Len(s) + 1 /\ Len(s) \in Nat
           /\ ToSet(Append(s, e)) = ToSet(s) \cup {e}
           /\ Increasing(s) /\ (\A m \in ToSet(s) : m < e) => Increasing(Append(s, e))
           /\ IsInjective(s) /\ e \notin ToSet(s) => IsInjective(Append(s, e))
<1>1. /\ Append(s, e) \in Seq(S) /\ Len(Append(s, e)) = Len(s) + 1 /\ Len(s) \in Nat
      /\ \A i \in 1..Len(s) : Append(s, e)[i] = s[i]
      /\ Append(s, e)[Len(s) + 1] = e
      /\ DOMAIN s = 1..Len(s) /\ DOMAIN Append(s, e) = 1..(Len(s) + 1)
  BY AppendProperties, LenProperties
<1>2. ToSet(Append(s, e)) = ToSet(s) \cup {e}
  BY <1>1 DEF ToSet
<1>3. ASSUME Increasing(s), \A m \in ToSet(s) : m < e PROVE Increasing(Append(s, e))
  BY <1>1, <1>3 DEF ToSet, Increasing
<1>4. ASSUME IsInjective(s), e \notin ToSet(s) PROVE IsInjective(Append(s, e))
  BY <1>1, <1>4 DEF ToSet, IsInjective
<1> QED
  BY <1>1, <1>2, <1>3, <1>4

\* A sequence of numbers without its first element.
LEMMA TailFacts ==
    ASSUME NEW S \in SUBSET Nat, NEW s \in Seq(S), s # <<>>
    PROVE  /\ Head(s) \in S /\ Tail(s) \in Seq(S) /\ Len(Tail(s)) <= Len(s)
           /\ ToSet(s) = {Head(s)} \cup ToSet(Tail(s))
           /\ Increasing(s) => /\ Increasing(Tail(s))
                               /\ \A m \in ToSet(Tail(s)) : Head(s) < m
<1>1. /\ Tail(s) \in Seq(S) /\ Len(Tail(s)) = Len(s) - 1 /\ Len(s) \in Nat \ {0}
      /\ \A i \in 1..Len(Tail(s)) : Tail(s)[i] = s[i + 1]
      /\ Head(s) \in S /\ Head(s) = s[1]
      /\ DOMAIN s = 1..Len(s) /\ DOMAIN Tail(s) = 1..(Len(s) - 1)
  BY HeadTailProperties, LenProperties, EmptySeq
<1>2. ToSet(s) = {Head(s)} \cup ToSet(Tail(s))
  <2>1. \A i \in 2..Len(s) : s[i] = Tail(s)[i - 1] /\ i - 1 \in 1..Len(Tail(s))
    BY <1>1
  <2>2. ToSet(s) = {s[1]} \cup {s[i] : i \in 2..Len(s)}
    BY <1>1 DEF ToSet
  <2>3. ToSet(Tail(s)) = {s[i] : i \in 2..Len(s)}
    <3>1. \A i \in 1..Len(Tail(s)) : Tail(s)[i] = s[i + 1] /\ i + 1 \in 2..Len(s)
      BY <1>1
    <3>2. \A m : m \in ToSet(Tail(s)) <=> \E i \in 1..Len(Tail(s)) : m = Tail(s)[i]
      BY <1>1 DEF ToSet
    <3>3. \A m : m \in ToSet(Tail(s)) <=> \E i \in 2..Len(s) : m = s[i]
      <4>1. ASSUME NEW m, m \in ToSet(Tail(s)) PROVE \E i \in 2..Len(s) : m = s[i]
        BY <3>1, <3>2, <4>1
      <4>2. ASSUME NEW i \in 2..Len(s) PROVE s[i] \in ToSet(Tail(s))
        BY <2>1, <3>2
      <4> QED
        BY <4>1, <4>2
    <3> QED
      BY <3>3
  <2> QED
    BY <1>1, <2>2, <2>3
<1>3. ASSUME Increasing(s)
      PROVE  Increasing(Tail(s)) /\ \A m \in ToSet(Tail(s)) : Head(s) < m
  BY <1>1, <1>3 DEF ToSet, Increasing
<1> QED
  BY <1>1, <1>2, <1>3

-----------------------------------------------------------------------------
(* The steps of the tasks.                                                 *)

\* A step of one channel's tasks changes nothing else.
LocalTo(c) ==
    /\ UNCHANGED <<syncVars, creating, spawner, missed, netVars>>
    /\ reported => reported'
    /\ queue' = [queue EXCEPT ![c] = queue'[c]]
    /\ task' = [task EXCEPT ![c] = task'[c]]
    /\ reason' = [reason EXCEPT ![c] = reason'[c]]
    /\ buffer' = [buffer EXCEPT ![c] = buffer'[c]]
    /\ inflight' = [inflight EXCEPT ![c] = inflight'[c]]
    /\ wire' = [wire EXCEPT ![c] = wire'[c]]

\* The part of TypeOK such a step can disturb.
TypeOf(c) ==
    /\ queue[c] \in Seq(Payloads) /\ Len(queue[c]) <= QueueSize
    /\ task[c] \in {"unborn", "opening", "running", "draining", "flushing", "done"}
    /\ reason[c] \in Orders \cup {"none"}
    /\ buffer[c] \in Seq(Payloads)
    /\ inflight[c] \in SUBSET (Payloads \X {"loop", "drain"})
    /\ wire[c] \in Seq(Payloads)
    /\ reported \in BOOLEAN

\* What the invariant says of one channel.
LEMMA TypesOfOne ==
    ASSUME IndInv, NEW c \in Channels
    PROVE  /\ TypeOf(c) /\ accepted[c] \in Seq(Payloads) /\ PlacesOf(c) /\ EndOf(c) /\ KeptOf(c)
           /\ Payloads \in SUBSET Nat
           /\ ToSet(queue[c]) \subseteq Nat /\ ToSet(buffer[c]) \subseteq Nat
           /\ ToSet(wire[c]) \subseteq Nat
<1>1. TypeOf(c) /\ accepted[c] \in Seq(Payloads) /\ PlacesOf(c) /\ EndOf(c) /\ KeptOf(c)
  BY DEF IndInv, TypeOK, TypeOf, Places, TasksEnd, Kept
<1>2. Payloads \in SUBSET Nat
  BY ConstantsAssumption DEF Payloads
<1> QED
  BY <1>1, <1>2, ToSetType DEF TypeOf

\* What concerns a channel depends on no other.
LEMMA UnchangedOf ==
    ASSUME NEW c \in Channels, PlacesOf(c), EndOf(c), KeptOf(c),
           UNCHANGED <<accepted[c], kind[c], registered, orders, dropped, conn, stopped>>,
           late \subseteq late', reported => reported',
           UNCHANGED <<queue[c], task[c], reason[c], buffer[c], inflight[c], wire[c]>>
    PROVE  PlacesOf(c)' /\ EndOf(c)' /\ KeptOf(c)'
<1>1. PlacesOf(c)'
  BY DEF PlacesOf, Queued, Framed, Written, Handed, IsOrdered
<1>2. EndOf(c)'
  BY DEF EndOf, Queued
<1>3. KeptOf(c)'
  BY DEF KeptOf, LostTo, Found, Clean, Sendable, Handed
<1> QED
  BY <1>1, <1>2, <1>3

\* A loss that is accounted for stays so; a step has to account for new ones only.
LEMMA KeptStep ==
    ASSUME NEW c \in Channels, KeptOf(c),
           UNCHANGED <<accepted, late, dropped, netVars>>, reported => reported',
           reason[c] # "none" => reason'[c] = reason[c],
           task[c] = "done" => task'[c] = "done",
           conn = "open" => \A m \in Found(c) \cap Sendable(c) : m \in Found(c)' \/ LostTo(c, m)'
    PROVE  KeptOf(c)'
<1>1. UNCHANGED <<conn, stopped>> /\ Sendable(c)' = Sendable(c)
  BY DEF netVars, Sendable
<1>2. ASSUME NEW m, LostTo(c, m) PROVE LostTo(c, m)'
  BY <1>1, <1>2 DEF LostTo, Clean
<1> QED
  BY <1>1, <1>2 DEF KeptOf

\* What such a step keeps when it keeps what concerns its channel.
LEMMA WorkStep ==
    ASSUME IndInv, NEW c \in Channels, LocalTo(c),
           ~Alive(c) => task'[c] = task[c] /\ reason'[c] = reason[c],
           Written(c) \subseteq Written(c)',
           TypeOf(c)', PlacesOf(c)', EndOf(c)', KeptOf(c)'
    PROVE  IndInv'
<1> USE DEF LocalTo
<1>1. TypeOK'
  BY DEF IndInv, TypeOK, TypeOf, syncVars, tableVars, acceptVars, closeVars, netVars
<1>2. ASSUME NEW d \in Channels, d # c
      PROVE  /\ queue'[d] = queue[d] /\ task'[d] = task[d] /\ reason'[d] = reason[d]
             /\ buffer'[d] = buffer[d] /\ inflight'[d] = inflight[d] /\ wire'[d] = wire[d]
  <2>1. queue'[d] = queue[d] /\ task'[d] = task[d]
    BY <1>2 DEF IndInv, TypeOK
  <2>2. reason'[d] = reason[d] /\ buffer'[d] = buffer[d]
    BY <1>2 DEF IndInv, TypeOK
  <2>3. inflight'[d] = inflight[d] /\ wire'[d] = wire[d]
    BY <1>2 DEF IndInv, TypeOK
  <2> QED
    BY <2>1, <2>2, <2>3
<1> USE DEF syncVars, tableVars, acceptVars, closeVars, netVars
<1> HIDE DEF LocalTo
<1>3. UNCHANGED <<syncVars, creating, spawner, netVars>> /\ (reported => reported')
  BY DEF LocalTo
<1>4. CreatingShape'
  <2>1. ToSet(creating) \subseteq Channels
    BY ToSetType DEF IndInv, TypeOK
  <2> QED
    BY <1>2, <1>3, <2>1 DEF IndInv, CreatingShape, Alive
<1>5. Numbered'
  BY <1>3 DEF IndInv, Numbered
<1>6. Places' /\ TasksEnd' /\ Kept'
  <2>1. ASSUME NEW d \in Channels, d # c
        PROVE  PlacesOf(d)' /\ EndOf(d)' /\ KeptOf(d)'
    BY <1>2, <1>3, <2>1, UnchangedOf, TypesOfOne
  <2> QED
    BY <2>1 DEF Places, TasksEnd, Kept
<1>7. SpawnerEnds'
  BY <1>2, <1>3 DEF IndInv, SpawnerEnds, Alive
<1>8. CloseFlushesSpawned'
  <2>1. conn = "closed" => task'[c] = task[c] /\ reason'[c] = reason[c]
    BY DEF IndInv, SpawnerEnds
  <2>2. conn = "closed" => \A d \in Channels : task'[d] = task[d] /\ reason'[d] = reason[d]
    BY <1>2, <2>1
  <2>3. \A d \in Channels : ToSet(wire[d]) \subseteq ToSet(wire'[d])
    BY <1>2 DEF Written
  <2> QED
    BY <1>3, <2>2, <2>3 DEF IndInv, CloseFlushesSpawned, Clean
<1> QED
  BY <1>1, <1>4, <1>5, <1>6, <1>7, <1>8 DEF IndInv

\* Payloads that only leave the queue and the buffer disturb no other.
LEMMA Leaving ==
    ASSUME IndInv, NEW c \in Channels,
           queue'[c] \in {queue[c], <<>>} \/ (queue[c] # <<>> /\ queue'[c] = Tail(queue[c])),
           buffer'[c] \in {buffer[c], <<>>} \/ (buffer[c] # <<>> /\ buffer'[c] = Tail(buffer[c])),
           wire'[c] = wire[c], inflight'[c] = inflight[c], UNCHANGED <<accepted, kind>>
    PROVE  /\ PlacesOf(c)'
           /\ queue'[c] \in Seq(Payloads) /\ Len(queue'[c]) <= QueueSize
           /\ buffer'[c] \in Seq(Payloads)
<1>1. TypeOf(c) /\ PlacesOf(c) /\ Payloads \in SUBSET Nat
  BY TypesOfOne
<1>2. /\ queue'[c] \in Seq(Payloads) /\ Len(queue'[c]) <= QueueSize
      /\ ToSet(queue'[c]) \subseteq ToSet(queue[c])
      /\ Increasing(queue[c]) => Increasing(queue'[c])
  <2>1. CASE queue'[c] = <<>>
    BY <2>1, EmptyFacts, ConstantsAssumption
  <2>2. CASE queue[c] # <<>> /\ queue'[c] = Tail(queue[c])
    <3>1. Len(Tail(queue[c])) <= Len(queue[c]) /\ Tail(queue[c]) \in Seq(Payloads)
      BY <1>1, <2>2, TailFacts DEF TypeOf
    <3> QED
      BY <1>1, <2>2, <3>1, TailFacts, LenProperties, ConstantsAssumption DEF TypeOf
  <2> QED
    BY <1>1, <2>1, <2>2 DEF TypeOf
<1>3. /\ buffer'[c] \in Seq(Payloads)
      /\ ToSet(buffer'[c]) \subseteq ToSet(buffer[c])
      /\ Increasing(buffer[c]) => Increasing(buffer'[c])
      /\ buffer[c] = <<>> => buffer'[c] = <<>>
  <2>1. CASE buffer'[c] = <<>>
    BY <2>1, EmptyFacts
  <2>2. CASE buffer[c] # <<>> /\ buffer'[c] = Tail(buffer[c])
    <3>1. buffer[c] \in Seq(Payloads)
      BY <1>1 DEF TypeOf
    <3> QED
      BY <1>1, <2>2, <3>1, TailFacts
  <2> QED
    BY <1>1, <2>1, <2>2 DEF TypeOf
<1> QED
  BY <1>1, <1>2, <1>3 DEF PlacesOf, Queued, Framed, Written, Handed, IsOrdered

\* A task that opens its stream has nothing in its buffer.
LEMMA OpenStreamStep ==
    ASSUME IndInv, NEW c \in Channels, OpenStream(c)
    PROVE  IndInv'
<1> USE DEF OpenStream
<1>1. LocalTo(c)
  BY DEF LocalTo, IndInv, TypeOK
<1>2. /\ task[c] = "opening" /\ wire'[c] = wire[c] /\ inflight'[c] = inflight[c]
      /\ buffer'[c] = buffer[c] /\ reason'[c] = reason[c]
      /\ \/ conn = "open" /\ task'[c] = "running" /\ queue'[c] = queue[c]
         \/ conn # "open" /\ task'[c] = "done" /\ queue'[c] = <<>>
  BY DEF IndInv, TypeOK
<1>3. UNCHANGED <<accepted, kind, registered, orders, late, dropped, netVars, reported>>
  BY DEF syncVars, tableVars, acceptVars, closeVars, netVars
<1> HIDE DEF OpenStream
<1>4. PlacesOf(c)' /\ TypeOf(c)'
  BY <1>2, <1>3, Leaving, TypesOfOne DEF TypeOf
<1>5. EndOf(c)' /\ KeptOf(c)'
  <2>1. EndOf(c)'
    BY <1>2, <1>3, TypesOfOne, EmptyFacts DEF EndOf, Queued
  <2>2. conn = "open" => Found(c)' = Found(c)
    BY <1>2 DEF Found, Handed
  <2> QED
    BY <2>1, <2>2, <1>2, <1>3, KeptStep, TypesOfOne
<1> QED
  BY <1>1, <1>2, <1>4, <1>5, WorkStep DEF Alive, Written

\* A task that hears an order or the close of its channel starts to drain its queue.
LEMMA HearStep ==
    ASSUME IndInv, NEW c \in Channels, Hear(c)
    PROVE  IndInv'
<1> USE DEF Hear, HearOrder, HearChannelClose
<1>1. LocalTo(c)
  BY DEF LocalTo, IndInv, TypeOK
<1>2. /\ task[c] = "running" /\ wire'[c] = wire[c] /\ inflight'[c] = inflight[c]
      /\ buffer'[c] = buffer[c] /\ queue'[c] = queue[c] /\ task'[c] = "draining"
      /\ orders # <<>> \/ dropped \/ c \notin registered
      /\ reason'[c] \in Orders
  <2>1. CASE HearChannelClose(c)
    BY <2>1 DEF IndInv, TypeOK, Orders
  <2>2. CASE HearOrder(c)
    <3>1. missed[c] < Len(orders) => orders # <<>> /\ orders[missed[c] + 1] \in Orders
      <4>1. missed[c] \in 0..2 /\ orders \in Seq(Orders) /\ Len(orders) \in Nat
        <5>1. missed \in [Channels -> 0..2] /\ orders \in Seq(Orders)
          BY DEF IndInv, TypeOK
        <5> QED
          BY <5>1, LenProperties
      <4>2. missed[c] < Len(orders) => missed[c] + 1 \in 1..Len(orders)
        BY <4>1
      <4> QED
        BY <4>1, <4>2, ElementOfSeq, EmptySeq
    <3> QED
      BY <2>2, <3>1 DEF IndInv, TypeOK, Orders
  <2> QED
    BY <2>1, <2>2
<1>3. UNCHANGED <<accepted, kind, registered, orders, late, dropped, netVars, reported>>
  BY DEF syncVars, tableVars, acceptVars, closeVars, netVars
<1> HIDE DEF Hear, HearOrder, HearChannelClose
<1>4. PlacesOf(c)' /\ TypeOf(c)'
  BY <1>2, <1>3, Leaving, TypesOfOne DEF TypeOf
<1>5. EndOf(c)' /\ KeptOf(c)'
  <2>1. EndOf(c)'
    BY <1>2, <1>3, TypesOfOne DEF EndOf, Queued, Orders
  <2>2. Found(c)' = Found(c) /\ reason[c] = "none"
    BY <1>2, TypesOfOne DEF Found, Handed, EndOf, Orders
  <2> QED
    BY <2>1, <2>2, <1>2, <1>3, KeptStep, TypesOfOne
<1> QED
  BY <1>1, <1>2, <1>4, <1>5, WorkStep DEF Alive, Written

\* A task that finds its queue empty has nothing left but frames to flush.
LEMMA DrainEndsStep ==
    ASSUME IndInv, NEW c \in Channels, DrainEnds(c)
    PROVE  IndInv'
<1> USE DEF DrainEnds, Drains
<1>1. LocalTo(c)
  BY DEF LocalTo, IndInv, TypeOK
<1>2. /\ task[c] = "draining" /\ wire'[c] = wire[c] /\ inflight'[c] = inflight[c]
      /\ buffer'[c] = buffer[c] /\ queue'[c] = queue[c] /\ queue[c] = <<>>
      /\ task'[c] = "flushing" /\ reason'[c] = reason[c] /\ reason[c] # "PeerClosed"
  BY DEF IndInv, TypeOK
<1>3. UNCHANGED <<accepted, kind, registered, orders, late, dropped, netVars, reported>>
  BY DEF syncVars, tableVars, acceptVars, closeVars
<1> HIDE DEF DrainEnds
<1>4. PlacesOf(c)' /\ TypeOf(c)'
  BY <1>2, <1>3, Leaving, TypesOfOne DEF TypeOf
<1>5. EndOf(c)' /\ KeptOf(c)'
  <2>1. EndOf(c)'
    BY <1>2, <1>3, TypesOfOne, EmptyFacts DEF EndOf, Queued
  <2>2. Found(c)' = Found(c)
    BY <1>2 DEF Found, Handed
  <2> QED
    BY <2>1, <2>2, <1>2, <1>3, KeptStep, TypesOfOne
<1> QED
  BY <1>1, <1>2, <1>4, <1>5, WorkStep DEF Alive, Written

\* A task ends when its frames are flushed, or the peer is gone; what came into its
\* queue meanwhile is late.
LEMMA FinishStep ==
    ASSUME IndInv, NEW c \in Channels, Finish(c)
    PROVE  IndInv'
<1> USE DEF Finish
<1>1. LocalTo(c)
  BY DEF LocalTo, IndInv, TypeOK
<1>2. /\ Alive(c) /\ wire'[c] = wire[c] /\ inflight'[c] = inflight[c]
      /\ buffer'[c] = <<>> /\ queue'[c] = <<>> /\ task'[c] = "done" /\ reason'[c] = reason[c]
      /\ reason[c] = "PeerClosed" \/ (task[c] = "flushing" /\ buffer[c] = <<>>)
  BY DEF IndInv, TypeOK, Alive
<1>3. UNCHANGED <<accepted, kind, registered, orders, late, dropped, netVars, reported>>
  BY DEF syncVars, tableVars, acceptVars, closeVars, netVars
<1> HIDE DEF Finish
<1>4. PlacesOf(c)' /\ TypeOf(c)'
  BY <1>2, <1>3, Leaving, TypesOfOne DEF TypeOf
<1>5. EndOf(c)' /\ KeptOf(c)'
  <2>1. EndOf(c)'
    BY <1>2, <1>3, TypesOfOne DEF EndOf, Queued
  <2>2. \A m \in Found(c) : m \in Found(c)' \/ LostTo(c, m)'
    BY <1>2, <1>3, TypesOfOne, EmptyFacts DEF Found, Handed, EndOf, LostTo, Queued
  <2> QED
    BY <2>1, <2>2, <1>2, <1>3, KeptStep, TypesOfOne
<1> QED
  BY <1>1, <1>2, <1>4, <1>5, WorkStep DEF Alive, Written

\* A payload leaves the queue, or the buffer, of a task that could not send it.
LEMMA SendFailsStep ==
    ASSUME IndInv, NEW c \in Channels, NEW q, NEW b, SendFails(c, q, b),
           task[c] \in {"running", "draining", "flushing"}, reason[c] # "PeerClosed",
           UNCHANGED <<syncVars, creating, spawner, missed, reason, inflight, wire, netVars>>,
           \/ /\ q = queue[c] /\ buffer[c] # <<>> /\ b = Tail(buffer[c])
              /\ conn # "open" \/ c \in stopped
           \/ /\ queue[c] # <<>> /\ q = Tail(queue[c]) /\ b = buffer[c]
              /\ conn # "open" \/ Head(queue[c]) \in Oversized
    PROVE  IndInv'
<1> USE DEF SendFails
<1>1. LocalTo(c)
  BY DEF LocalTo, IndInv, TypeOK
<1>2. /\ wire'[c] = wire[c] /\ inflight'[c] = inflight[c] /\ reason'[c] = reason[c]
      /\ \/ dropped /\ task'[c] = "done" /\ queue'[c] = <<>> /\ buffer'[c] = <<>>
         \/ /\ task'[c] = task[c] /\ queue'[c] = q /\ buffer'[c] = b
            /\ task[c] = "running" => reported'
      /\ reported' \in BOOLEAN /\ (reported => reported')
  BY DEF IndInv, TypeOK
<1>3. UNCHANGED <<accepted, kind, registered, orders, late, dropped, netVars>>
  BY DEF syncVars, tableVars, acceptVars, closeVars
<1> HIDE DEF SendFails
<1>4. PlacesOf(c)' /\ TypeOf(c)'
  BY <1>2, <1>3, Leaving, TypesOfOne DEF TypeOf
<1>5. EndOf(c)'
  <2>1. task'[c] = task[c] => Queued(c)' \subseteq Queued(c)
    <3>1. queue'[c] \in {<<>>, queue[c]} \/ (queue[c] # <<>> /\ queue'[c] = Tail(queue[c]))
      BY <1>2
    <3>2. queue[c] \in Seq(Payloads) /\ Payloads \in SUBSET Nat
      BY TypesOfOne DEF TypeOf
    <3> QED
      BY <3>1, <3>2, EmptyFacts, TailFacts DEF Queued
  <2>2. EndOf(c) /\ task[c] \in {"running", "draining", "flushing"}
    BY TypesOfOne
  <2>3. CASE task'[c] = task[c]
    BY <1>3, <2>1, <2>2, <2>3 DEF EndOf
  <2>4. CASE task'[c] = "done" /\ queue'[c] = <<>> /\ buffer'[c] = <<>>
    BY <1>2, <2>2, <2>4 DEF EndOf
  <2> QED
    BY <1>2, <2>3, <2>4
<1>6. KeptOf(c)'
  <2> SUFFICES ASSUME conn = "open", NEW m \in Sendable(c) \ Found(c)'
               PROVE  LostTo(c, m)'
    BY <1>3 DEF KeptOf, Sendable, netVars
  <2>1. CASE c \in stopped
    BY <1>2, <1>3, <2>1, TypesOfOne DEF EndOf, LostTo, netVars
  <2>2. CASE c \notin stopped
    <3>1. /\ queue[c] # <<>> /\ Head(queue[c]) \in Oversized /\ q = Tail(queue[c]) /\ b = buffer[c]
          /\ Queued(c) = {Head(queue[c])} \cup ToSet(Tail(queue[c]))
      BY <2>2, TypesOfOne, TailFacts DEF TypeOf, Queued
    <3>2. c \notin Clean
      BY <3>1, TypesOfOne DEF PlacesOf, Clean
    <3>3. CASE dropped /\ task'[c] = "done"
      BY <1>3, <3>2, <3>3 DEF LostTo, Clean
    <3>4. CASE task'[c] = task[c] /\ queue'[c] = q /\ buffer'[c] = b
      <4>1. m \notin Found(c)
        BY <1>2, <3>1, <3>4 DEF Found, Queued, Handed, Sendable
      <4>2. LostTo(c, m)
        BY <4>1, TypesOfOne DEF KeptOf
      <4> QED
        BY <1>2, <1>3, <3>4, <4>2 DEF LostTo, Clean, netVars
    <3> QED
      BY <1>2, <3>3, <3>4
  <2> QED
    BY <2>1, <2>2
<1> QED
  BY <1>1, <1>2, <1>4, <1>5, <1>6, WorkStep DEF Alive, Written

\* A payload goes from the head of the queue to the end of the buffer, unless it is
\* too long.
LEMMA FramePayloadStep ==
    ASSUME IndInv, NEW c \in Channels, FramePayload(c)
    PROVE  IndInv'
<1> USE DEF FramePayload, Drains
<1>1. /\ kind[c] = "Ordered" /\ queue[c] # <<>>
      /\ task[c] \in {"running", "draining"} /\ reason[c] # "PeerClosed"
      /\ UNCHANGED <<syncVars, creating, spawner, missed, reason, inflight, wire, netVars>>
  BY TypesOfOne DEF EndOf
<1>2. CASE Head(queue[c]) \in Oversized
  BY <1>1, <1>2, SendFailsStep
<1>3. CASE Head(queue[c]) \notin Oversized
  <2>1. LocalTo(c)
    BY <1>3 DEF LocalTo, IndInv, TypeOK
  <2>2. /\ queue'[c] = Tail(queue[c]) /\ buffer'[c] = Append(buffer[c], Head(queue[c]))
        /\ wire'[c] = wire[c] /\ inflight'[c] = inflight[c] /\ reason'[c] = reason[c]
        /\ task'[c] = task[c]
    BY <1>3 DEF IndInv, TypeOK
  <2>3. UNCHANGED <<accepted, kind, registered, orders, late, dropped, netVars, reported>>
    BY <1>3 DEF syncVars, tableVars, acceptVars, closeVars, netVars
  <2> HIDE DEF FramePayload
  <2>4. /\ TypeOf(c) /\ PlacesOf(c) /\ EndOf(c) /\ KeptOf(c) /\ Payloads \in SUBSET Nat
        /\ Queued(c) \subseteq Nat /\ Framed(c) \subseteq Nat
    BY TypesOfOne DEF Queued, Framed
  <2>5. /\ Head(queue[c]) \in Payloads /\ queue'[c] \in Seq(Payloads) /\ Len(queue'[c]) <= Len(queue[c])
        /\ Queued(c) = {Head(queue[c])} \cup Queued(c)'
        /\ Increasing(queue'[c]) /\ \A m \in Queued(c)' : Head(queue[c]) < m
    BY <1>1, <2>2, <2>4, TailFacts DEF TypeOf, Queued, PlacesOf
  <2>6. /\ buffer'[c] \in Seq(Payloads) /\ Framed(c)' = Framed(c) \cup {Head(queue[c])}
        /\ Increasing(buffer'[c])
    BY <2>2, <2>4, <2>5, AppendFacts DEF TypeOf, Framed, PlacesOf
  <2>7. TypeOf(c)'
    BY <2>2, <2>3, <2>4, <2>5, <2>6, LenProperties, ConstantsAssumption DEF TypeOf
  <2>8. Head(queue[c]) \notin Queued(c)' /\ Queued(c)' \subseteq Nat
    BY <2>4, <2>5
  <2>9. PlacesOf(c)'
    BY <1>1, <1>3, <2>2, <2>3, <2>4, <2>5, <2>6, <2>8 DEF PlacesOf, Written, Handed, IsOrdered
  <2>10. EndOf(c)' /\ KeptOf(c)'
    <3>1. EndOf(c)'
      BY <1>1, <2>2, <2>3, <2>4 DEF EndOf, Queued
    <3>2. Found(c)' = Found(c)
      BY <2>2, <2>5, <2>6 DEF Found, Handed, Queued, Framed
    <3> QED
      BY <3>1, <3>2, <2>2, <2>3, KeptStep, TypesOfOne
  <2> QED
    BY <2>1, <2>2, <2>7, <2>9, <2>10, WorkStep DEF Written
<1> QED
  BY <1>2, <1>3

\* A frame goes from the head of the buffer to the end of the stream.
LEMMA WriteFrameStep ==
    ASSUME IndInv, NEW c \in Channels, WriteFrame(c)
    PROVE  IndInv'
<1> USE DEF WriteFrame, Flushes, Drains
<1>1. /\ buffer[c] # <<>>
      /\ task[c] \in {"running", "draining", "flushing"} /\ reason[c] # "PeerClosed"
      /\ UNCHANGED <<syncVars, creating, spawner, missed, reason, inflight, netVars>>
  BY TypesOfOne DEF EndOf
<1>2. CASE conn # "open" \/ c \in stopped
  <2>1. SendFails(c, queue[c], Tail(buffer[c])) /\ UNCHANGED wire
    BY <1>2
  <2> HIDE DEF WriteFrame
  <2> QED
    BY <1>1, <1>2, <2>1, SendFailsStep
<1>3. CASE conn = "open" /\ c \notin stopped
  <2>1. LocalTo(c)
    BY <1>3 DEF LocalTo, IndInv, TypeOK
  <2>2. /\ buffer'[c] = Tail(buffer[c]) /\ wire'[c] = Append(wire[c], Head(buffer[c]))
        /\ queue'[c] = queue[c] /\ inflight'[c] = inflight[c] /\ reason'[c] = reason[c]
        /\ task'[c] = task[c]
    BY <1>3 DEF IndInv, TypeOK
  <2>3. UNCHANGED <<accepted, kind, registered, orders, late, dropped, netVars, reported>>
    BY <1>3 DEF syncVars, tableVars, acceptVars, closeVars, netVars
  <2> HIDE DEF WriteFrame
  <2>4. /\ TypeOf(c) /\ PlacesOf(c) /\ EndOf(c) /\ KeptOf(c) /\ Payloads \in SUBSET Nat
        /\ Queued(c) \subseteq Nat /\ Framed(c) \subseteq Nat
    BY TypesOfOne DEF Queued, Framed
  <2>5. /\ Head(buffer[c]) \in Payloads /\ buffer'[c] \in Seq(Payloads)
        /\ Framed(c) = {Head(buffer[c])} \cup Framed(c)'
        /\ Increasing(buffer'[c]) /\ \A m \in Framed(c)' : Head(buffer[c]) < m
    BY <1>1, <2>2, <2>4, TailFacts DEF TypeOf, Framed, PlacesOf
  <2>6. /\ wire'[c] \in Seq(Payloads) /\ Written(c)' = Written(c) \cup {Head(buffer[c])}
        /\ IsInjective(wire'[c])
    <3>1. Head(buffer[c]) \notin Written(c)
      BY <2>4, <2>5 DEF PlacesOf
    <3> QED
      BY <2>2, <2>4, <2>5, <3>1, AppendFacts DEF TypeOf, Written, PlacesOf
  <2>7. TypeOf(c)'
    BY <2>2, <2>3, <2>4, <2>5, <2>6 DEF TypeOf
  <2>8. /\ Head(buffer[c]) \notin Framed(c)' /\ Head(buffer[c]) \notin Queued(c)
        /\ Head(buffer[c]) \notin Handed(c) /\ IsOrdered(c) /\ inflight[c] = {}
    <3>1. IsOrdered(c) /\ inflight[c] = {}
      BY <1>1, <2>4 DEF PlacesOf
    <3>2. Head(buffer[c]) \in Framed(c) /\ \A n \in Queued(c) : Head(buffer[c]) < n
      BY <2>4, <2>5 DEF PlacesOf
    <3> QED
      BY <2>4, <2>5, <3>1, <3>2 DEF Handed
  <2>9. PlacesOf(c)'
    BY <1>1, <1>3, <2>2, <2>3, <2>4, <2>5, <2>6, <2>8 DEF PlacesOf, Queued, Handed, IsOrdered
  <2>10. EndOf(c)' /\ KeptOf(c)'
    <3>1. EndOf(c)'
      BY <1>1, <2>2, <2>3, <2>4 DEF EndOf, Queued
    <3>2. Found(c)' = Found(c)
      BY <2>2, <2>5, <2>6 DEF Found, Handed, Framed, Written
    <3> QED
      BY <3>1, <3>2, <2>2, <2>3, KeptStep, TypesOfOne
  <2> QED
    BY <2>1, <2>2, <2>6, <2>7, <2>9, <2>10, WorkStep
<1> QED
  BY <1>2, <1>3

\* A payload goes from the queue to a task of its own.
LEMMA HandPayloadStep ==
    ASSUME IndInv, NEW c \in Channels, HandPayload(c)
    PROVE  IndInv'
<1> USE DEF HandPayload, Drains
<1>1. /\ kind[c] = "Unordered" /\ queue[c] # <<>> /\ task[c] \in {"running", "draining"}
      /\ reason[c] # "PeerClosed"
  BY TypesOfOne DEF EndOf
<1>2. LocalTo(c)
  BY DEF LocalTo, IndInv, TypeOK
<1> DEFINE from == IF task[c] = "running" THEN "loop" ELSE "drain"
<1>3. /\ queue'[c] = Tail(queue[c])
      /\ inflight'[c] = inflight[c] \cup {<<Head(queue[c]), from>>}
      /\ buffer'[c] = buffer[c] /\ wire'[c] = wire[c] /\ reason'[c] = reason[c]
      /\ task'[c] = task[c]
  BY DEF IndInv, TypeOK
<1>4. UNCHANGED <<accepted, kind, registered, orders, late, dropped, netVars, reported>>
  BY DEF syncVars, tableVars, acceptVars, closeVars, netVars
<1>5. from \in {"loop", "drain"}
  OBVIOUS
<1> HIDE DEF HandPayload, from
<1>6. /\ TypeOf(c) /\ PlacesOf(c) /\ EndOf(c) /\ KeptOf(c) /\ Payloads \in SUBSET Nat
      /\ Queued(c) \subseteq Nat
  BY TypesOfOne DEF Queued
<1>7. /\ Head(queue[c]) \in Payloads /\ queue'[c] \in Seq(Payloads) /\ Len(queue'[c]) <= Len(queue[c])
      /\ Queued(c) = {Head(queue[c])} \cup Queued(c)'
      /\ Increasing(queue'[c]) /\ \A m \in Queued(c)' : Head(queue[c]) < m
  BY <1>1, <1>3, <1>6, TailFacts DEF TypeOf, Queued, PlacesOf
<1>8. Handed(c)' = Handed(c) \cup {Head(queue[c])}
  <2>1. <<Head(queue[c]), from>>[1] = Head(queue[c])
    OBVIOUS
  <2>2. Handed(c)' = {p[1] : p \in inflight'[c]}
    BY DEF Handed
  <2>3. Handed(c)' = {p[1] : p \in inflight[c]} \cup {<<Head(queue[c]), from>>[1]}
    BY <1>3, <2>2
  <2> QED
    BY <2>1, <2>3 DEF Handed
<1>9. Head(queue[c]) \notin Handed(c) /\ Head(queue[c]) \notin Queued(c)'
  BY <1>6, <1>7 DEF PlacesOf
<1>10. \A p, q \in inflight'[c] : p[1] = q[1] => p = q
  <2>1. \A p \in inflight[c] : p[1] # Head(queue[c])
    BY <1>9 DEF Handed
  <2> QED
    BY <1>3, <1>6, <2>1 DEF PlacesOf
<1>11. TypeOf(c)'
  BY <1>3, <1>4, <1>5, <1>6, <1>7, LenProperties, ConstantsAssumption DEF TypeOf
<1>12. PlacesOf(c)'
  BY <1>1, <1>3, <1>4, <1>6, <1>7, <1>8, <1>9, <1>10 DEF PlacesOf, Framed, Written, IsOrdered
<1>13. EndOf(c)' /\ KeptOf(c)'
  <2>1. EndOf(c)'
    BY <1>1, <1>3, <1>4, <1>6, <1>7 DEF EndOf, Queued, from
  <2>2. Found(c)' = Found(c)
    BY <1>3, <1>7, <1>8 DEF Found, Queued
  <2> QED
    BY <2>1, <2>2, <1>3, <1>4, KeptStep, TypesOfOne
<1> QED
  BY <1>2, <1>3, <1>11, <1>12, <1>13, WorkStep DEF Written

\* A payload that was handed over is written once.
LEMMA WriteUnorderedStep ==
    ASSUME IndInv, NEW c \in Channels, NEW m \in Payloads, NEW from \in {"loop", "drain"},
           WriteUnordered(c, m, from)
    PROVE  IndInv'
<1> USE DEF WriteUnordered
<1> DEFINE fails == \/ conn # "open" \/ m \in Oversized
                    \/ c \in stopped /\ (reported' \/ from = "drain" \/ dropped)
<1>1. LocalTo(c)
  BY DEF LocalTo, IndInv, TypeOK
<1>2. /\ <<m, from>> \in inflight[c] /\ inflight'[c] = inflight[c] \ {<<m, from>>}
      /\ buffer'[c] = buffer[c] /\ queue'[c] = queue[c] /\ reason'[c] = reason[c]
      /\ task'[c] = task[c]
      /\ \/ wire'[c] = Append(wire[c], m)
         \/ wire'[c] = wire[c] /\ fails
      /\ reported => reported'
  BY DEF IndInv, TypeOK
<1>3. UNCHANGED <<accepted, kind, registered, orders, late, dropped, netVars>> /\ reported' \in BOOLEAN
  BY TypesOfOne DEF syncVars, tableVars, acceptVars, closeVars, netVars, TypeOf
<1> HIDE DEF WriteUnordered, fails
<1>4. TypeOf(c) /\ PlacesOf(c) /\ EndOf(c) /\ KeptOf(c)
  BY TypesOfOne
<1>5. m \in Handed(c) /\ Handed(c) = Handed(c)' \cup {m} /\ m \notin Handed(c)'
  <2>1. \A p \in inflight[c] : p[1] = m => p = <<m, from>>
    BY <1>2, <1>4 DEF PlacesOf
  <2> QED
    BY <1>2, <2>1 DEF Handed
<1>6. m \notin Written(c) /\ m \notin Queued(c) /\ m \notin Framed(c) /\ ~IsOrdered(c) /\ buffer[c] = <<>>
  BY <1>2, <1>4, <1>5, EmptyFacts DEF PlacesOf, Framed
<1>7. /\ wire'[c] \in Seq(Payloads) /\ IsInjective(wire'[c])
      /\ Written(c)' = Written(c) \cup {m} \/ (Written(c)' = Written(c) /\ fails)
  <2>1. wire[c] \in Seq(Payloads) /\ IsInjective(wire[c]) /\ m \notin ToSet(wire[c])
    BY <1>4, <1>6 DEF TypeOf, PlacesOf, Written
  <2>2. CASE wire'[c] = Append(wire[c], m)
    BY <2>1, <2>2, AppendFacts DEF Written
  <2>3. CASE wire'[c] = wire[c] /\ fails
    BY <2>1, <2>3 DEF Written
  <2> QED
    BY <1>2, <2>2, <2>3
<1>8. TypeOf(c)'
  BY <1>2, <1>3, <1>4, <1>7 DEF TypeOf
<1>9. PlacesOf(c)'
  BY <1>2, <1>3, <1>4, <1>5, <1>6, <1>7 DEF PlacesOf, Queued, Framed, IsOrdered
<1>10. EndOf(c)' /\ KeptOf(c)'
  <2>1. EndOf(c)'
    BY <1>2, <1>3, <1>4 DEF EndOf, Queued
  <2>2. from = "drain" => reason[c] # "none"
    BY <1>2, <1>4 DEF EndOf
  <2>3. \A n \in Found(c) : n \in Found(c)' \/ (n = m /\ Written(c)' = Written(c) /\ fails)
    BY <1>2, <1>5, <1>7 DEF Found, Written
  <2>4. conn = "open" /\ m \in Sendable(c) /\ fails => LostTo(c, m)'
    BY <1>2, <1>3, <2>2 DEF LostTo, Sendable, netVars, fails
  <2> QED
    BY <1>2, <1>3, <1>4, <2>1, <2>3, <2>4, KeptStep
<1> QED
  BY <1>1, <1>2, <1>7, <1>8, <1>9, <1>10, WorkStep

\* A payload goes from the queue to a datagram.
LEMMA SendDatagramStep ==
    ASSUME IndInv, NEW c \in Channels, SendDatagram(c)
    PROVE  IndInv'
<1> USE DEF SendDatagram, Drains
<1>1. /\ kind[c] = "Unreliable" /\ queue[c] # <<>>
      /\ task[c] \in {"running", "draining"} /\ reason[c] # "PeerClosed"
      /\ UNCHANGED <<syncVars, creating, spawner, missed, reason, inflight, netVars>>
  BY TypesOfOne DEF EndOf
<1>2. CASE conn # "open"
  <2>1. SendFails(c, Tail(queue[c]), buffer[c]) /\ UNCHANGED wire
    BY <1>2
  <2> HIDE DEF SendDatagram
  <2> QED
    BY <1>1, <1>2, <2>1, SendFailsStep
<1>3. CASE conn = "open"
  <2>1. LocalTo(c)
    BY <1>3 DEF LocalTo, IndInv, TypeOK
  <2>2. /\ queue'[c] = Tail(queue[c])
        /\ buffer'[c] = buffer[c] /\ inflight'[c] = inflight[c] /\ reason'[c] = reason[c]
        /\ task'[c] = task[c]
        /\ \/ wire'[c] = wire[c] /\ Head(queue[c]) \in Oversized
           \/ wire'[c] = Append(wire[c], Head(queue[c]))
    BY <1>3 DEF IndInv, TypeOK
  <2>3. UNCHANGED <<accepted, kind, registered, orders, late, dropped, netVars, reported>>
    BY <1>3 DEF syncVars, tableVars, acceptVars, closeVars, netVars
  <2> HIDE DEF SendDatagram
  <2>4. /\ TypeOf(c) /\ PlacesOf(c) /\ EndOf(c) /\ KeptOf(c) /\ Payloads \in SUBSET Nat
        /\ Queued(c) \subseteq Nat
    BY TypesOfOne DEF Queued
  <2>5. /\ Head(queue[c]) \in Payloads /\ queue'[c] \in Seq(Payloads) /\ Len(queue'[c]) <= Len(queue[c])
        /\ Queued(c) = {Head(queue[c])} \cup Queued(c)'
        /\ Increasing(queue'[c]) /\ \A m \in Queued(c)' : Head(queue[c]) < m
    BY <1>1, <2>2, <2>4, TailFacts DEF TypeOf, Queued, PlacesOf
  <2>6. /\ Head(queue[c]) \notin Written(c) /\ Head(queue[c]) \notin Handed(c)
        /\ Head(queue[c]) \notin Queued(c)' /\ buffer[c] = <<>> /\ ~IsOrdered(c)
    BY <1>1, <2>4, <2>5 DEF PlacesOf, IsOrdered
  <2>7. /\ wire'[c] \in Seq(Payloads) /\ IsInjective(wire'[c])
        /\ \/ Written(c)' = Written(c) \cup {Head(queue[c])}
           \/ Written(c)' = Written(c) /\ Head(queue[c]) \in Oversized
    <3>1. wire[c] \in Seq(Payloads) /\ IsInjective(wire[c]) /\ Head(queue[c]) \notin ToSet(wire[c])
      BY <2>4, <2>6 DEF TypeOf, PlacesOf, Written
    <3>2. CASE wire'[c] = Append(wire[c], Head(queue[c]))
      BY <2>5, <3>1, <3>2, AppendFacts DEF Written
    <3>3. CASE wire'[c] = wire[c] /\ Head(queue[c]) \in Oversized
      BY <3>1, <3>3 DEF Written
    <3> QED
      BY <2>2, <3>2, <3>3
  <2>8. TypeOf(c)'
    BY <2>2, <2>3, <2>4, <2>5, <2>7, LenProperties, ConstantsAssumption DEF TypeOf
  <2>9. PlacesOf(c)'
    BY <1>1, <2>2, <2>3, <2>4, <2>5, <2>6, <2>7, EmptyFacts DEF PlacesOf, Framed, Handed, IsOrdered
  <2>10. EndOf(c)' /\ KeptOf(c)'
    <3>1. EndOf(c)'
      BY <1>1, <2>2, <2>3, <2>4, <2>5 DEF EndOf, Queued
    <3>2. \A m \in Found(c) : m \in Found(c)' \/ m \in Oversized
      BY <2>2, <2>5, <2>7 DEF Found, Handed, Queued, Written
    <3> QED
      BY <3>1, <3>2, <2>2, <2>3, KeptStep, TypesOfOne DEF Sendable
  <2> QED
    BY <2>1, <2>2, <2>7, <2>8, <2>9, <2>10, WorkStep
<1> QED
  BY <1>2, <1>3

-----------------------------------------------------------------------------
(* The calls of the sync side, the spawner and the network.                *)

\* What a step keeps that touches no channel's payloads and no task.
LEMMA QuietStep ==
    ASSUME IndInv, UNCHANGED <<accepted, numAccepted, late, kind, queue, task, reason, buffer,
                               inflight, wire, reported>>,
           registered' \subseteq registered, orders # <<>> => orders' # <<>>,
           dropped => dropped', stopped \subseteq stopped', conn' = conn \/ conn' # "open"
    PROVE  Numbered' /\ Places' /\ TasksEnd' /\ Kept'
<1>1. Numbered' /\ Places'
  BY DEF IndInv, Numbered, Places, PlacesOf, Queued, Framed, Written, Handed, IsOrdered
<1>2. TasksEnd'
  BY DEF IndInv, TasksEnd, EndOf, Queued
<1>3. Kept'
  BY DEF IndInv, Kept, KeptOf, LostTo, Found, Clean, Sendable, Handed
<1> QED
  BY <1>1, <1>2, <1>3

\* A new channel's message is behind those of earlier channels.
LEMMA OpenChannelStep ==
    ASSUME IndInv, OpenChannel
    PROVE  IndInv'
<1> USE DEF OpenChannel
<1>1. /\ opened \in Nat /\ opened + 1 \in Channels /\ creating \in Seq(Channels)
      /\ Channels \in SUBSET Nat /\ kind \in [Channels -> AllKinds \cup {"none"}]
  BY ConstantsAssumption DEF IndInv, TypeOK, Channels
<1>2. PICK k \in Kinds : kind' = [kind EXCEPT ![opened + 1] = k]
  OBVIOUS
<1>3. /\ creating' \in Seq(Channels) /\ ToSet(creating') = ToSet(creating) \cup {opened + 1}
      /\ Increasing(creating')
  <2>1. ASSUME NEW c \in ToSet(creating) PROVE c < opened + 1
    <3>1. c \in Nat
      BY <1>1, <2>1, ToSetType
    <3>2. c <= opened
      BY <2>1 DEF IndInv, CreatingShape
    <3> QED
      BY <1>1, <3>1, <3>2
  <2> QED
    BY <1>1, <2>1, AppendFacts DEF IndInv, CreatingShape
<1>4. TypeOK'
  <2>1. kind' \in [Channels -> AllKinds \cup {"none"}] /\ opened' \in 0..MaxChannels
    BY <1>1, <1>2, ConstantsAssumption DEF Channels
  <2> QED
    BY <1>1, <1>3, <2>1 DEF IndInv, TypeOK, tableVars, acceptVars, closeVars, taskVars, netVars
<1>5. UNCHANGED <<accepted, numAccepted, late, orders, refuses, dropped, queue, task, reason, buffer,
                  inflight, wire, reported, conn, stopped, spawner>>
      /\ registered' = registered \cup {opened + 1}
  BY DEF tableVars, acceptVars, closeVars, taskVars, netVars
<1>6. CreatingShape'
  <2>1. ASSUME NEW c \in ToSet(creating') PROVE c <= opened' /\ task'[c] = "unborn"
    <3>1. CASE c \in ToSet(creating)
      <4>1. c \in Nat /\ c <= opened /\ task[c] = "unborn"
        BY <1>1, <3>1, ToSetType DEF IndInv, CreatingShape
      <4> QED
        BY <1>1, <1>5, <4>1
    <3>2. CASE c = opened + 1
      BY <1>1, <1>5, <3>2 DEF IndInv, CreatingShape
    <3> QED
      BY <1>3, <3>1, <3>2
  <2>2. ASSUME NEW c \in Channels, c > opened'
        PROVE  /\ kind'[c] = "none" /\ accepted'[c] = <<>>
               /\ c \notin registered' /\ task'[c] = "unborn"
    <3>1. c > opened /\ c # opened + 1
      BY <1>1, <2>2
    <3> QED
      BY <1>1, <1>2, <1>5, <3>1 DEF IndInv, CreatingShape
  <2> QED
    BY <1>3, <2>1, <2>2 DEF CreatingShape
<1>7. Places'
  <2>1. ASSUME NEW c \in Channels, c # opened + 1 PROVE PlacesOf(c)'
    <3>1. kind'[c] = kind[c] /\ PlacesOf(c)
      BY <1>1, <1>2, <2>1 DEF IndInv, Places
    <3> QED
      BY <1>5, <3>1 DEF PlacesOf, Queued, Framed, Written, Handed, IsOrdered
  <2>2. ASSUME NEW c \in Channels, c = opened + 1 PROVE PlacesOf(c)'
    <3>1. accepted[c] = <<>> /\ PlacesOf(c) /\ ~IsOrdered(c)
      BY <1>1, <2>2 DEF IndInv, Places, CreatingShape, IsOrdered
    <3>2. /\ Queued(c) = {} /\ Framed(c) = {} /\ Written(c) = {} /\ Handed(c) = {}
          /\ buffer[c] = <<>>
      BY <3>1, EmptyFacts DEF PlacesOf
    <3>3. inflight[c] = {}
      <4>1. \A p \in inflight[c] : p[1] \in Handed(c)
        BY DEF Handed
      <4> QED
        BY <3>2, <4>1
    <3> QED
      BY <1>5, <3>1, <3>2, <3>3 DEF PlacesOf, Queued, Framed, Written, Handed
  <2> QED
    BY <2>1, <2>2 DEF Places
<1>8. Numbered' /\ Kept' /\ CloseFlushesSpawned'
  BY <1>5 DEF IndInv, Numbered, Kept, KeptOf, LostTo, Found, Clean, Sendable, Handed,
         CloseFlushesSpawned
<1>10. TasksEnd'
  <2>1. task[opened + 1] = "unborn"
    BY <1>1 DEF IndInv, CreatingShape
  <2> QED
    BY <1>5, <2>1 DEF IndInv, TasksEnd, EndOf, Queued
<1>9. SpawnerEnds'
  BY <1>5 DEF IndInv, SpawnerEnds, Alive
<1> QED
  BY <1>4, <1>6, <1>7, <1>8, <1>9, <1>10 DEF IndInv

\* An accepted payload is the last of its queue and the newest of all.
LEMMA SendPayloadStep ==
    ASSUME IndInv, NEW c \in Channels, SendPayload(c)
    PROVE  IndInv'
<1> USE DEF SendPayload
<1> DEFINE n == numAccepted + 1
<1>1. /\ n \in Payloads /\ n \in Nat /\ numAccepted \in Nat /\ numAccepted' = n
      /\ Payloads \in SUBSET Nat
      /\ TypeOf(c) /\ PlacesOf(c) /\ KeptOf(c) /\ accepted[c] \in Seq(Payloads)
  BY ConstantsAssumption, TypesOfOne DEF IndInv, TypeOK, Payloads
<1>2. /\ accepted'[c] = Append(accepted[c], n) /\ queue'[c] = Append(queue[c], n)
      /\ accepted' = [accepted EXCEPT ![c] = accepted'[c]] /\ queue' = [queue EXCEPT ![c] = queue'[c]]
      /\ \A d \in Channels : d # c => accepted'[d] = accepted[d] /\ queue'[d] = queue[d]
  BY DEF IndInv, TypeOK
<1>3. /\ UNCHANGED <<opened, kind, registered, orders, refuses, dropped, creating, spawner>>
      /\ UNCHANGED <<task, missed, reason, buffer, inflight, wire, reported, conn, stopped>>
      /\ late' = IF orders = <<>> THEN late ELSE late \cup {n}
  BY DEF tableVars, closeVars, taskVars, netVars
<1>4. /\ c \in registered /\ ~dropped /\ task[c] # "done" /\ Len(queue[c]) < QueueSize
      /\ spawner # "done"
  <2>1. Receiving(c) => task[c] # "done"
    BY DEF Receiving, Alive, IndInv, CreatingShape
  <2>2. Receiving(c) => spawner # "done"
    BY EmptyFacts DEF Receiving, IndInv, SpawnerEnds
  <2> QED
    BY <2>1, <2>2
<1> HIDE DEF SendPayload, n
<1>5. \A m \in ToSet(accepted[c]) : m \in Nat /\ m < n
  <2>1. \A m \in ToSet(accepted[c]) : m \in Nat /\ m <= numAccepted
    BY <1>1, ToSetType DEF IndInv, Numbered
  <2> QED
    BY <1>1, <2>1 DEF n
<1>6. /\ ToSet(accepted'[c]) = ToSet(accepted[c]) \cup {n} /\ accepted'[c] \in Seq(Payloads)
      /\ Increasing(accepted'[c])
  BY <1>1, <1>2, <1>5, AppendFacts DEF IndInv, Numbered
<1>7. \A m \in Queued(c) \cup Framed(c) \cup Written(c) \cup Handed(c) : m \in Nat /\ m < n
  BY <1>1, <1>5 DEF PlacesOf
<1>8. /\ Queued(c)' = Queued(c) \cup {n} /\ queue'[c] \in Seq(Payloads)
      /\ Len(queue'[c]) = Len(queue[c]) + 1 /\ Len(queue[c]) \in Nat /\ Increasing(queue'[c])
  BY <1>1, <1>2, <1>7, AppendFacts DEF Queued, TypeOf, PlacesOf
<1>9. TypeOK'
  <2>1. \A d \in Channels : Len(queue'[d]) <= QueueSize
    <3>1. Len(queue'[c]) <= QueueSize
      BY <1>4, <1>8, ConstantsAssumption
    <3>2. \A d \in Channels : Len(queue[d]) <= QueueSize
      BY DEF IndInv, TypeOK
    <3> QED
      BY <1>2, <3>1, <3>2
  <2>2. accepted' \in [Channels -> Seq(Payloads)] /\ queue' \in [Channels -> Seq(Payloads)]
    BY <1>2, <1>6, <1>8 DEF IndInv, TypeOK
  <2>3. numAccepted' \in 0..MaxPayloads
    BY <1>1 DEF Payloads
  <2>4. late' \subseteq Payloads
    BY <1>1, <1>3 DEF IndInv, TypeOK
  <2> QED
    BY <1>3, <2>1, <2>2, <2>3, <2>4 DEF IndInv, TypeOK
<1>10. CreatingShape'
  <2>1. c <= opened
    BY <1>4, ConstantsAssumption DEF IndInv, TypeOK, CreatingShape, Channels
  <2>2. \A d \in Channels : d > opened => d # c
    BY <2>1, ConstantsAssumption DEF IndInv, TypeOK, Channels
  <2> QED
    BY <1>2, <1>3, <2>2 DEF IndInv, CreatingShape, tableVars, acceptVars, closeVars, taskVars, netVars
<1>11. Numbered'
  <2>1. ASSUME NEW d \in Channels, d # c, NEW m \in ToSet(accepted[d]) PROVE m <= n
    <3>1. m \in Nat /\ m <= numAccepted
      BY <1>1, <2>1, TypesOfOne, ToSetType DEF IndInv, Numbered
    <3> QED
      BY <1>1, <3>1 DEF n
  <2> QED
    <3>1. \A m \in ToSet(accepted'[c]) : m <= n
      BY <1>1, <1>5, <1>6
    <3>2. \A d \in Channels : Increasing(accepted[d])
      BY DEF IndInv, Numbered
    <3> QED
      BY <1>1, <1>2, <1>6, <2>1, <3>1, <3>2 DEF Numbered
<1>12. ASSUME NEW d \in Channels PROVE PlacesOf(d)' /\ EndOf(d)' /\ KeptOf(d)'
  <2>1. CASE d # c
    <3>1. late \subseteq late'
      BY <1>3
    <3> QED
      BY <1>2, <1>3, <2>1, <3>1, TypesOfOne, UnchangedOf
  <2>2. PlacesOf(c)'
    <3>1. /\ Framed(c)' = Framed(c) /\ Written(c)' = Written(c) /\ Handed(c)' = Handed(c)
          /\ IsOrdered(c)' = IsOrdered(c)
          /\ UNCHANGED <<buffer, wire, inflight>>
      BY <1>3 DEF tableVars, acceptVars, closeVars, taskVars, netVars, Framed, Written, Handed, IsOrdered
    <3>2. n \notin Queued(c) \cup Framed(c) \cup Written(c) \cup Handed(c)
      BY <1>7, <1>1
    <3> QED
      BY <1>1, <1>6, <1>7, <1>8, <3>1, <3>2 DEF PlacesOf
  <2>3. EndOf(c)'
    BY <1>3, <1>4, <1>8, TypesOfOne DEF EndOf
  <2>4. KeptOf(c)'
    <3>1. Sendable(c)' \subseteq Sendable(c) \cup {n} /\ Found(c)' = Found(c) \cup {n}
      BY <1>3, <1>6, <1>8 DEF Sendable, Found, Queued, Handed
    <3>2. ASSUME NEW m, LostTo(c, m) PROVE LostTo(c, m)'
      BY <1>3, <1>4, <1>6, <3>2 DEF LostTo, Clean
    <3> QED
      BY <1>3, <3>1, <3>2, TypesOfOne DEF KeptOf
  <2> QED
    BY <2>1, <2>2, <2>3, <2>4
<1>13. SpawnerEnds' /\ CloseFlushesSpawned'
  BY <1>3, <1>4 DEF IndInv, SpawnerEnds, CloseFlushesSpawned, Alive, tableVars, acceptVars, closeVars, taskVars, netVars
<1> QED
  BY <1>9, <1>10, <1>11, <1>12, <1>13 DEF IndInv, Places, TasksEnd, Kept

\* A channel that is closed keeps its queue.
LEMMA CloseChannelStep ==
    ASSUME IndInv, NEW c \in Channels, CloseChannel(c)
    PROVE  IndInv'
<1> USE DEF CloseChannel
<1>1. TypeOK' /\ CreatingShape'
  BY DEF IndInv, TypeOK, CreatingShape, tableVars, acceptVars, closeVars, taskVars, netVars
<1>2. SpawnerEnds' /\ CloseFlushesSpawned'
  BY DEF IndInv, SpawnerEnds, CloseFlushesSpawned, Alive, Clean, tableVars, acceptVars, closeVars, taskVars, netVars
<1> QED
  BY <1>1, <1>2, QuietStep DEF IndInv, tableVars, acceptVars, closeVars, taskVars, netVars

\* An order, a drop and a late Connected leave the payloads where they are.
LEMMA CloseStep ==
    ASSUME IndInv, Drop \/ ConnectedApplied \/ \E r \in Orders : Close(r)
    PROVE  IndInv'
<1> USE DEF Drop, ConnectedApplied, Close
<1>1. /\ UNCHANGED <<opened, kind, registered, acceptVars, creating, queue, spawner, taskVars, netVars>>
      /\ refuses' \in BOOLEAN /\ dropped' \in BOOLEAN /\ (dropped => dropped')
  BY ConstantsAssumption DEF IndInv, TypeOK, tableVars
<1>2. /\ orders' \in Seq(Orders) /\ Len(orders') <= 2 /\ (~refuses' => Len(orders') <= 1)
      /\ orders # <<>> => orders' # <<>>
  <2>0. orders \in Seq(Orders) /\ Len(orders) \in Nat
    BY LenProperties DEF IndInv, TypeOK
  <2>1. Len(orders) <= 2 /\ (~refuses => Len(orders) <= 1)
    BY DEF IndInv, TypeOK, SpawnerEnds
  <2>2. CASE orders' = orders
    <3>1. ~refuses' => ~refuses \/ Len(orders) = 1
      BY DEF Drop, ConnectedApplied, Close
    <3> HIDE DEF Drop, ConnectedApplied, Close
    <3>2. PICK n \in Nat : n = Len(orders)
      BY <2>0
    <3>3. ~refuses' => n <= 1
      <4>1. ~refuses' => n <= 1 \/ n = 1
        BY <2>1, <3>1, <3>2
      <4> QED
        BY <4>1
    <3> QED
      BY <2>0, <2>1, <2>2, <3>2, <3>3
  <2>3. CASE \E r \in Orders : ~refuses /\ orders' = Append(orders, r) /\ refuses'
    <3>1. PICK r \in Orders : ~refuses /\ orders' = Append(orders, r) /\ refuses'
      BY <2>3
    <3>2. orders' \in Seq(Orders) /\ Len(orders') = Len(orders) + 1
      BY <2>0, <3>1, AppendProperties
    <3>3. Len(orders') <= 2 /\ orders' # <<>>
      BY <2>0, <2>1, <3>1, <3>2, EmptySeq
    <3> QED
      BY <3>1, <3>2, <3>3
  <2> QED
    BY <2>1, <2>2, <2>3
<1> HIDE DEF Drop, ConnectedApplied, Close
<1>3. TypeOK'
  BY <1>1, <1>2 DEF IndInv, TypeOK, acceptVars, taskVars, netVars
<1>4. CreatingShape' /\ SpawnerEnds' /\ CloseFlushesSpawned'
  BY <1>1, <1>2 DEF IndInv, CreatingShape, SpawnerEnds, CloseFlushesSpawned, Clean, Alive,
                    acceptVars, taskVars, netVars
<1> QED
  BY <1>1, <1>2, <1>3, <1>4, QuietStep DEF IndInv, acceptVars, taskVars, netVars

\* The spawner starts the first channel that waits for its task.
LEMMA SpawnTaskStep ==
    ASSUME IndInv, SpawnTask
    PROVE  IndInv'
<1> USE DEF SpawnTask
<1>1. creating \in Seq(Channels) /\ Channels \in SUBSET Nat /\ Increasing(creating)
  BY ConstantsAssumption DEF IndInv, TypeOK, CreatingShape, Channels
<1>0. PICK c : c = Head(creating)
  OBVIOUS
<1>2. /\ c \in Channels /\ Tail(creating) \in Seq(Channels)
      /\ ToSet(creating) = {c} \cup ToSet(Tail(creating))
      /\ Increasing(Tail(creating)) /\ \A d \in ToSet(Tail(creating)) : c < d
  BY <1>0, <1>1, TailFacts
<1>3. c \notin ToSet(Tail(creating)) /\ c <= opened /\ task[c] = "unborn"
  BY <1>1, <1>2 DEF IndInv, CreatingShape
<1>4. /\ task'[c] \in {"opening", "running"} /\ task' = [task EXCEPT ![c] = task'[c]]
      /\ \A d \in Channels : d # c => task'[d] = task[d]
      /\ missed' = [missed EXCEPT ![c] = Len(orders)]
  BY <1>0, <1>2 DEF IndInv, TypeOK
<1>5. /\ UNCHANGED <<syncVars, queue, spawner, reason, buffer, inflight, wire, reported, netVars>>
      /\ creating' = Tail(creating) /\ spawner = "listening"
  OBVIOUS
<1> HIDE DEF SpawnTask
<1>6. TypeOK'
  <2>1. creating' \in Seq(Channels) /\ missed' \in [Channels -> 0..2]
    <3>1. Len(orders) \in 0..2
      <4>1. orders \in Seq(Orders)
        BY DEF IndInv, TypeOK
      <4>2. PICK n \in Nat : n = Len(orders)
        BY <4>1, LenProperties
      <4>3. n <= 2
        BY <4>2 DEF IndInv, TypeOK
      <4>4. n \in 0..2
        BY <4>3
      <4> QED
        BY <4>2, <4>4
    <3> QED
      BY <1>2, <1>4, <1>5, <3>1 DEF IndInv, TypeOK
  <2>2. task' \in [Channels -> {"unborn", "opening", "running", "draining", "flushing", "done"}]
    BY <1>2, <1>4 DEF IndInv, TypeOK
  <2> QED
    BY <1>5, <2>1, <2>2 DEF IndInv, TypeOK, syncVars, tableVars, acceptVars, closeVars, netVars
<1>7. CreatingShape'
  <2>1. \A d \in Channels : d > opened => d # c
    BY <1>1, <1>2, <1>3 DEF IndInv, TypeOK
  <2>2. ToSet(Tail(creating)) \subseteq Channels
    BY <1>2, ToSetType
  <2> QED
    BY <1>2, <1>3, <1>4, <1>5, <2>1, <2>2 DEF IndInv, CreatingShape, syncVars, tableVars, acceptVars, closeVars, netVars
<1>8. ASSUME NEW d \in Channels PROVE PlacesOf(d)' /\ EndOf(d)' /\ KeptOf(d)'
  <2>1. CASE d # c
    BY <1>4, <1>5, <2>1, TypesOfOne, UnchangedOf DEF syncVars, tableVars, acceptVars, closeVars, netVars
  <2>2. PlacesOf(c)'
    BY <1>2, <1>5, TypesOfOne DEF PlacesOf, syncVars, tableVars, acceptVars, closeVars, netVars, Queued, Framed, Written, Handed, IsOrdered
  <2>3. EndOf(c)' /\ KeptOf(c)'
    BY <1>2, <1>3, <1>4, <1>5, TypesOfOne
       DEF EndOf, KeptOf, LostTo, Found, Clean, Sendable, syncVars, tableVars, acceptVars, closeVars, netVars, Queued, Framed, Written, Handed
  <2> QED
    BY <2>1, <2>2, <2>3
<1>9. Numbered' /\ SpawnerEnds' /\ CloseFlushesSpawned'
  BY <1>5 DEF IndInv, Numbered, SpawnerEnds, CloseFlushesSpawned, syncVars, tableVars, acceptVars, closeVars, netVars
<1> QED
  BY <1>6, <1>7, <1>8, <1>9 DEF IndInv, Places, TasksEnd, Kept

\* The spawner stops for the order or the drop it hears.
LEMMA SpawnerHearsCloseStep ==
    ASSUME IndInv, SpawnerHearsClose
    PROVE  IndInv'
<1> USE DEF SpawnerHearsClose
<1>1. TypeOK' /\ CreatingShape'
  BY DEF IndInv, TypeOK, CreatingShape, syncVars, tableVars, acceptVars, closeVars, netVars, taskVars
<1>2. SpawnerEnds' /\ CloseFlushesSpawned'
  BY DEF IndInv, SpawnerEnds, CloseFlushesSpawned, Alive, Clean, syncVars, tableVars, acceptVars, closeVars, netVars, taskVars
<1> QED
  BY <1>1, <1>2, QuietStep DEF IndInv, TypeOK, syncVars, tableVars, acceptVars, closeVars, netVars, taskVars

\* The spawner closes the connection when every task has ended.
LEMMA SpawnerClosesStep ==
    ASSUME IndInv, SpawnerCloses
    PROVE  IndInv'
<1> USE DEF SpawnerCloses
<1>1. /\ UNCHANGED <<syncVars, taskVars, stopped>> /\ creating' = <<>> /\ spawner' = "done"
      /\ spawner = "waiting" /\ conn' = IF conn = "open" THEN "closed" ELSE conn
      /\ \A c \in Channels : ~Alive(c) /\ inflight[c] = {}
      /\ queue' = [c \in Channels |-> IF c \in ToSet(creating) THEN <<>> ELSE queue[c]]
  OBVIOUS
<1> HIDE DEF SpawnerCloses
<1>2. TypeOK'
  <2>1. /\ queue' \in [Channels -> Seq(Payloads)] /\ \A c \in Channels : Len(queue'[c]) <= QueueSize
        /\ creating' \in Seq(Channels)
    BY <1>1, ConstantsAssumption DEF IndInv, TypeOK
  <2> QED
    BY <1>1, <2>1 DEF IndInv, TypeOK, syncVars, tableVars, acceptVars, closeVars, netVars, taskVars
<1>3. CreatingShape' /\ Numbered'
  BY <1>1, EmptyFacts DEF IndInv, CreatingShape, Numbered, syncVars, tableVars, acceptVars, closeVars, netVars, taskVars
<1>4. ASSUME NEW c \in Channels PROVE PlacesOf(c)' /\ EndOf(c)' /\ KeptOf(c)'
  <2>1. queue'[c] \in {queue[c], <<>>} /\ buffer'[c] \in {buffer[c], <<>>}
        /\ wire'[c] = wire[c] /\ inflight'[c] = inflight[c] /\ UNCHANGED <<accepted, kind>>
        /\ UNCHANGED <<registered, orders, late, dropped, task, reason, inflight>>
        /\ conn' # "open" /\ buffer'[c] = buffer[c]
    BY <1>1 DEF syncVars, tableVars, acceptVars, closeVars, netVars, taskVars
  <2>2. PlacesOf(c)'
    BY <2>1, Leaving
  <2>3. EndOf(c)' /\ KeptOf(c)'
    BY <1>1, <2>1, TypesOfOne, EmptyFacts DEF EndOf, KeptOf, Queued, Alive
  <2> QED
    BY <2>2, <2>3
<1>5. SpawnerEnds'
  BY <1>1 DEF IndInv, SpawnerEnds, Alive, syncVars, tableVars, acceptVars, closeVars, netVars, taskVars
<1>6. CloseFlushesSpawned'
  <2> SUFFICES ASSUME conn' = "closed", NEW c \in Clean \ stopped, task[c] = "done",
                      reason[c] # "PeerClosed"
               PROVE  ToSet(accepted[c]) \ late \subseteq ToSet(wire[c])
    BY <1>1 DEF CloseFlushesSpawned, Clean, syncVars, tableVars, acceptVars, closeVars, taskVars
  <2>1. c \in Channels /\ Sendable(c) = ToSet(accepted[c])
    BY DEF Clean, Sendable
  <2>2. conn = "open"
    BY <1>1 DEF IndInv, SpawnerEnds
  <2>3. Found(c) = ToSet(wire[c])
    BY <1>1, <2>1, TypesOfOne, EmptyFacts DEF EndOf, Found, Handed
  <2>4. \A m \in Sendable(c) \ Found(c) : m \in late
    BY <2>1, <2>2, TypesOfOne DEF KeptOf, LostTo
  <2> QED
    BY <2>1, <2>3, <2>4
<1> QED
  BY <1>2, <1>3, <1>4, <1>5, <1>6 DEF IndInv, Places, TasksEnd, Kept

\* A stream the peer stops is no place of payloads.
LEMMA StopStreamStep ==
    ASSUME IndInv, NEW c \in Channels, StopStream(c)
    PROVE  IndInv'
<1> USE DEF StopStream
<1>1. TypeOK' /\ CreatingShape'
  BY DEF IndInv, TypeOK, CreatingShape, syncVars, tableVars, acceptVars, closeVars, taskVars
<1>2. SpawnerEnds' /\ CloseFlushesSpawned'
  BY DEF IndInv, SpawnerEnds, CloseFlushesSpawned, Alive, syncVars, tableVars, acceptVars, closeVars,
         taskVars
<1> QED
  BY <1>1, <1>2, QuietStep DEF IndInv, syncVars, tableVars, acceptVars, closeVars, taskVars

\* A lost connection ends every claim about its payloads.
LEMMA ConnectionLostStep ==
    ASSUME IndInv, ConnectionLost
    PROVE  IndInv'
<1> USE DEF ConnectionLost
<1>1. TypeOK' /\ CreatingShape'
  BY DEF IndInv, TypeOK, CreatingShape, syncVars, tableVars, acceptVars, closeVars, netVars, taskVars
<1>2. SpawnerEnds' /\ CloseFlushesSpawned'
  BY DEF IndInv, SpawnerEnds, CloseFlushesSpawned, Alive, syncVars, tableVars, acceptVars, closeVars, netVars, taskVars
<1> QED
  BY <1>1, <1>2, QuietStep DEF IndInv, TypeOK, syncVars, tableVars, acceptVars, closeVars, netVars, taskVars

-----------------------------------------------------------------------------
(* The invariant, and what follows from it.                                *)

\* A connection without channels is in the invariant.
LEMMA InitIndInv == Init => IndInv
<1> SUFFICES ASSUME Init PROVE IndInv
  OBVIOUS
<1> USE DEF Init
<1>1. TypeOK
  <2>1. \A S : <<>> \in Seq(S)
    BY EmptySeq
  <2>2. Len(<<>>) = 0
    BY EmptySeq
  <2>3. /\ opened \in 0..MaxChannels /\ numAccepted \in 0..MaxPayloads
        /\ \A c \in Channels : Len(queue[c]) <= QueueSize
    BY <2>2, ConstantsAssumption
  <2>4. orders \in Seq(Orders) /\ Len(orders) <= 2 /\ late \subseteq Payloads /\ reason \in [Channels -> Orders \cup {"none"}]
    BY <2>1, <2>2
  <2>5. /\ accepted \in [Channels -> Seq(Payloads)] /\ queue \in [Channels -> Seq(Payloads)]
        /\ buffer \in [Channels -> Seq(Payloads)] /\ wire \in [Channels -> Seq(Payloads)]
        /\ creating \in Seq(Channels)
    BY <2>1
  <2>6. missed \in [Channels -> 0..2] /\ inflight \in [Channels -> SUBSET (Payloads \X {"loop", "drain"})]
    OBVIOUS
  <2>7. /\ kind \in [Channels -> AllKinds \cup {"none"}]
        /\ task \in [Channels -> {"unborn", "opening", "running", "draining", "flushing", "done"}]
    OBVIOUS
  <2> QED
    BY <2>3, <2>4, <2>5, <2>6, <2>7 DEF TypeOK
<1>2. CreatingShape /\ Numbered
  BY EmptyFacts DEF CreatingShape, Numbered
<1>3. Places
  BY EmptyFacts DEF Places, PlacesOf, Queued, Framed, Written, Handed
<1>4. TasksEnd /\ SpawnerEnds /\ CloseFlushesSpawned
  BY EmptySeq DEF TasksEnd, EndOf, SpawnerEnds, CloseFlushesSpawned
<1>5. Kept
  BY EmptyFacts DEF Kept, KeptOf, Sendable
<1> QED
  BY <1>1, <1>2, <1>3, <1>4, <1>5 DEF IndInv

\* Every step keeps the invariant.
LEMMA NextIndInv == IndInv /\ [Next]_vars => IndInv'
<1> SUFFICES ASSUME IndInv, [Next]_vars PROVE IndInv'
  OBVIOUS
<1>1. CASE OpenChannel \/ \E c \in Channels : SendPayload(c) \/ CloseChannel(c)
  BY <1>1, OpenChannelStep, SendPayloadStep, CloseChannelStep
<1>2. CASE Drop \/ ConnectedApplied \/ \E r \in Orders : Close(r)
  BY <1>2, CloseStep
<1>3. CASE Spawner
  BY <1>3, SpawnTaskStep, SpawnerHearsCloseStep, SpawnerClosesStep DEF Spawner
<1>4. CASE \E c \in Channels : Work(c)
  BY <1>4, OpenStreamStep, HearStep, DrainEndsStep, FinishStep, FramePayloadStep, WriteFrameStep, HandPayloadStep,
     SendDatagramStep DEF Work
<1>5. CASE \E c \in Channels, m \in Payloads, from \in {"loop", "drain"} : WriteUnordered(c, m, from)
  BY <1>5, WriteUnorderedStep
<1>6. CASE ConnectionLost \/ \E c \in Channels : StopStream(c)
  BY <1>6, ConnectionLostStep, StopStreamStep
<1>7. CASE UNCHANGED vars
  <2>1. TypeOK' /\ CreatingShape' /\ SpawnerEnds' /\ CloseFlushesSpawned'
    BY <1>7 DEF vars, syncVars, tableVars, acceptVars, closeVars, netVars, taskVars, IndInv, TypeOK, CreatingShape, SpawnerEnds, Alive,
                CloseFlushesSpawned, Clean
  <2> QED
    BY <1>7, <2>1, QuietStep DEF vars, syncVars, tableVars, acceptVars, closeVars, netVars, taskVars, IndInv
<1> QED
  BY <1>1, <1>2, <1>3, <1>4, <1>5, <1>6, <1>7 DEF Next

\* The invariant holds of every run.
THEOREM Inductive == Spec => []IndInv
  BY InitIndInv, NextIndInv, PTL DEF Spec

\* The types of the channels' state: no queue is ever longer than its size.
THEOREM TypeCorrect == Spec => []TypeOK
<1>1. IndInv => TypeOK
  BY DEF IndInv
<1> QED
  BY <1>1, Inductive, PTL

\* No channel writes a payload twice or one of another channel, whatever
\* interrupts its task (reliable/send.rs:34-149, unreliable/send.rs:9-66).
THEOREM WritesOnce == Spec => []NoDuplicates
<1>1. IndInv => NoDuplicates
  BY DEF IndInv, Places, PlacesOf, NoDuplicates, Written
<1> QED
  BY <1>1, Inductive, PTL

\* No accepted payload of a working connection disappears unnoticed
\* (reliable/send.rs:46-57).
THEOREM NothingLostSilently == Spec => []NoSilentLoss
<1>1. IndInv => NoSilentLoss
  BY DEF IndInv, Kept, KeptOf, LostTo, NoSilentLoss
<1> QED
  BY <1>1, Inductive, PTL

\* A local close lets every channel whose task was spawned write all it accepted
\* (peer_connection.rs:233).
THEOREM CloseFlushes == Spec => []CloseFlushesSpawned
<1>1. IndInv => CloseFlushesSpawned
  BY DEF IndInv
<1> QED
  BY <1>1, Inductive, PTL

-----------------------------------------------------------------------------
(* Each ordered channel implements FifoChannels.                           *)

\* Both modules take ToSet from the same library.
LEMMA SameToSet == \A s : Fifo!ToSet(s) = ToSet(s)
  BY DEF Fifo!ToSet, ToSet

\* No ordered channel has accepted or delivered anything at the start.
LEMMA InitFifo == Init => Fifo!Init
  BY DEF Init, Fifo!Init, Sent, Delivered, IsOrdered

\* What a step that accepts and writes nothing is to FifoChannels.
LEMMA SentUnchanged ==
    ASSUME UNCHANGED <<accepted, wire, kind>>
    PROVE  UNCHANGED <<Sent, Delivered>>
BY DEF Sent, Delivered, IsOrdered

\* The first frame in the buffer of a channel that can write is the oldest
\* payload it owes.
LEMMA OldestOwed ==
    ASSUME IndInv, NEW c \in Channels, buffer[c] # <<>>, conn = "open", c \notin stopped,
           task[c] # "done", reason[c] # "PeerClosed"
    PROVE  /\ Head(buffer[c]) \in Fifo!Owed(c)
           /\ \E i \in 1..Len(Sent[c]) :
                 /\ Sent[c][i] = Head(buffer[c])
                 /\ \A j \in 1..(i - 1) : Sent[c][j] \notin Fifo!Owed(c)
<1>1. /\ TypeOf(c) /\ PlacesOf(c) /\ KeptOf(c) /\ accepted[c] \in Seq(Payloads)
      /\ Payloads \in SUBSET Nat /\ IsOrdered(c) /\ inflight[c] = {}
  BY TypesOfOne DEF PlacesOf
<1>2. Sent[c] = accepted[c] /\ Delivered[c] = wire[c]
  BY <1>1 DEF Sent, Delivered
<1>3. Fifo!Owed(c) = Sendable(c) \ Written(c)
  BY <1>2, SameToSet DEF Fifo!Owed, Sendable, Written
<1>4. /\ Head(buffer[c]) \in Framed(c) /\ Head(buffer[c]) \in Nat
      /\ \A m \in Framed(c) \cup Queued(c) : m = Head(buffer[c]) \/ Head(buffer[c]) < m
  <2>1. /\ Head(buffer[c]) \in Payloads /\ Framed(c) = {Head(buffer[c])} \cup ToSet(Tail(buffer[c]))
        /\ \A m \in ToSet(Tail(buffer[c])) : Head(buffer[c]) < m
    BY <1>1, TailFacts DEF TypeOf, PlacesOf, Framed
  <2> QED
    BY <1>1, <2>1 DEF PlacesOf
<1>5. Head(buffer[c]) \in ToSet(accepted[c]) /\ Head(buffer[c]) \in Sendable(c) \ Written(c)
  BY <1>1, <1>4 DEF PlacesOf, Sendable
<1>6. PICK i \in 1..Len(accepted[c]) : accepted[c][i] = Head(buffer[c])
  BY <1>1, <1>5, ToSetType
<1>7. ASSUME NEW j \in 1..(i - 1), accepted[c][j] \in Sendable(c) \ Written(c)
      PROVE  FALSE
  <2>1. /\ accepted[c][j] < Head(buffer[c]) /\ accepted[c][j] \in Nat
    <3>1. Len(accepted[c]) \in Nat /\ Increasing(accepted[c])
      BY <1>1, LenProperties DEF IndInv, Numbered
    <3>2. j \in 1..Len(accepted[c]) /\ j < i
      BY <1>6, <3>1
    <3>3. accepted[c][j] \in Payloads
      BY <1>1, <3>2, ElementOfSeq
    <3> QED
      BY <1>1, <1>6, <3>1, <3>2, <3>3 DEF Increasing
  <2>2. accepted[c][j] \in Framed(c) \cup Queued(c)
    BY <1>1, <1>7 DEF KeptOf, LostTo, Found, Queued, Framed, Written, Handed
  <2> QED
    BY <1>4, <2>1, <2>2
<1> QED
  BY <1>2, <1>3, <1>5, <1>6, <1>7

\* A payload written by an ordered channel is the one it has to deliver next.
LEMMA WriteFrameDelivers ==
    ASSUME IndInv, NEW c \in Channels, WriteFrame(c)
    PROVE  UNCHANGED <<Sent, Delivered>> \/ \E i \in 1..Len(Sent[c]) : Fifo!Deliver(c, i)
<1> USE DEF WriteFrame, Flushes, Drains
<1>1. UNCHANGED <<accepted, kind>> /\ UNCHANGED Sent
  BY DEF syncVars, tableVars, acceptVars, closeVars, netVars, Sent, IsOrdered
<1>2. CASE conn # "open" \/ c \in stopped
  BY <1>1, <1>2, SentUnchanged
<1>3. CASE conn = "open" /\ c \notin stopped
  <2>1. /\ buffer[c] # <<>> /\ task[c] # "done" /\ reason[c] # "PeerClosed" /\ IsOrdered(c)
        /\ wire \in [Channels -> Seq(Payloads)]
        /\ wire' = [wire EXCEPT ![c] = Append(@, Head(buffer[c]))]
    BY <1>3, TypesOfOne DEF EndOf, PlacesOf, IndInv, TypeOK
  <2> HIDE DEF WriteFrame
  <2>2. Delivered' = [Delivered EXCEPT ![c] = Append(@, Head(buffer[c]))]
    BY <1>1, <2>1 DEF Delivered, IsOrdered
  <2>3. PICK i \in 1..Len(Sent[c]) :
            /\ Sent[c][i] = Head(buffer[c])
            /\ \A j \in 1..(i - 1) : Sent[c][j] \notin Fifo!Owed(c)
    BY <1>3, <2>1, OldestOwed
  <2>4. Head(buffer[c]) \in Fifo!Owed(c)
    BY <1>3, <2>1, OldestOwed
  <2> QED
    BY <1>1, <2>2, <2>3, <2>4 DEF Fifo!Deliver
<1> QED
  BY <1>2, <1>3

\* A payload is accepted once, by one channel.
LEMMA SendPayloadAccepts ==
    ASSUME IndInv, NEW c \in Channels, SendPayload(c)
    PROVE  UNCHANGED <<Sent, Delivered>> \/ \E m \in Payloads : Fifo!Accept(c, m)
<1> USE DEF SendPayload
<1>1. /\ numAccepted' = numAccepted + 1 /\ numAccepted + 1 \in Payloads /\ numAccepted \in Nat
      /\ accepted' = [accepted EXCEPT ![c] = Append(@, numAccepted + 1)]
      /\ UNCHANGED <<kind, wire>> /\ UNCHANGED Delivered
  BY ConstantsAssumption DEF IndInv, TypeOK, Payloads, tableVars, acceptVars, closeVars, taskVars, netVars, Delivered, IsOrdered
<1>2. CASE ~IsOrdered(c)
  <2>1. \A d \in Channels : d # c => accepted'[d] = accepted[d]
    BY <1>1 DEF IndInv, TypeOK
  <2>2. UNCHANGED Sent
    BY <1>1, <1>2, <2>1 DEF Sent, IsOrdered
  <2> QED
    BY <1>1, <2>2
<1>3. CASE IsOrdered(c)
  <2>1. Sent' = [Sent EXCEPT ![c] = Append(@, numAccepted + 1)]
    BY <1>1, <1>3 DEF Sent, IsOrdered, IndInv, TypeOK
  <2>2. ASSUME NEW d \in Channels PROVE numAccepted + 1 \notin ToSet(Sent[d])
    <3>1. \A m \in ToSet(accepted[d]) : m \in Nat /\ m <= numAccepted
      BY TypesOfOne, ToSetType DEF IndInv, Numbered
    <3>2. Sent[d] = accepted[d] \/ Sent[d] = <<>>
      BY DEF Sent
    <3> QED
      BY <1>1, <3>1, <3>2, EmptyFacts
  <2> QED
    BY <1>1, <2>1, <2>2, SameToSet DEF Fifo!Accept
<1> QED
  BY <1>2, <1>3

\* A channel that was not opened has accepted and written nothing.
LEMMA OpenChannelQuiet ==
    ASSUME IndInv, OpenChannel
    PROVE  UNCHANGED <<Sent, Delivered>>
<1>1. opened + 1 \in Channels /\ opened \in Nat
  BY ConstantsAssumption DEF OpenChannel, IndInv, TypeOK, Channels
<1>2. accepted[opened + 1] = <<>> /\ wire[opened + 1] = <<>>
  <2>1. accepted[opened + 1] = <<>> /\ PlacesOf(opened + 1) /\ wire[opened + 1] \in Seq(Payloads)
    BY <1>1 DEF IndInv, CreatingShape, Places, TypeOK
  <2>2. ToSet(wire[opened + 1]) = {}
    BY <2>1, EmptyFacts DEF PlacesOf, Written
  <2>3. wire[opened + 1] # <<>> => wire[opened + 1][1] \in ToSet(wire[opened + 1])
    BY <2>1, ToSetType, EmptySeq
  <2> QED
    BY <2>1, <2>2, <2>3
<1>3. \A c \in Channels : c # opened + 1 => kind'[c] = kind[c]
  BY <1>1 DEF OpenChannel, IndInv, TypeOK
<1>4. UNCHANGED <<accepted, wire>>
  BY DEF OpenChannel, tableVars, acceptVars, closeVars, taskVars, netVars
<1> QED
  BY <1>2, <1>3, <1>4 DEF Sent, Delivered, IsOrdered

\* The tasks of unordered and unreliable channels write to no ordered one.
LEMMA UnorderedQuiet ==
    ASSUME IndInv, NEW c \in Channels,
           \/ SendDatagram(c)
           \/ \E m \in Payloads, from \in {"loop", "drain"} : WriteUnordered(c, m, from)
    PROVE  UNCHANGED <<Sent, Delivered>>
<1>1. ~IsOrdered(c)
  <2>1. inflight[c] # {} => ~IsOrdered(c)
    BY TypesOfOne DEF PlacesOf
  <2> QED
    BY <2>1 DEF SendDatagram, WriteUnordered, IsOrdered
<1>2. \A d \in Channels : d # c => wire'[d] = wire[d]
  BY DEF SendDatagram, WriteUnordered, IndInv, TypeOK
<1>3. UNCHANGED <<accepted, kind>>
  BY DEF SendDatagram, WriteUnordered, syncVars, tableVars, acceptVars, closeVars, netVars
<1> QED
  BY <1>1, <1>2, <1>3 DEF Sent, Delivered, IsOrdered

\* Every step is one of the abstract channels, or a stutter.
LEMMA StepFifo == IndInv /\ [Next]_vars => [Fifo!Next]_<<Sent, Delivered>>
<1> SUFFICES ASSUME IndInv, [Next]_vars PROVE [Fifo!Next]_<<Sent, Delivered>>
  OBVIOUS
<1>1. CASE \E c \in Channels : SendPayload(c) \/ WriteFrame(c)
  BY <1>1, SendPayloadAccepts, WriteFrameDelivers DEF Fifo!Next
<1>2. CASE OpenChannel
  BY <1>2, OpenChannelQuiet
<1>3. CASE \E c \in Channels : SendDatagram(c)
  BY <1>3, UnorderedQuiet
<1>4. CASE \E c \in Channels, m \in Payloads, from \in {"loop", "drain"} : WriteUnordered(c, m, from)
  BY <1>4, UnorderedQuiet
<1>5. CASE \/ Drop \/ ConnectedApplied \/ Spawner \/ ConnectionLost \/ UNCHANGED vars
           \/ \E r \in Orders : Close(r)
  BY <1>5, SentUnchanged
     DEF Drop, ConnectedApplied, Spawner, SpawnTask, SpawnerHearsClose, SpawnerCloses, ConnectionLost, Close,
         vars, syncVars, tableVars, acceptVars, closeVars, netVars, taskVars
<1>6. CASE \E c \in Channels : \/ CloseChannel(c) \/ OpenStream(c) \/ Hear(c) \/ Finish(c)
                               \/ FramePayload(c) \/ HandPayload(c) \/ DrainEnds(c) \/ StopStream(c)
  BY <1>6, SentUnchanged
     DEF CloseChannel, OpenStream, Hear, HearOrder, HearChannelClose, Finish, FramePayload,
         HandPayload, DrainEnds, StopStream, syncVars, tableVars, acceptVars, closeVars, netVars, taskVars
<1> QED
  BY <1>1, <1>2, <1>3, <1>4, <1>5, <1>6 DEF Next, Work

\* Each ordered channel delivers what it accepted in order, without a gap or a
\* repetition, but for what it reports as too long (channels.rs:35,
\* reliable/send.rs:34-85).
THEOREM OrderedIsFifo == Spec => ImplementsFifo
<1>1. Init /\ [][Next]_vars /\ []IndInv => Fifo!Spec
  BY InitFifo, StepFifo, PTL DEF Fifo!Spec
<1> QED
  BY <1>1, Inductive, PTL DEF Spec, ImplementsFifo
==============================================================================
