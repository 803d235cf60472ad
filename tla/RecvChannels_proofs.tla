------------------------- MODULE RecvChannels_proofs -------------------------
(***************************************************************************)
(* Proofs about the receiving half: the bounds of its buffers, the place   *)
(* of every payload and the order of those of a stream, for every set of   *)
(* channels, every size of the queue and of the buffers, and any number of *)
(* payloads and resets.                                                    *)
(***************************************************************************)
EXTENDS RecvChannels, SequenceTheorems, FiniteSetTheorems, TLAPS

\* The vector ends where its last entry does.
BuffersWithinVector == \A c \in Channels : c >= opened => buffers[c] = <<>>

\* The bounds are inductive with the types and the shape of the vector: a payload
\* is pushed to an entry with room, or becomes the first of an entry that did not
\* exist, and so was empty.
IndInv == TypeOK /\ BuffersWithinVector /\ ChannelsBounded

\* What taking the first payload of a queue leaves.
LEMMA TakeFirst ==
    ASSUME NEW S, NEW s \in Seq(S), s # <<>>
    PROVE  Head(s) \in S /\ Tail(s) \in Seq(S) /\ Len(Tail(s)) = Len(s) - 1 /\ Len(s) \in Nat
OBVIOUS

\* What putting a payload at the end of a queue makes.
LEMMA PutLast ==
    ASSUME NEW S, NEW s \in Seq(S), NEW e \in S
    PROVE  Append(s, e) \in Seq(S) /\ Len(Append(s, e)) = Len(s) + 1 /\ Len(s) \in Nat
OBVIOUS

\* The buffers start empty, in a vector of no entries.
LEMMA InitIndInv == Init => IndInv
<1> USE RecvAssumption
<1> SUFFICES ASSUME Init PROVE IndInv
  OBVIOUS
<1>1. TypeOK
  BY DEF Init, TypeOK
<1>2. BuffersWithinVector /\ ChannelsBounded
  BY DEF Init, BuffersWithinVector, ChannelsBounded
<1> QED
  BY <1>1, <1>2 DEF IndInv

\* What one turn of the dispatch loop does to the buffers
\* (recv_channels.rs:79-101).
LEMMA DispatchStep ==
    ASSUME IndInv, DispatchPayload
    PROVE  IndInv'
<1> USE RecvAssumption DEF IndInv
<1> DEFINE c == Head(incoming)[1]
           n == Head(incoming)[2]
<1>1. /\ incoming \in Seq(Payloads) /\ incoming # <<>>
      /\ Len(incoming) <= QueueSize
  BY DEF DispatchPayload, TypeOK
<1>2. /\ Head(incoming) \in Payloads
      /\ Tail(incoming) \in Seq(Payloads)
      /\ Len(Tail(incoming)) <= QueueSize
  BY <1>1, TakeFirst
<1>3. c \in Channels /\ c \in Nat /\ n \in 1..MaxSent
  BY <1>2 DEF Payloads
<1>4. CASE Fits(c)
  <2> HIDE DEF c, n
  <2>1. /\ buffers' = [buffers EXCEPT ![c] = Append(@, n)]
        /\ opened' = IF c < opened THEN opened ELSE c + 1
        /\ refused' = refused
        /\ incoming' = Tail(incoming)
    BY <1>4 DEF DispatchPayload, c, n
  <2>2. buffers \in [Channels -> Seq(1..MaxSent)] /\ opened \in Nat
    BY DEF TypeOK
  <2>3. buffers' \in [Channels -> Seq(1..MaxSent)] /\ opened' \in Nat
    BY <1>3, <2>1, <2>2
  <2>4. TypeOK'
    BY <1>2, <2>1, <2>3 DEF TypeOK, DispatchPayload, netVars, frameVars, cfgVars
  <2>5. BuffersWithinVector'
    BY <1>3, <2>1, <2>2 DEF BuffersWithinVector
  <2>6. ChannelsBounded'
    BY <1>3, <1>4, <2>1, <2>2 DEF ChannelsBounded, Fits
  <2> QED
    BY <2>4, <2>5, <2>6
<1>5. CASE ~Fits(c)
  <2> HIDE DEF c, n
  <2>1. /\ UNCHANGED bufVars
        /\ refused' = refused \cup {Head(incoming)}
        /\ incoming' = Tail(incoming)
    BY <1>5 DEF DispatchPayload, c, n
  <2>2. TypeOK'
    BY <1>2, <2>1 DEF TypeOK, DispatchPayload, netVars, frameVars, cfgVars, bufVars
  <2> QED
    BY <2>1, <2>2 DEF BuffersWithinVector, ChannelsBounded, bufVars
<1> QED
  BY <1>4, <1>5

\* The steps that leave the vector of buffers alone.
LEMMA VectorUntouched ==
    ASSUME IndInv, TypeOK', UNCHANGED bufVars
    PROVE  IndInv'
BY DEF IndInv, BuffersWithinVector, ChannelsBounded, bufVars

\* The steps that empty every buffer, and may cut the vector.
LEMMA VectorEmptied ==
    ASSUME IndInv, TypeOK', opened' \in {0, opened},
           buffers' = [c \in Channels |-> <<>>]
    PROVE  IndInv'
BY RecvAssumption DEF IndInv, TypeOK, BuffersWithinVector, ChannelsBounded

\* The bounds survive every step of the network, the systems and the user.
LEMMA NextIndInv == IndInv /\ [Next]_vars => IndInv'
<1> USE RecvAssumption
<1> SUFFICES ASSUME IndInv, [Next]_vars PROVE IndInv'
  OBVIOUS
<1>0. TypeOK
  BY DEF IndInv
<1> USE DEF netVars, bufVars, sinkVars, frameVars, cfgVars
<1>1. ASSUME NEW c \in Channels, PeerSends(c) PROVE IndInv'
  <2>1. sent[c] + 1 \in 1..MaxSent
    <3>1. sent[c] \in 0..MaxSent /\ sent[c] < Limit[c] /\ Limit[c] \in 0..MaxSent
      BY <1>0, <1>1 DEF PeerSends, TypeOK
    <3> QED
      BY <3>1
  <2>2. sent' \in [Channels -> 0..MaxSent]
    BY <1>0, <1>1, <2>1 DEF PeerSends, TypeOK
  <2>3. /\ pending' \in [Channels -> SUBSET (1..MaxSent)]
        /\ cutOff' \subseteq Payloads
    <3>1. CASE IsCut(c, sent[c] + 1)
      BY <1>0, <1>1, <2>1, <3>1 DEF PeerSends, TypeOK, Payloads
    <3>2. CASE ~IsCut(c, sent[c] + 1)
      <4>1. cutOff' = cutOff /\ pending' = [pending EXCEPT ![c] = @ \cup {sent[c] + 1}]
        BY <1>1, <3>2 DEF PeerSends
      <4>2. pending \in [Channels -> SUBSET (1..MaxSent)] /\ cutOff \subseteq Payloads
        BY <1>0 DEF TypeOK
      <4> QED
        BY <2>1, <4>1, <4>2
    <3> QED
      BY <3>1, <3>2
  <2>4. TypeOK'
    BY <1>0, <1>1, <2>2, <2>3 DEF PeerSends, TypeOK
  <2> QED
    BY <1>1, <2>4, VectorUntouched DEF PeerSends
<1>2. ASSUME NEW c \in Channels, LoseDatagram(c) PROVE IndInv'
  <2>1. PICK n \in pending[c] : /\ pending' = [pending EXCEPT ![c] = @ \ {n}]
                                /\ gone' = gone \cup {<<c, n>>}
    BY <1>2 DEF LoseDatagram
  <2>2. n \in 1..MaxSent
    BY <1>0 DEF TypeOK
  <2>3. pending' \in [Channels -> SUBSET (1..MaxSent)] /\ gone' \subseteq Payloads
    <3>1. pending \in [Channels -> SUBSET (1..MaxSent)] /\ gone \subseteq Payloads
      BY <1>0 DEF TypeOK
    <3> QED
      BY <2>1, <2>2, <3>1 DEF Payloads
  <2>4. TypeOK'
    BY <1>0, <1>2, <2>3 DEF LoseDatagram, TypeOK
  <2> QED
    BY <1>2, <2>4, VectorUntouched DEF LoseDatagram
<1>3. ASSUME NEW c \in Channels, Receive(c) PROVE IndInv'
  <2>1. PICK n \in pending[c] : /\ pending' = [pending EXCEPT ![c] = @ \ {n}]
                                /\ incoming' = Append(incoming, <<c, n>>)
    BY <1>3 DEF Receive
  <2>2. <<c, n>> \in Payloads
    BY <1>0 DEF TypeOK, Payloads
  <2>3. incoming' \in Seq(Payloads) /\ Len(incoming') <= QueueSize
    <3>1. incoming \in Seq(Payloads) /\ Len(incoming) < QueueSize
      BY <1>0, <1>3 DEF Receive, TypeOK
    <3>2. incoming' \in Seq(Payloads) /\ Len(incoming') = Len(incoming) + 1
          /\ Len(incoming) \in Nat
      BY <2>1, <2>2, <3>1, PutLast
    <3> QED
      BY <3>1, <3>2
  <2>4. TypeOK'
    BY <1>0, <1>3, <2>1, <2>3 DEF Receive, TypeOK
  <2> QED
    BY <1>3, <2>4, VectorUntouched DEF Receive
<1>4. CASE ReceiversEnd
  <2>1. gone' \subseteq Payloads
    BY <1>0, <1>4 DEF ReceiversEnd, TypeOK, OnTheWay, Payloads
  <2>2. TypeOK'
    BY <1>0, <1>4, <2>1 DEF ReceiversEnd, TypeOK
  <2> QED
    BY <1>4, <2>2, VectorUntouched DEF ReceiversEnd
<1>5. CASE HandleEvents
  <2>1. TypeOK'
    BY <1>0, <1>5 DEF HandleEvents, TypeOK
  <2> QED
    BY <1>5, <2>1, VectorUntouched DEF HandleEvents
<1>6. CASE BeginDispatch
  <2>1. TypeOK'
    BY <1>0, <1>6 DEF BeginDispatch, TypeOK
  <2> QED
    BY <1>6, <2>1, VectorUntouched DEF BeginDispatch
<1>7. CASE DispatchPayload
  BY <1>7, DispatchStep
<1>8. CASE DispatchDone
  <2>1. TypeOK'
    BY <1>0, <1>8 DEF DispatchDone, TypeOK
  <2> QED
    BY <1>8, <2>1, VectorUntouched DEF DispatchDone
<1>9. CASE BeginUpdate
  <2>1. TypeOK'
    BY <1>0, <1>9 DEF BeginUpdate, TypeOK
  <2> QED
    BY <1>9, <2>1, VectorUntouched DEF BeginUpdate
<1>10. ASSUME ClearAll PROVE /\ cleared' \subseteq Payloads
                             /\ buffers' = [c \in Channels |-> <<>>]
                             /\ buffers' \in [Channels -> Seq(1..MaxSent)]
  <2>1. \A c \in Channels : Buffered(c) \subseteq Payloads
    <3> SUFFICES ASSUME NEW c \in Channels PROVE Buffered(c) \subseteq Payloads
      OBVIOUS
    <3>1. buffers[c] \in Seq(1..MaxSent)
      BY <1>0 DEF TypeOK
    <3>2. ToSet(buffers[c]) \subseteq 1..MaxSent
      BY <3>1 DEF ToSet
    <3> QED
      BY <3>2 DEF Buffered, Payloads
  <2>2. cleared' \subseteq Payloads
    BY <1>0, <1>10, <2>1 DEF ClearAll, TypeOK
  <2> QED
    BY <1>10, <2>2 DEF ClearAll
<1>11. CASE EndUpdate
  <2>1. CASE ClearAll
    <3>1. TypeOK'
      BY <1>0, <1>10, <1>11, <2>1 DEF EndUpdate, TypeOK
    <3> QED
      BY <1>10, <1>11, <2>1, <3>1, VectorEmptied DEF EndUpdate
  <2>2. CASE UNCHANGED <<cleared, buffers>>
    <3>1. TypeOK'
      BY <1>0, <1>11, <2>2 DEF EndUpdate, TypeOK
    <3> QED
      BY <1>11, <2>2, <3>1, VectorUntouched DEF EndUpdate
  <2> QED
    BY <1>11, <2>1, <2>2 DEF EndUpdate
<1>12. ASSUME NEW c \in Channels, ReceivePayload(c) PROVE IndInv'
  <2>1. buffers[c] \in Seq(1..MaxSent) /\ buffers[c] # <<>> /\ read[c] \in Seq(1..MaxSent)
    BY <1>0, <1>12 DEF ReceivePayload, TypeOK
  <2>2. Tail(buffers[c]) \in Seq(1..MaxSent)
        /\ Append(read[c], Head(buffers[c])) \in Seq(1..MaxSent)
    BY <2>1, TakeFirst, PutLast
  <2>3. TypeOK'
    BY <1>0, <1>12, <2>2 DEF ReceivePayload, TypeOK
  <2>4. BuffersWithinVector' /\ ChannelsBounded'
    BY <1>0, <1>12 DEF ReceivePayload, IndInv, TypeOK, BuffersWithinVector, ChannelsBounded
  <2> QED
    BY <2>3, <2>4 DEF IndInv
<1>13. CASE ClearReceivedPayloads
  <2>1. TypeOK'
    BY <1>0, <1>10, <1>13 DEF ClearReceivedPayloads, TypeOK
  <2> QED
    BY <1>10, <1>13, <2>1, VectorEmptied DEF ClearReceivedPayloads
<1>14. CASE SetConnClear
  <2>1. TypeOK'
    BY <1>0, <1>14 DEF SetConnClear, TypeOK
  <2> QED
    BY <1>14, <2>1, VectorUntouched DEF SetConnClear
<1>15. CASE SetEndpointClear
  <2>1. TypeOK'
    BY <1>0, <1>15 DEF SetEndpointClear, TypeOK
  <2> QED
    BY <1>15, <2>1, VectorUntouched DEF SetEndpointClear
<1>16. CASE Disconnect
  <2>1. TypeOK'
    BY <1>0, <1>16 DEF Disconnect, TypeOK
  <2> QED
    BY <1>16, <2>1, VectorUntouched DEF Disconnect
<1>17. CASE Reset
  <2>1. gone' \subseteq Payloads
    <3>1. ToSet(incoming) \subseteq Payloads
      BY <1>0 DEF TypeOK, ToSet
    <3>2. ASSUME NEW c \in Channels
          PROVE  OnTheWay(c) \subseteq Payloads /\ Buffered(c) \subseteq Payloads
      <4>1. buffers[c] \in Seq(1..MaxSent) /\ pending[c] \subseteq 1..MaxSent
        BY <1>0 DEF TypeOK
      <4>2. ToSet(buffers[c]) \subseteq 1..MaxSent
        BY <4>1 DEF ToSet
      <4> QED
        BY <4>1, <4>2 DEF OnTheWay, Buffered, Payloads
    <3> QED
      BY <1>0, <1>17, <3>1, <3>2 DEF Reset, TypeOK
  <2>2. incoming' \in Seq(Payloads) /\ Len(incoming') <= QueueSize
    BY <1>17 DEF Reset
  <2>3. TypeOK'
    BY <1>0, <1>17, <2>1, <2>2 DEF Reset, TypeOK
  <2> QED
    BY <1>17, <2>3, VectorEmptied DEF Reset
<1>18. ASSUME NEW c \in Channels, PeerReopens(c) PROVE IndInv'
  <2>1. starts' \in [Channels -> SUBSET (1..MaxSent)]
    <3>1. sent[c] + 1 \in 1..MaxSent
      <4>1. sent[c] \in 1..(Limit[c] - 1) /\ Limit[c] \in 0..MaxSent
        BY <1>18 DEF PeerReopens
      <4> QED
        BY <4>1
    <3> QED
      BY <1>0, <1>18, <3>1 DEF PeerReopens, TypeOK
  <2>2. TypeOK'
    BY <1>0, <1>18, <2>1 DEF PeerReopens, TypeOK
  <2> QED
    BY <1>18, <2>2, VectorUntouched DEF PeerReopens
<1>19. ASSUME NEW c \in Channels, ReceiveMessageFails(c) PROVE IndInv'
  <2>1. buffers[c] \in Seq(1..MaxSent) /\ buffers[c] # <<>>
    BY <1>0, <1>19 DEF ReceiveMessageFails, TypeOK
  <2>2. Tail(buffers[c]) \in Seq(1..MaxSent) /\ <<c, Head(buffers[c])>> \in Payloads
    BY <2>1, TakeFirst DEF Payloads
  <2>3. TypeOK'
    BY <1>0, <1>19, <2>2 DEF ReceiveMessageFails, TypeOK
  <2>4. BuffersWithinVector' /\ ChannelsBounded'
    BY <1>0, <1>19 DEF ReceiveMessageFails, IndInv, TypeOK, BuffersWithinVector, ChannelsBounded
  <2> QED
    BY <2>3, <2>4 DEF IndInv
<1>20. ASSUME NEW c \in Channels, DecodeFails(c) PROVE IndInv'
  <2>1. PICK n \in pending[c] :
            LET behind == {m \in pending[c] : c \in Ordered /\ Precedes(c, n, m)} IN
            /\ pending' = [pending EXCEPT ![c] = @ \ ({n} \cup behind)]
            /\ cutOff' = cutOff \cup ({c} \X ({n} \cup behind))
            /\ cut' = cut \cup {<<c, n>>}
    BY <1>20 DEF DecodeFails
  <2>2. pending[c] \subseteq 1..MaxSent /\ pending \in [Channels -> SUBSET (1..MaxSent)]
        /\ cutOff \subseteq Payloads /\ cut \subseteq Payloads
    BY <1>0 DEF TypeOK
  <2>3. PICK lost \in SUBSET pending[c] : /\ pending' = [pending EXCEPT ![c] = @ \ lost]
                                          /\ cutOff' = cutOff \cup ({c} \X lost)
    BY <2>1
  <2>4. pending' \in [Channels -> SUBSET (1..MaxSent)]
    BY <2>2, <2>3
  <2>5. cutOff' \subseteq Payloads /\ cut' \subseteq Payloads
    BY <2>1, <2>2, <2>3 DEF Payloads
  <2>6. TypeOK'
    BY <1>0, <1>20, <2>4, <2>5 DEF DecodeFails, TypeOK
  <2> QED
    BY <1>20, <2>6, VectorUntouched DEF DecodeFails
<1>21. CASE UNCHANGED vars
  <2>1. TypeOK'
    BY <1>0, <1>21 DEF vars, TypeOK
  <2> QED
    BY <1>21, <2>1, VectorUntouched DEF vars
<1> QED
  BY <1>1, <1>2, <1>3, <1>4, <1>5, <1>6, <1>7, <1>8, <1>9, <1>11, <1>12, <1>13, <1>14,
     <1>15, <1>16, <1>17, <1>18, <1>19, <1>20, <1>21 DEF Next, Systems, User

\* The receiving half keeps its types, its queue within its size among them
\* (recv.rs:51-59, peer_connection.rs:92-111).
THEOREM TypeCorrect == Spec => []TypeOK
<1>1. IndInv => TypeOK
  BY DEF IndInv
<1> QED
  BY InitIndInv, NextIndInv, <1>1, PTL DEF Spec

\* However payloads arrive, the connection never opens more than
\* max_receive_channels_count receive channels (recv_channels.rs:91-100).
THEOREM ChannelsStayBounded == Spec => []ChannelsBounded
<1>1. IndInv => ChannelsBounded
  BY DEF IndInv
<1> QED
  BY InitIndInv, NextIndInv, <1>1, PTL DEF Spec

\* One step keeps every buffer within a bound that is not 0.
LEMMA NextBufferBounded ==
    ASSUME MaxBuffered > 0, IndInv, BufferBounded, [Next]_vars
    PROVE  BufferBounded'
<1> USE RecvAssumption DEF bufVars
<1>0. TypeOK /\ buffers \in [Channels -> Seq(1..MaxSent)]
  BY DEF IndInv, TypeOK
<1>1. CASE DispatchPayload
  <2> DEFINE c == Head(incoming)[1]
             n == Head(incoming)[2]
  <2>1. c \in Channels /\ c \in Nat
    <3>1. Head(incoming) \in Payloads
      BY <1>0, <1>1 DEF DispatchPayload, TypeOK
    <3> QED
      BY <3>1 DEF Payloads
  <2> HIDE DEF c, n
  <2>2. CASE ~Fits(c)
    BY <1>1, <2>2 DEF DispatchPayload, BufferBounded, c
  <2>3. CASE Fits(c)
    <3>1. buffers' = [buffers EXCEPT ![c] = Append(buffers[c], n)]
      BY <1>1, <2>3 DEF DispatchPayload, c, n
    <3>2. Len(Append(buffers[c], n)) = Len(buffers[c]) + 1 /\ Len(buffers[c]) \in Nat
      BY <1>0, <2>1
    <3>3. CASE c < opened
      BY <1>0, <2>1, <2>3, <3>1, <3>2, <3>3 DEF Fits, BufferBounded
    <3>4. CASE ~(c < opened)
      <4>1. buffers[c] = <<>>
        BY <1>0, <2>1, <3>4 DEF IndInv, TypeOK, BuffersWithinVector
      <4>2. Len(Append(buffers[c], n)) = 1
        BY <3>2, <4>1
      <4> QED
        BY <1>0, <2>1, <3>1, <4>2 DEF BufferBounded
    <3> QED
      BY <3>3, <3>4
  <2> QED
    BY <2>2, <2>3
<1>2. ASSUME NEW c \in Channels, ReceivePayload(c) \/ ReceiveMessageFails(c)
      PROVE  BufferBounded'
  <2>1. buffers[c] \in Seq(1..MaxSent) /\ buffers[c] # <<>>
        /\ buffers' = [buffers EXCEPT ![c] = Tail(@)]
    BY <1>0, <1>2 DEF ReceivePayload, ReceiveMessageFails
  <2>2. Len(Tail(buffers[c])) = Len(buffers[c]) - 1 /\ Len(buffers[c]) \in Nat
    BY <2>1
  <2> QED
    BY <1>0, <2>1, <2>2 DEF BufferBounded
<1>3. CASE buffers' = [c \in Channels |-> <<>>]
  BY <1>3 DEF BufferBounded
<1>4. CASE buffers' = buffers
  BY <1>4 DEF BufferBounded
<1>5. \/ DispatchPayload \/ \E c \in Channels : ReceivePayload(c) \/ ReceiveMessageFails(c)
      \/ buffers' = [c \in Channels |-> <<>>] \/ buffers' = buffers
  BY DEF Next, Systems, User, PeerSends, PeerReopens, LoseDatagram, Receive, DecodeFails,
         ReceiversEnd, HandleEvents, BeginDispatch, DispatchDone, BeginUpdate, EndUpdate, ClearAll,
         ClearReceivedPayloads, SetConnClear, SetEndpointClear, Disconnect, Reset, vars
<1> QED
  BY <1>1, <1>2, <1>3, <1>4, <1>5

\* With max_buffered_payloads_count_per_channel above 0, no buffer ever holds more
\* payloads than that (recv_channels.rs:79-101).
THEOREM BuffersStayBounded == MaxBuffered > 0 /\ Spec => []BufferBounded
<1> SUFFICES ASSUME MaxBuffered > 0 PROVE Spec => []BufferBounded
  OBVIOUS
<1>1. Init => BufferBounded
  BY RecvAssumption DEF Init, BufferBounded
<1>2. IndInv /\ BufferBounded /\ [Next]_vars => BufferBounded'
  BY NextBufferBounded
<1> QED
  BY InitIndInv, NextIndInv, <1>1, <1>2, PTL DEF Spec

-----------------------------------------------------------------------------
(* Every payload in one place.                                             *)

\* A queue with one more payload at its end.
LEMMA PutFacts ==
    ASSUME NEW S, NEW s \in Seq(S), NEW e \in S
    PROVE  /\ ToSet(Append(s, e)) = ToSet(s) \cup {e}
           /\ IsInjective(s) /\ e \notin ToSet(s) => IsInjective(Append(s, e))
<1>1. /\ Len(s) \in Nat
      /\ \A i \in 1..Len(s) : Append(s, e)[i] = s[i]
      /\ Append(s, e)[Len(s) + 1] = e
      /\ DOMAIN s = 1..Len(s) /\ DOMAIN Append(s, e) = 1..(Len(s) + 1)
  BY AppendProperties, LenProperties
<1>2. ToSet(Append(s, e)) = ToSet(s) \cup {e}
  BY <1>1 DEF ToSet
<1>3. ASSUME IsInjective(s), e \notin ToSet(s) PROVE IsInjective(Append(s, e))
  BY <1>1, <1>3 DEF ToSet, IsInjective
<1> QED
  BY <1>2, <1>3

\* Where the payloads are in a queue whose first one is taken.
LEMMA TailPlaces ==
    ASSUME NEW S, NEW s \in Seq(S), s # <<>>
    PROVE  /\ Len(s) \in Nat \ {0} /\ Head(s) = s[1]
           /\ DOMAIN s = 1..Len(s) /\ DOMAIN Tail(s) = 1..(Len(s) - 1)
           /\ \A i \in 1..(Len(s) - 1) : Tail(s)[i] = s[i + 1]
BY HeadTailProperties, LenProperties, EmptySeq

\* A queue without its first payload.
LEMMA TakeFacts ==
    ASSUME NEW S, NEW s \in Seq(S), s # <<>>
    PROVE  /\ Head(s) \in ToSet(s)
           /\ ToSet(s) = {Head(s)} \cup ToSet(Tail(s))
           /\ IsInjective(s) => IsInjective(Tail(s)) /\ Head(s) \notin ToSet(Tail(s))
<1>1. /\ Len(s) \in Nat \ {0} /\ Head(s) = s[1]
      /\ DOMAIN s = 1..Len(s) /\ DOMAIN Tail(s) = 1..(Len(s) - 1)
      /\ \A i \in 1..(Len(s) - 1) : Tail(s)[i] = s[i + 1]
  BY TailPlaces
<1>2. ToSet(s) = {Head(s)} \cup ToSet(Tail(s))
  <2>1. ASSUME NEW i \in 1..Len(s) PROVE s[i] \in {Head(s)} \cup ToSet(Tail(s))
    <3>1. CASE i = 1
      BY <1>1, <3>1
    <3>2. CASE i # 1
      <4>1. i - 1 \in 1..(Len(s) - 1) /\ (i - 1) + 1 = i
        BY <1>1, <3>2
      <4> QED
        BY <1>1, <4>1 DEF ToSet
    <3> QED
      BY <3>1, <3>2
  <2>2. ASSUME NEW i \in 1..(Len(s) - 1) PROVE Tail(s)[i] \in ToSet(s)
    <3>1. i + 1 \in 1..Len(s)
      BY <1>1
    <3> QED
      BY <1>1, <3>1 DEF ToSet
  <2>3. Head(s) \in ToSet(s)
    BY <1>1 DEF ToSet
  <2>4. ToSet(s) \subseteq {Head(s)} \cup ToSet(Tail(s))
    BY <1>1, <2>1 DEF ToSet
  <2>5. ToSet(Tail(s)) \subseteq ToSet(s)
    <3>1. ToSet(Tail(s)) = {Tail(s)[i] : i \in 1..(Len(s) - 1)}
      BY <1>1 DEF ToSet
    <3> QED
      BY <2>2, <3>1
  <2> QED
    BY <2>3, <2>4, <2>5
<1>3. ASSUME IsInjective(s) PROVE IsInjective(Tail(s)) /\ Head(s) \notin ToSet(Tail(s))
  BY <1>1, <1>3 DEF ToSet, IsInjective
<1> QED
  BY <1>2, <1>3

\* Payload n of channel c is on its way, queued, buffered, read, refused, cleared,
\* gone or cut off, and only one of these.
OnePlace(c, n) ==
    /\ \/ n \in pending[c] \/ <<c, n>> \in ToSet(incoming) \/ n \in ToSet(buffers[c])
       \/ n \in ToSet(read[c]) \/ <<c, n>> \in refused \/ <<c, n>> \in cleared
       \/ <<c, n>> \in gone \/ <<c, n>> \in cutOff
    /\ n \in pending[c] =>
          /\ <<c, n>> \notin ToSet(incoming) \cup refused \cup cleared \cup gone \cup cutOff
          /\ n \notin ToSet(buffers[c]) \cup ToSet(read[c])
    /\ <<c, n>> \in ToSet(incoming) =>
          /\ <<c, n>> \notin refused \cup cleared \cup gone \cup cutOff
          /\ n \notin ToSet(buffers[c]) \cup ToSet(read[c])
    /\ n \in ToSet(buffers[c]) =>
          n \notin ToSet(read[c]) /\ <<c, n>> \notin refused \cup cleared \cup gone \cup cutOff
    /\ n \in ToSet(read[c]) => <<c, n>> \notin refused \cup cleared \cup gone \cup cutOff
    /\ <<c, n>> \in refused => <<c, n>> \notin cleared \cup gone \cup cutOff
    /\ <<c, n>> \in cleared => <<c, n>> \notin gone \cup cutOff
    /\ <<c, n>> \in gone => <<c, n>> \notin cutOff

\* It is nowhere.
NoPlace(c, n) ==
    /\ n \notin pending[c] \cup ToSet(buffers[c]) \cup ToSet(read[c])
    /\ <<c, n>> \notin ToSet(incoming) \cup refused \cup cleared \cup gone \cup cutOff

PlaceOf(c, n) == IF n <= sent[c] THEN OnePlace(c, n) ELSE NoPlace(c, n)

\* Every payload that was sent is in one place, and was put there once; one that
\* was not sent is in none.
PlaceInv ==
    /\ IsInjective(incoming)
    /\ \A c \in Channels : IsInjective(buffers[c]) /\ IsInjective(read[c])
    /\ \A c \in Channels, n \in 1..MaxSent : PlaceOf(c, n)

placeVars == <<sent, pending, incoming, buffers, read, refused, cleared, gone, cutOff>>

\* The steps that move no payload.
LEMMA NothingMoves ==
    ASSUME PlaceInv, UNCHANGED placeVars
    PROVE  PlaceInv'
BY DEF PlaceInv, PlaceOf, OnePlace, NoPlace, placeVars

\* What all channels have on their way, or buffered, channel by channel.
LEMMA OfAll ==
    ASSUME NEW d \in Channels, NEW k
    PROVE  /\ <<d, k>> \in UNION {OnTheWay(c) : c \in Channels} <=> k \in pending[d]
           /\ <<d, k>> \in UNION {Buffered(c) : c \in Channels} <=> k \in ToSet(buffers[d])
           /\ <<d, k>> \in UNION {OnTheWay(c) \cup Buffered(c) : c \in Channels}
                <=> k \in pending[d] \/ k \in ToSet(buffers[d])
<1>1. ASSUME NEW c \in Channels
      PROVE  /\ <<d, k>> \in OnTheWay(c) <=> c = d /\ k \in pending[d]
             /\ <<d, k>> \in Buffered(c) <=> c = d /\ k \in ToSet(buffers[d])
  BY DEF OnTheWay, Buffered
<1> QED
  BY <1>1

\* Emptied buffers hold nothing.
LEMMA EmptyFacts == ToSet(<<>>) = {} /\ IsInjective(<<>>)
BY DEF ToSet, IsInjective

\* A payload put at the end of a buffer, or of what was read.
LEMMA PutNumber ==
    \A s \in Seq(1..MaxSent), e \in 1..MaxSent :
        /\ ToSet(Append(s, e)) = ToSet(s) \cup {e}
        /\ IsInjective(s) /\ e \notin ToSet(s) => IsInjective(Append(s, e))
BY PutFacts, RecvAssumption

\* The steps of the network and of the receiver tasks.
LEMMA NetworkPlaces ==
    ASSUME IndInv, PlaceInv,
           \/ ReceiversEnd
           \/ \E c \in Channels :
                PeerSends(c) \/ LoseDatagram(c) \/ Receive(c) \/ DecodeFails(c)
    PROVE  PlaceInv'
<1> USE RecvAssumption
<1>0. /\ pending \in [Channels -> SUBSET (1..MaxSent)] /\ sent \in [Channels -> 0..MaxSent]
      /\ incoming \in Seq(Payloads)
  BY DEF IndInv, TypeOK
<1>1. ASSUME NEW c \in Channels, PeerSends(c),
             NEW d \in Channels, NEW k \in 1..MaxSent
      PROVE  PlaceOf(d, k)'
  <2>1. /\ sent' = [sent EXCEPT ![c] = @ + 1]
        /\ UNCHANGED <<incoming, buffers, read, refused, cleared, gone>>
    BY <1>0, <1>1 DEF PeerSends, bufVars
  <2>2. PlaceOf(d, k)
    BY DEF PlaceInv
  <2>3. sent[c] \in Nat /\ sent[d] \in Nat
        /\ sent'[d] = IF d = c THEN sent[d] + 1 ELSE sent[d]
    BY <1>0, <2>1
  <2>4. CASE IsCut(c, sent[c] + 1)
    <3>1. /\ pending' = pending
          /\ cutOff' = cutOff \cup {<<c, sent[c] + 1>>}
      BY <1>1, <2>4 DEF PeerSends
    <3>2. <<d, k>> \in cutOff' <=> <<d, k>> \in cutOff \/ (d = c /\ k = sent[c] + 1)
      BY <3>1
    <3>3. CASE d = c /\ k = sent[c] + 1
      BY <2>1, <2>2, <2>3, <3>1, <3>2, <3>3 DEF PlaceOf, OnePlace, NoPlace
    <3>4. CASE ~(d = c /\ k = sent[c] + 1)
      BY <2>1, <2>2, <2>3, <3>1, <3>2, <3>4 DEF PlaceOf, OnePlace, NoPlace
    <3> QED
      BY <3>3, <3>4
  <2>5. CASE ~IsCut(c, sent[c] + 1)
    <3>1. /\ pending' = [pending EXCEPT ![c] = @ \cup {sent[c] + 1}]
          /\ cutOff' = cutOff
      BY <1>1, <2>5 DEF PeerSends
    <3>2. k \in pending'[d] <=> k \in pending[d] \/ (d = c /\ k = sent[c] + 1)
      BY <1>0, <3>1
    <3>3. CASE d = c /\ k = sent[c] + 1
      BY <2>1, <2>2, <2>3, <3>1, <3>2, <3>3 DEF PlaceOf, OnePlace, NoPlace
    <3>4. CASE ~(d = c /\ k = sent[c] + 1)
      BY <2>1, <2>2, <2>3, <3>1, <3>2, <3>4 DEF PlaceOf, OnePlace, NoPlace
    <3> QED
      BY <3>3, <3>4
  <2> QED
    BY <2>4, <2>5
<1>2. ASSUME NEW c \in Channels, LoseDatagram(c),
             NEW d \in Channels, NEW k \in 1..MaxSent
      PROVE  PlaceOf(d, k)'
  <2>1. PICK n \in pending[c] : /\ pending' = [pending EXCEPT ![c] = @ \ {n}]
                                /\ gone' = gone \cup {<<c, n>>}
    BY <1>2 DEF LoseDatagram
  <2>2. UNCHANGED <<sent, incoming, buffers, read, refused, cleared, cutOff>>
    BY <1>2 DEF LoseDatagram, bufVars
  <2>3. k \in pending'[d] <=> k \in pending[d] /\ ~(d = c /\ k = n)
    BY <1>0, <2>1
  <2>4. PlaceOf(d, k)
    BY DEF PlaceInv
  <2> QED
    BY <2>1, <2>2, <2>3, <2>4 DEF PlaceOf, OnePlace, NoPlace
<1>3. ASSUME NEW c \in Channels, Receive(c)
      PROVE  /\ IsInjective(incoming')
             /\ \A d \in Channels, k \in 1..MaxSent : PlaceOf(d, k)'
  <2>1. PICK n \in pending[c] : /\ pending' = [pending EXCEPT ![c] = @ \ {n}]
                                /\ incoming' = Append(incoming, <<c, n>>)
    BY <1>3 DEF Receive
  <2>2. UNCHANGED <<sent, buffers, read, refused, cleared, gone, cutOff>>
    BY <1>3 DEF Receive, bufVars, sinkVars
  <2>3. n \in 1..MaxSent /\ <<c, n>> \in Payloads
    BY <1>0 DEF Payloads
  <2>4. PlaceOf(c, n)
    BY <2>3 DEF PlaceInv
  <2>5. <<c, n>> \notin ToSet(incoming)
    BY <2>4 DEF PlaceOf, OnePlace, NoPlace
  <2>6. ToSet(incoming') = ToSet(incoming) \cup {<<c, n>>} /\ IsInjective(incoming')
    BY <1>0, <2>1, <2>3, <2>5, PutFacts DEF PlaceInv
  <2>7. ASSUME NEW d \in Channels, NEW k \in 1..MaxSent PROVE PlaceOf(d, k)'
    <3>1. k \in pending'[d] <=> k \in pending[d] /\ ~(d = c /\ k = n)
      BY <1>0, <2>1
    <3>2. PlaceOf(d, k)
      BY DEF PlaceInv
    <3> QED
      BY <2>2, <2>6, <3>1, <3>2 DEF PlaceOf, OnePlace, NoPlace
  <2> QED
    BY <2>6, <2>7
<1>4. ASSUME ReceiversEnd, NEW d \in Channels, NEW k \in 1..MaxSent
      PROVE  PlaceOf(d, k)'
  <2>1. /\ pending'[d] = {}
        /\ <<d, k>> \in gone' <=> <<d, k>> \in gone \/ k \in pending[d]
    BY <1>4, OfAll DEF ReceiversEnd
  <2>2. UNCHANGED <<sent, incoming, buffers, read, refused, cleared, cutOff>>
    BY <1>4 DEF ReceiversEnd, bufVars
  <2>3. PlaceOf(d, k)
    BY DEF PlaceInv
  <2> QED
    BY <2>1, <2>2, <2>3 DEF PlaceOf, OnePlace, NoPlace
<1>5. ASSUME NEW c \in Channels, DecodeFails(c),
             NEW d \in Channels, NEW k \in 1..MaxSent
      PROVE  PlaceOf(d, k)'
  <2>1. PICK n \in pending[c] :
            LET behind == {m \in pending[c] : c \in Ordered /\ Precedes(c, n, m)} IN
            /\ pending' = [pending EXCEPT ![c] = @ \ ({n} \cup behind)]
            /\ cutOff' = cutOff \cup ({c} \X ({n} \cup behind))
    BY <1>5 DEF DecodeFails
  <2>2. PICK lost \in SUBSET pending[c] : /\ pending' = [pending EXCEPT ![c] = @ \ lost]
                                          /\ cutOff' = cutOff \cup ({c} \X lost)
    BY <2>1
  <2>3. UNCHANGED <<sent, incoming, buffers, read, refused, cleared, gone>>
    BY <1>5 DEF DecodeFails, bufVars
  <2>4. /\ k \in pending'[d] <=> k \in pending[d] /\ ~(d = c /\ k \in lost)
        /\ <<d, k>> \in cutOff' <=> <<d, k>> \in cutOff \/ (d = c /\ k \in lost)
    BY <1>0, <2>2
  <2>5. PlaceOf(d, k) /\ (d = c /\ k \in lost => k \in pending[d])
    BY DEF PlaceInv
  <2> QED
    BY <2>3, <2>4, <2>5 DEF PlaceOf, OnePlace, NoPlace
<1>6. UNCHANGED <<buffers, read>>
  BY DEF PeerSends, LoseDatagram, Receive, DecodeFails, ReceiversEnd, bufVars, sinkVars
<1>7. CASE UNCHANGED incoming
  <2>1. \A d \in Channels, k \in 1..MaxSent : PlaceOf(d, k)'
    BY <1>1, <1>2, <1>3, <1>4, <1>5
  <2> QED
    BY <1>6, <1>7, <2>1 DEF PlaceInv
<1>8. CASE \E c \in Channels : Receive(c)
  BY <1>3, <1>6, <1>8 DEF PlaceInv
<1>9. UNCHANGED incoming \/ \E c \in Channels : Receive(c)
  BY DEF PeerSends, LoseDatagram, DecodeFails, ReceiversEnd
<1> QED
  BY <1>7, <1>8, <1>9

\* One turn of the dispatch loop.
LEMMA DispatchPlaces ==
    ASSUME IndInv, PlaceInv, DispatchPayload
    PROVE  PlaceInv'
<1> USE RecvAssumption
<1> DEFINE c == Head(incoming)[1]
           n == Head(incoming)[2]
<1>0. /\ incoming \in Seq(Payloads) /\ incoming # <<>> /\ IsInjective(incoming)
      /\ incoming' = Tail(incoming)
      /\ UNCHANGED <<sent, pending, read, cleared, gone, cutOff>>
  BY DEF IndInv, TypeOK, PlaceInv, DispatchPayload, netVars
<1>1. Head(incoming) \in Payloads
  BY <1>0, TakeFirst
<1>2. c \in Channels /\ n \in 1..MaxSent /\ Head(incoming) = <<c, n>>
  BY <1>1 DEF Payloads
<1>3. /\ IsInjective(incoming') /\ <<c, n>> \notin ToSet(incoming')
      /\ ToSet(incoming) = {<<c, n>>} \cup ToSet(incoming')
  BY <1>0, <1>2, TakeFacts
<1>4. PlaceOf(c, n) /\ \A d \in Channels : IsInjective(buffers[d]) /\ IsInjective(read[d])
  BY <1>2 DEF PlaceInv
<1>5. CASE Fits(c)
  <2>1. buffers' = [buffers EXCEPT ![c] = Append(@, n)] /\ refused' = refused
    BY <1>5 DEF DispatchPayload
  <2> HIDE DEF c, n
  <2>2. buffers \in [Channels -> Seq(1..MaxSent)]
    BY DEF IndInv, TypeOK
  <2>3. n \notin ToSet(buffers[c])
    BY <1>3, <1>4 DEF PlaceOf, OnePlace, NoPlace
  <2>4. /\ buffers'[c] = Append(buffers[c], n) /\ buffers[c] \in Seq(1..MaxSent)
        /\ \A d \in Channels : d # c => buffers'[d] = buffers[d]
    BY <1>2, <2>1, <2>2
  <2>5. ToSet(buffers'[c]) = ToSet(buffers[c]) \cup {n} /\ IsInjective(buffers'[c])
    <3>1. IsInjective(buffers[c]) /\ n \in 1..MaxSent
      BY <1>2, <1>4
    <3>2. /\ ToSet(Append(buffers[c], n)) = ToSet(buffers[c]) \cup {n}
          /\ IsInjective(Append(buffers[c], n))
      BY <2>3, <2>4, <3>1, PutNumber
    <3> QED
      BY <2>4, <3>2
  <2>6. ASSUME NEW d \in Channels, NEW k \in 1..MaxSent PROVE PlaceOf(d, k)'
    <3>1. k \in ToSet(buffers'[d]) <=> k \in ToSet(buffers[d]) \/ (d = c /\ k = n)
      BY <2>4, <2>5
    <3>2. PlaceOf(d, k)
      BY DEF PlaceInv
    <3> QED
      BY <1>0, <1>3, <2>1, <3>1, <3>2 DEF PlaceOf, OnePlace, NoPlace
  <2>7. \A d \in Channels : IsInjective(buffers'[d]) /\ IsInjective(read'[d])
    BY <1>0, <1>4, <2>4, <2>5
  <2> QED
    BY <1>3, <2>6, <2>7 DEF PlaceInv
<1>6. CASE ~Fits(c)
  <2>1. buffers' = buffers /\ refused' = refused \cup {<<c, n>>}
    BY <1>2, <1>6 DEF DispatchPayload, bufVars
  <2> HIDE DEF c, n
  <2>2. ASSUME NEW d \in Channels, NEW k \in 1..MaxSent PROVE PlaceOf(d, k)'
    <3>1. PlaceOf(d, k)
      BY DEF PlaceInv
    <3> QED
      BY <1>0, <1>3, <2>1, <3>1 DEF PlaceOf, OnePlace, NoPlace
  <2> QED
    BY <1>0, <1>3, <1>4, <2>1, <2>2 DEF PlaceInv
<1> QED
  BY <1>5, <1>6

\* A payload is taken from its buffer, and read or refused.
LEMMA TakenPlaces ==
    ASSUME IndInv, PlaceInv, NEW c \in Channels, ReceivePayload(c) \/ ReceiveMessageFails(c)
    PROVE  PlaceInv'
<1> DEFINE n == Head(buffers[c])
<1>0. /\ buffers \in [Channels -> Seq(1..MaxSent)] /\ buffers[c] # <<>>
      /\ read \in [Channels -> Seq(1..MaxSent)]
      /\ buffers' = [buffers EXCEPT ![c] = Tail(@)]
      /\ UNCHANGED <<sent, pending, incoming, cleared, gone, cutOff>>
  BY DEF IndInv, TypeOK, ReceivePayload, ReceiveMessageFails, netVars
<1>1. buffers[c] \in Seq(1..MaxSent) /\ n \in 1..MaxSent
  BY <1>0, TakeFirst
<1>2. /\ IsInjective(incoming)
      /\ \A d \in Channels : IsInjective(buffers[d]) /\ IsInjective(read[d])
  BY DEF PlaceInv
<1>3. /\ ToSet(buffers[c]) = {n} \cup ToSet(Tail(buffers[c])) /\ n \notin ToSet(Tail(buffers[c]))
      /\ IsInjective(Tail(buffers[c]))
  BY <1>0, <1>1, <1>2, TakeFacts
<1>4. /\ buffers'[c] = Tail(buffers[c])
      /\ \A d \in Channels : d # c => buffers'[d] = buffers[d]
  BY <1>0
<1>5. \A d \in Channels, k \in 1..MaxSent :
         k \in ToSet(buffers'[d]) <=> k \in ToSet(buffers[d]) /\ ~(d = c /\ k = n)
  BY <1>3, <1>4
<1>6. CASE ReceivePayload(c)
  <2>1. read' = [read EXCEPT ![c] = Append(@, n)] /\ refused' = refused
    BY <1>6 DEF ReceivePayload
  <2> HIDE DEF n
  <2>2. n \notin ToSet(read[c])
    <3>1. PlaceOf(c, n)
      BY <1>1 DEF PlaceInv
    <3> QED
      BY <1>3, <3>1 DEF PlaceOf, OnePlace, NoPlace
  <2>3. /\ read'[c] = Append(read[c], n) /\ read[c] \in Seq(1..MaxSent)
        /\ \A d \in Channels : d # c => read'[d] = read[d]
    BY <1>0, <2>1
  <2>4. ToSet(read'[c]) = ToSet(read[c]) \cup {n} /\ IsInjective(read'[c])
    <3>1. IsInjective(read[c]) /\ n \in 1..MaxSent
      BY <1>1, <1>2 DEF n
    <3>2. /\ ToSet(Append(read[c], n)) = ToSet(read[c]) \cup {n}
          /\ IsInjective(Append(read[c], n))
      BY <2>2, <2>3, <3>1, PutNumber
    <3> QED
      BY <2>3, <3>2
  <2>5. ASSUME NEW d \in Channels, NEW k \in 1..MaxSent PROVE PlaceOf(d, k)'
    <3>1. k \in ToSet(read'[d]) <=> k \in ToSet(read[d]) \/ (d = c /\ k = n)
      BY <2>3, <2>4
    <3>2. PlaceOf(d, k)
      BY DEF PlaceInv
    <3>3. d = c /\ k = n => k \in ToSet(buffers[d])
      BY <1>3
    <3> QED
      BY <1>0, <1>5, <2>1, <3>1, <3>2, <3>3 DEF PlaceOf, OnePlace, NoPlace
  <2>6. \A d \in Channels : IsInjective(buffers'[d]) /\ IsInjective(read'[d])
    BY <1>2, <1>3, <1>4, <2>3, <2>4
  <2> QED
    BY <1>0, <1>2, <2>5, <2>6 DEF PlaceInv
<1>7. CASE ReceiveMessageFails(c)
  <2>1. read' = read /\ refused' = refused \cup {<<c, n>>}
    BY <1>7 DEF ReceiveMessageFails
  <2> HIDE DEF n
  <2>2. ASSUME NEW d \in Channels, NEW k \in 1..MaxSent PROVE PlaceOf(d, k)'
    <3>1. PlaceOf(d, k)
      BY DEF PlaceInv
    <3>2. d = c /\ k = n => k \in ToSet(buffers[d])
      BY <1>3
    <3>3. <<d, k>> \in refused' <=> <<d, k>> \in refused \/ (d = c /\ k = n)
      BY <2>1
    <3> QED
      BY <1>0, <1>5, <2>1, <3>1, <3>2, <3>3 DEF PlaceOf, OnePlace, NoPlace
  <2>3. \A d \in Channels : IsInjective(buffers'[d]) /\ IsInjective(read'[d])
    BY <1>2, <1>3, <1>4, <2>1
  <2> QED
    BY <1>0, <1>2, <2>2, <2>3 DEF PlaceInv
<1> QED
  BY <1>6, <1>7

\* What is cleared, and what goes with a connection.
LEMMA EmptiedPlaces ==
    ASSUME PlaceInv, UNCHANGED <<sent, read, refused, cutOff>>,
           (ClearAll /\ UNCHANGED <<pending, incoming, gone>>) \/ (Reset /\ UNCHANGED cleared)
    PROVE  PlaceInv'
<1>1. \A d \in Channels : buffers'[d] = <<>>
  BY DEF ClearAll, Reset
<1>2. IsInjective(incoming')
  BY EmptyFacts DEF PlaceInv, Reset
<1>3. ASSUME NEW d \in Channels, NEW k \in 1..MaxSent PROVE PlaceOf(d, k)'
  <2>1. PlaceOf(d, k) /\ k \notin ToSet(buffers'[d])
    BY <1>1, EmptyFacts DEF PlaceInv
  <2>2. CASE ClearAll /\ UNCHANGED <<pending, incoming, gone>>
    <3>1. <<d, k>> \in cleared' <=> <<d, k>> \in cleared \/ k \in ToSet(buffers[d])
      BY <2>2, OfAll DEF ClearAll
    <3> QED
      BY <2>1, <2>2, <3>1 DEF PlaceOf, OnePlace, NoPlace
  <2>3. CASE Reset /\ UNCHANGED cleared
    <3>1. <<d, k>> \in gone' <=> \/ <<d, k>> \in gone \/ <<d, k>> \in ToSet(incoming)
                                 \/ k \in pending[d] \/ k \in ToSet(buffers[d])
      BY <2>3, OfAll DEF Reset
    <3>2. pending'[d] = {} /\ ToSet(incoming') = {}
      BY <2>3, EmptyFacts DEF Reset
    <3> QED
      BY <2>1, <2>3, <3>1, <3>2 DEF PlaceOf, OnePlace, NoPlace
  <2> QED
    BY <2>2, <2>3
<1>4. \A d \in Channels : IsInjective(buffers'[d]) /\ IsInjective(read'[d])
  BY <1>1, EmptyFacts DEF PlaceInv
<1> QED
  BY <1>2, <1>3, <1>4 DEF PlaceInv

\* Nothing has been sent, and nothing is anywhere.
LEMMA InitPlaces == Init => PlaceInv
<1> SUFFICES ASSUME Init PROVE PlaceInv
  OBVIOUS
<1>1. ASSUME NEW c \in Channels, NEW n \in 1..MaxSent PROVE PlaceOf(c, n)
  <2>1. /\ sent[c] = 0 /\ pending[c] = {} /\ incoming = <<>> /\ buffers[c] = <<>> /\ read[c] = <<>>
        /\ refused = {} /\ cleared = {} /\ gone = {} /\ cutOff = {}
    BY DEF Init
  <2>2. ~(n <= sent[c])
    BY <2>1
  <2> QED
    BY <2>1, <2>2, EmptyFacts DEF PlaceOf, NoPlace
<1> QED
  BY <1>1, EmptyFacts DEF Init, PlaceInv

\* Every step keeps every payload in one place.
LEMMA NextPlaces == IndInv /\ PlaceInv /\ [Next]_vars => PlaceInv'
<1> SUFFICES ASSUME IndInv, PlaceInv, [Next]_vars PROVE PlaceInv'
  OBVIOUS
<1> USE DEF netVars, bufVars, sinkVars, placeVars
<1>1. CASE \/ ReceiversEnd
           \/ \E c \in Channels :
                PeerSends(c) \/ LoseDatagram(c) \/ Receive(c) \/ DecodeFails(c)
  BY <1>1, NetworkPlaces
<1>2. CASE DispatchPayload
  BY <1>2, DispatchPlaces
<1>3. CASE \E c \in Channels : ReceivePayload(c) \/ ReceiveMessageFails(c)
  BY <1>3, TakenPlaces
<1>4. CASE ClearReceivedPayloads \/ Reset
  BY <1>4, EmptiedPlaces DEF ClearReceivedPayloads, Reset
<1>5. CASE EndUpdate
  BY <1>5, EmptiedPlaces, NothingMoves DEF EndUpdate
<1>6. CASE \/ \E c \in Channels : PeerReopens(c)
           \/ HandleEvents \/ BeginDispatch \/ DispatchDone \/ BeginUpdate
           \/ SetConnClear \/ SetEndpointClear \/ Disconnect \/ UNCHANGED vars
  BY <1>6, NothingMoves DEF PeerReopens, HandleEvents, BeginDispatch, DispatchDone,
                            BeginUpdate, SetConnClear, SetEndpointClear, Disconnect, vars
<1> QED
  BY <1>1, <1>2, <1>3, <1>4, <1>5, <1>6 DEF Next, Systems, User

\* What the invariant says is what the property counts.
LEMMA OnePlaceCounted ==
    ASSUME TypeOK, NEW c \in Channels, NEW n \in 1..sent[c], OnePlace(c, n)
    PROVE  Cardinality({i \in 1..8 :
              <<c, n>> \in <<OnTheWay(c), ToSet(incoming), Buffered(c), ReadOn(c),
                             refused, cleared, gone, cutOff>>[i]}) = 1
<1> DEFINE place == <<OnTheWay(c), ToSet(incoming), Buffered(c), ReadOn(c),
                      refused, cleared, gone, cutOff>>
           found == {i \in 1..8 : <<c, n>> \in place[i]}
<1>1. /\ <<c, n>> \in place[1] <=> n \in pending[c]
      /\ <<c, n>> \in place[2] <=> <<c, n>> \in ToSet(incoming)
      /\ <<c, n>> \in place[3] <=> n \in ToSet(buffers[c])
      /\ <<c, n>> \in place[4] <=> n \in ToSet(read[c])
      /\ <<c, n>> \in place[5] <=> <<c, n>> \in refused
      /\ <<c, n>> \in place[6] <=> <<c, n>> \in cleared
      /\ <<c, n>> \in place[7] <=> <<c, n>> \in gone
      /\ <<c, n>> \in place[8] <=> <<c, n>> \in cutOff
  BY DEF OnTheWay, Buffered, ReadOn
<1> HIDE DEF place
<1>2. \E i \in 1..8 : <<c, n>> \in place[i] /\ \A j \in (1..8) \ {i} : <<c, n>> \notin place[j]
  <2>1. 1..8 = {1, 2, 3, 4, 5, 6, 7, 8}
    OBVIOUS
  <2> QED
    BY <1>1, <2>1 DEF OnePlace
<1>3. \E i : found = {i}
  <2>1. PICK i \in 1..8 : /\ <<c, n>> \in place[i]
                          /\ \A j \in (1..8) \ {i} : <<c, n>> \notin place[j]
    BY <1>2
  <2> QED
    BY <2>1
<1>4. Cardinality(found) = 1
  BY <1>3, FS_Singleton
<1> QED
  BY <1>4 DEF place

\* A payload is the pair of its channel and its number.
LEMMA PayloadShape ==
    ASSUME NEW p \in Payloads
    PROVE  p = <<p[1], p[2]>> /\ p[1] \in Channels /\ p[2] \in 1..MaxSent
BY DEF Payloads

\* A stream is cut at a payload the decoder refused, and what is cut off is such a
\* payload, or behind one in its stream.
CutInv ==
    /\ cut \subseteq cutOff \cap Overlong
    /\ \A p \in cutOff \ Overlong :
          \E m \in 1..MaxSent : <<p[1], m>> \in cutOff \cap Overlong /\ Precedes(p[1], m, p[2])

\* No stream is cut at first.
LEMMA InitCut == Init => CutInv
BY DEF Init, CutInv

\* The steps that cut nothing off and open no channel.
LEMMA NothingCut ==
    ASSUME CutInv, UNCHANGED <<starts, cutOff>>, cut' \subseteq cut
    PROVE  CutInv'
BY DEF CutInv, Precedes

\* A channel that takes an id starts behind all that was cut off, a stream that is cut
\* loses what comes next in it, and one that is cut now what comes behind.
LEMMA NextCut == IndInv /\ PlaceInv /\ CutInv /\ [Next]_vars => CutInv'
<1> SUFFICES ASSUME IndInv, PlaceInv, CutInv, [Next]_vars PROVE CutInv'
  OBVIOUS
<1> USE RecvAssumption DEF netVars, sinkVars
<1>0. /\ sent \in [Channels -> 0..MaxSent] /\ pending \in [Channels -> SUBSET (1..MaxSent)]
      /\ starts \in [Channels -> SUBSET (1..MaxSent)] /\ cutOff \subseteq Payloads
  BY DEF IndInv, TypeOK
<1>1. ASSUME NEW c \in Channels, PeerSends(c) PROVE CutInv'
  <2>1. starts' = starts /\ cut' = cut
    BY <1>1 DEF PeerSends
  <2>2. CASE ~IsCut(c, sent[c] + 1)
    <3>1. cutOff' = cutOff
      BY <1>1, <2>2 DEF PeerSends
    <3> QED
      BY <2>1, <3>1, NothingCut
  <2>3. CASE IsCut(c, sent[c] + 1)
    <3>1. cutOff' = cutOff \cup {<<c, sent[c] + 1>>}
      BY <1>1, <2>3 DEF PeerSends
    <3>2. PICK m \in 1..MaxSent : <<c, m>> \in cut /\ Precedes(c, m, sent[c] + 1)
      BY <2>3 DEF IsCut
    <3>3. ASSUME NEW p \in cutOff' \ Overlong
          PROVE  \E k \in 1..MaxSent : /\ <<p[1], k>> \in cutOff' \cap Overlong
                                       /\ Precedes(p[1], k, p[2])'
      <4>1. CASE p \in cutOff
        BY <2>1, <3>1, <3>3, <4>1 DEF CutInv, Precedes
      <4>2. CASE p = <<c, sent[c] + 1>>
        <5>1. PICK n : n = sent[c] + 1
          OBVIOUS
        <5>2. Precedes(c, m, n)'
          BY <2>1, <3>2, <5>1 DEF Precedes
        <5>3. p[1] = c /\ p[2] = n /\ <<c, m>> \in cutOff' \cap Overlong
          BY <3>1, <3>2, <4>2, <5>1 DEF CutInv
        <5> QED
          BY <5>2, <5>3
      <4> QED
        BY <3>1, <4>1, <4>2
    <3> QED
      BY <2>1, <3>1, <3>3 DEF CutInv
  <2> QED
    BY <2>2, <2>3
<1>2. ASSUME NEW c \in Channels, PeerReopens(c) PROVE CutInv'
  <2>1. /\ starts' = [starts EXCEPT ![c] = @ \cup {sent[c] + 1}]
        /\ UNCHANGED <<cut, cutOff>>
    BY <1>2 DEF PeerReopens
  <2>2. ASSUME NEW p \in cutOff \ Overlong
        PROVE  \E m \in 1..MaxSent : /\ <<p[1], m>> \in cutOff' \cap Overlong
                                     /\ Precedes(p[1], m, p[2])'
    <3>1. PICK d \in Channels, n \in 1..MaxSent : p = <<d, n>>
      <4>1. p \in Payloads
        BY <1>0
      <4> QED
        BY <4>1, PayloadShape
    <3>2. PICK m \in 1..MaxSent : <<d, m>> \in cutOff \cap Overlong /\ Precedes(d, m, n)
      BY <2>2, <3>1 DEF CutInv
    <3>3. n <= sent[d] /\ sent[d] \in Nat
      <4>1. PlaceOf(d, n) /\ sent[d] \in Nat
        BY <1>0, <3>1 DEF PlaceInv
      <4> QED
        BY <2>2, <3>1, <4>1 DEF PlaceOf, NoPlace
    <3>4. starts'[d] \subseteq starts[d] \cup {sent[d] + 1}
      BY <1>0, <2>1
    <3>5. m < n /\ \A k \in starts[d] : ~(m < k /\ k <= n)
      BY <3>2 DEF Precedes
    <3>6. ~(m < sent[d] + 1 /\ sent[d] + 1 <= n)
      BY <3>3
    <3>7. Precedes(d, m, n)'
      BY <3>4, <3>5, <3>6 DEF Precedes
    <3> QED
      BY <2>1, <3>1, <3>2, <3>7 DEF Precedes
  <2> QED
    BY <2>1, <2>2 DEF CutInv
<1>3. ASSUME NEW c \in Channels, DecodeFails(c) PROVE CutInv'
  <2>1. PICK n \in pending[c] :
            LET behind == {m \in pending[c] : c \in Ordered /\ Precedes(c, n, m)} IN
            /\ <<c, n>> \in Overlong
            /\ cutOff' = cutOff \cup ({c} \X ({n} \cup behind))
            /\ cut' = cut \cup {<<c, n>>}
    BY <1>3 DEF DecodeFails
  <2>2. starts' = starts /\ n \in 1..MaxSent
    BY <1>0, <1>3 DEF DecodeFails
  <2>3. ASSUME NEW p \in cutOff' \ Overlong
        PROVE  \E m \in 1..MaxSent : /\ <<p[1], m>> \in cutOff' \cap Overlong
                                     /\ Precedes(p[1], m, p[2])'
    <3>1. CASE p \in cutOff
      BY <2>1, <2>2, <2>3, <3>1 DEF CutInv, Precedes
    <3>2. CASE p \notin cutOff
      <4>1. PICK k : p = <<c, k>> /\ (k = n \/ Precedes(c, n, k))
        BY <2>1, <3>2
      <4>2. Precedes(c, n, k)
        BY <2>1, <2>3, <4>1
      <4> QED
        BY <2>1, <2>2, <4>1, <4>2 DEF Precedes
    <3> QED
      BY <3>1, <3>2
  <2> QED
    BY <2>1, <2>3 DEF CutInv
<1>4. CASE UNCHANGED starts /\ UNCHANGED cutOff /\ cut' \subseteq cut
  BY <1>4, NothingCut
<1>5. \/ \E c \in Channels : PeerSends(c) \/ PeerReopens(c) \/ DecodeFails(c)
      \/ UNCHANGED starts /\ UNCHANGED cutOff /\ cut' \subseteq cut
  BY DEF Next, Systems, User, LoseDatagram, Receive, ReceiversEnd, HandleEvents, BeginDispatch,
         DispatchPayload, DispatchDone, BeginUpdate, EndUpdate, ReceivePayload,
         ReceiveMessageFails, ClearReceivedPayloads, SetConnClear, SetEndpointClear,
         Disconnect, Reset, vars
<1> QED
  BY <1>1, <1>2, <1>3, <1>4, <1>5

\* Every payload the peer sent is at any time on its way, queued, buffered, read, or
\* known to be refused, cleared, gone with a connection or cut off with its stream,
\* never in two of these and never twice in one; and a payload is cut off only if the
\* decoder refused it, or one before it in its stream (recv.rs:43-61,
\* recv_channels.rs:51-108, peer_connection.rs:266-283).
THEOREM EachInOnePlace == Spec => []EveryPayloadInOnePlace
<1>1. IndInv /\ PlaceInv /\ CutInv => EveryPayloadInOnePlace
  <2> SUFFICES ASSUME IndInv, PlaceInv, CutInv PROVE EveryPayloadInOnePlace
    OBVIOUS
  <2>1. ASSUME NEW c \in Channels, NEW n \in 1..sent[c] PROVE OnePlace(c, n)
    <3>1. n \in 1..MaxSent /\ n <= sent[c]
      BY RecvAssumption DEF IndInv, TypeOK
    <3> QED
      BY <3>1 DEF PlaceInv, PlaceOf
  <2>2. ASSUME NEW c \in Channels, NEW p \in {c} \X (1..sent[c])
        PROVE  Cardinality({i \in 1..8 :
                  p \in <<OnTheWay(c), ToSet(incoming), Buffered(c), ReadOn(c),
                          refused, cleared, gone, cutOff>>[i]}) = 1
    <3>1. PICK n \in 1..sent[c] : p = <<c, n>>
      OBVIOUS
    <3> QED
      BY <2>1, <3>1, OnePlaceCounted DEF IndInv
  <2> QED
    BY <2>2 DEF PlaceInv, CutInv, EveryPayloadInOnePlace
<1> QED
  BY InitIndInv, NextIndInv, InitPlaces, NextPlaces, InitCut, NextCut, <1>1, PTL DEF Spec

-----------------------------------------------------------------------------
(* The order of the payloads.                                              *)

\* No payload in s comes after one it precedes.
InOrder(c, s) == \A i, j \in DOMAIN s : j < i => ~Precedes(c, s[i], s[j])

QueueInOrder(c) ==
    \A i, j \in DOMAIN incoming :
        j < i /\ incoming[i][1] = c /\ incoming[j][1] = c =>
            ~Precedes(c, incoming[i][2], incoming[j][2])

\* The payloads of channel c that are queued.
Waiting(c) == {n \in 1..MaxSent : <<c, n>> \in ToSet(incoming)}

\* None of those behind precedes one of those ahead.
NoneOvertaken(c, ahead, behind) == \A m \in ahead, n \in behind : ~Precedes(c, n, m)

\* From the user to the network: in what was read, in the buffer and in the queue,
\* and from each of these to those behind.
OrderOf(c) ==
    /\ InOrder(c, read[c]) /\ InOrder(c, buffers[c]) /\ QueueInOrder(c)
    /\ NoneOvertaken(c, ToSet(read[c]), ToSet(buffers[c]) \cup Waiting(c) \cup pending[c])
    /\ NoneOvertaken(c, ToSet(buffers[c]), Waiting(c) \cup pending[c])
    /\ NoneOvertaken(c, Waiting(c), pending[c])

OrderInv == \A c \in Ordered : OrderOf(c)

\* One more payload at the end of a queue none of which it precedes.
LEMMA PutInOrder ==
    ASSUME NEW S, NEW s \in Seq(S), NEW e \in S, NEW c,
           InOrder(c, s), \A m \in ToSet(s) : ~Precedes(c, e, m)
    PROVE  InOrder(c, Append(s, e))
<1>1. /\ Len(s) \in Nat
      /\ \A i \in 1..Len(s) : Append(s, e)[i] = s[i]
      /\ Append(s, e)[Len(s) + 1] = e
      /\ DOMAIN s = 1..Len(s) /\ DOMAIN Append(s, e) = 1..(Len(s) + 1)
  BY AppendProperties, LenProperties
<1>2. \A i \in 1..Len(s) : ~Precedes(c, e, s[i])
  BY <1>1 DEF ToSet
<1> QED
  BY <1>1, <1>2 DEF InOrder

\* The first payload of a queue taken off it.
LEMMA TakeInOrder ==
    ASSUME NEW S, NEW s \in Seq(S), s # <<>>, NEW c, InOrder(c, s)
    PROVE  InOrder(c, Tail(s)) /\ \A m \in ToSet(Tail(s)) : ~Precedes(c, m, Head(s))
<1>1. /\ Len(s) \in Nat \ {0} /\ Head(s) = s[1]
      /\ DOMAIN s = 1..Len(s) /\ DOMAIN Tail(s) = 1..(Len(s) - 1)
      /\ \A i \in 1..(Len(s) - 1) : Tail(s)[i] = s[i + 1]
  BY TailPlaces
<1>2. InOrder(c, Tail(s))
  BY <1>1 DEF InOrder
<1>3. \A i \in 1..(Len(s) - 1) : ~Precedes(c, Tail(s)[i], Head(s))
  BY <1>1 DEF InOrder
<1> QED
  BY <1>1, <1>2, <1>3 DEF ToSet

\* The steps after which there are no more payloads of c in any place, and which
\* do not bring two of them in one stream.
LEMMA FewerInOrder ==
    ASSUME NEW c, OrderOf(c), InOrder(c, read[c])', InOrder(c, buffers[c])', QueueInOrder(c)',
           \A m, n : Precedes(c, m, n)' => Precedes(c, m, n),
           ToSet(read[c])' \subseteq ToSet(read[c]),
           ToSet(buffers[c])' \subseteq ToSet(buffers[c]),
           Waiting(c)' \subseteq Waiting(c), pending'[c] \subseteq pending[c]
    PROVE  OrderOf(c)'
BY DEF OrderOf, NoneOvertaken

\* The types these proofs look at.
LEMMA OrderTypes ==
    ASSUME IndInv
    PROVE  /\ Ordered \subseteq Channels
           /\ incoming \in Seq(Payloads)
           /\ \A c \in Channels : /\ sent[c] \in Nat /\ pending[c] \subseteq 1..MaxSent
                                  /\ buffers[c] \in Seq(1..MaxSent) /\ read[c] \in Seq(1..MaxSent)
BY RecvAssumption DEF IndInv, TypeOK

\* Steps that leave the payloads where they are.
LEMMA StaysInOrder ==
    ASSUME NEW c, OrderOf(c), UNCHANGED <<incoming, buffers, read>>,
           pending'[c] \subseteq pending[c],
           \A m, n : Precedes(c, m, n)' => Precedes(c, m, n)
    PROVE  OrderOf(c)'
<1>1. InOrder(c, read[c])' /\ InOrder(c, buffers[c])' /\ QueueInOrder(c)'
  BY DEF OrderOf, InOrder, QueueInOrder
<1>2. /\ ToSet(read[c])' \subseteq ToSet(read[c])
      /\ ToSet(buffers[c])' \subseteq ToSet(buffers[c])
      /\ Waiting(c)' \subseteq Waiting(c)
  BY DEF Waiting
<1> QED
  BY <1>1, <1>2, FewerInOrder

\* The peer's next payload precedes none, and its next channel of the same id
\* brings no two payloads into one stream.
LEMMA PeerInOrder ==
    ASSUME IndInv, PlaceInv, OrderInv, NEW c \in Channels, PeerSends(c) \/ PeerReopens(c)
    PROVE  OrderInv'
<1>0. /\ Ordered \subseteq Channels /\ incoming \in Seq(Payloads)
      /\ \A e \in Channels : /\ sent[e] \in Nat /\ pending[e] \subseteq 1..MaxSent
                             /\ buffers[e] \in Seq(1..MaxSent) /\ read[e] \in Seq(1..MaxSent)
  BY OrderTypes
<1> USE <1>0, RecvAssumption
<1>1. SUFFICES ASSUME NEW d \in Ordered PROVE OrderOf(d)'
  BY DEF OrderInv
<1>2. OrderOf(d) /\ d \in Channels
  BY DEF OrderInv
<1>3. UNCHANGED <<incoming, buffers, read>>
  BY DEF PeerSends, PeerReopens, bufVars, sinkVars
<1>4. CASE PeerReopens(c)
  <2>1. starts[d] \subseteq starts'[d] /\ pending' = pending
    BY <1>4 DEF PeerReopens, IndInv, TypeOK
  <2>2. \A m, n : Precedes(d, m, n)' => Precedes(d, m, n)
    BY <2>1 DEF Precedes
  <2> QED
    BY <1>2, <1>3, <2>1, <2>2, StaysInOrder
<1>5. CASE PeerSends(c)
  <2>1. starts' = starts
        /\ (pending' = pending \/ pending' = [pending EXCEPT ![c] = @ \cup {sent[c] + 1}])
    BY <1>5 DEF PeerSends
  <2>2. \A m, n : Precedes(d, m, n)' <=> Precedes(d, m, n)
    BY <2>1 DEF Precedes
  <2>3. CASE d # c \/ pending' = pending
    <3>1. pending'[d] = pending[d]
      BY <2>1, <2>3 DEF IndInv, TypeOK
    <3> QED
      BY <1>2, <1>3, <2>2, <3>1, StaysInOrder
  <2>4. CASE d = c /\ pending' # pending
    <3>1. pending'[d] = pending[d] \cup {sent[d] + 1}
      BY <1>2, <2>1, <2>4 DEF IndInv, TypeOK
    <3>2. \A n \in ToSet(read[d]) \cup ToSet(buffers[d]) \cup Waiting(d) :
             n \in 1..MaxSent /\ n <= sent[d]
      <4>1. ToSet(read[d]) \subseteq 1..MaxSent /\ ToSet(buffers[d]) \subseteq 1..MaxSent
            /\ Waiting(d) \subseteq 1..MaxSent
        <5>1. ToSet(read[d]) \subseteq 1..MaxSent
          BY <1>2, LenProperties, ElementOfSeq DEF ToSet
        <5>2. ToSet(buffers[d]) \subseteq 1..MaxSent
          BY <1>2, LenProperties, ElementOfSeq DEF ToSet
        <5> QED
          BY <5>1, <5>2 DEF Waiting
      <4>2. \A n \in 1..MaxSent : PlaceOf(d, n)
        BY <1>2 DEF PlaceInv
      <4> QED
        BY <4>1, <4>2 DEF PlaceOf, NoPlace, Waiting
    <3>3. \A n \in ToSet(read[d]) \cup ToSet(buffers[d]) \cup Waiting(d) :
             ~Precedes(d, sent[d] + 1, n)
      <4>1. ASSUME NEW n, n \in 1..MaxSent, n <= sent[d] PROVE ~(sent[d] + 1 < n)
        BY <1>2, <4>1
      <4> QED
        BY <3>2, <4>1 DEF Precedes
    <3>4. /\ ToSet(read[d])' = ToSet(read[d]) /\ ToSet(buffers[d])' = ToSet(buffers[d])
          /\ Waiting(d)' = Waiting(d)
      BY <1>3 DEF Waiting
    <3>5. InOrder(d, read[d])' /\ InOrder(d, buffers[d])' /\ QueueInOrder(d)'
      BY <1>2, <1>3, <2>2 DEF OrderOf, InOrder, QueueInOrder
    <3> QED
      BY <1>2, <2>2, <3>1, <3>3, <3>4, <3>5 DEF OrderOf, NoneOvertaken
  <2> QED
    BY <2>3, <2>4
<1> QED
  BY <1>4, <1>5

\* A receiver task puts a payload behind all that came before it, and leaves none
\* on its way that precedes it.
LEMMA ReceiveInOrder ==
    ASSUME IndInv, OrderInv, NEW c \in Channels, Receive(c)
    PROVE  OrderInv'
<1>0. /\ Ordered \subseteq Channels /\ incoming \in Seq(Payloads)
      /\ \A e \in Channels : /\ sent[e] \in Nat /\ pending[e] \subseteq 1..MaxSent
                             /\ buffers[e] \in Seq(1..MaxSent) /\ read[e] \in Seq(1..MaxSent)
  BY OrderTypes
<1> USE <1>0, RecvAssumption
<1>1. SUFFICES ASSUME NEW d \in Ordered PROVE OrderOf(d)'
  BY DEF OrderInv
<1>2. OrderOf(d) /\ d \in Channels
  BY DEF OrderInv
<1>3. PICK n \in pending[c] : /\ c \in Ordered => \A m \in pending[c] : ~Precedes(c, m, n)
                              /\ pending' = [pending EXCEPT ![c] = @ \ {n}]
                              /\ incoming' = Append(incoming, <<c, n>>)
  BY DEF Receive
<1>4. UNCHANGED <<starts, buffers, read>>
  BY DEF Receive, bufVars, sinkVars
<1>5. \A m, k : Precedes(d, m, k)' <=> Precedes(d, m, k)
  BY <1>4 DEF Precedes
<1>6. n \in 1..MaxSent /\ <<c, n>> \in Payloads
  BY DEF Payloads
<1>7. ToSet(incoming') = ToSet(incoming) \cup {<<c, n>>}
  <2>1. incoming \in Seq(Payloads)
    OBVIOUS
  <2> QED
    BY <1>3, <1>6, <2>1, PutFacts
<1>8. /\ Len(incoming) \in Nat
      /\ \A i \in 1..Len(incoming) : incoming'[i] = incoming[i]
      /\ incoming'[Len(incoming) + 1] = <<c, n>>
      /\ DOMAIN incoming = 1..Len(incoming) /\ DOMAIN incoming' = 1..(Len(incoming) + 1)
  BY <1>3, <1>6, AppendProperties, LenProperties
<1>9. InOrder(d, read[d])' /\ InOrder(d, buffers[d])'
  BY <1>2, <1>4, <1>5 DEF OrderOf, InOrder
<1>10. \A i \in 1..Len(incoming) : incoming[i][1] = d => incoming[i][2] \in Waiting(d)
  <2> SUFFICES ASSUME NEW i \in 1..Len(incoming), incoming[i][1] = d
               PROVE  incoming[i][2] \in Waiting(d)
    OBVIOUS
  <2>1. incoming[i] \in Payloads /\ incoming[i] \in ToSet(incoming)
    BY <1>8, ElementOfSeq DEF ToSet
  <2>2. incoming[i] = <<d, incoming[i][2]>> /\ incoming[i][2] \in 1..MaxSent
    BY <2>1, PayloadShape
  <2> QED
    BY <2>1, <2>2 DEF Waiting
<1>11. CASE d # c
  <2>1. pending'[d] = pending[d] /\ Waiting(d)' = Waiting(d)
    BY <1>3, <1>7, <1>11 DEF Waiting, IndInv, TypeOK
  <2>2. QueueInOrder(d)'
    <3> SUFFICES ASSUME NEW i \in DOMAIN incoming', NEW j \in DOMAIN incoming', j < i,
                        incoming'[i][1] = d, incoming'[j][1] = d
                 PROVE  ~Precedes(d, incoming'[i][2], incoming'[j][2])
      BY <1>5 DEF QueueInOrder
    <3>1. i \in 1..Len(incoming) /\ j \in 1..Len(incoming)
      BY <1>8, <1>11
    <3> QED
      BY <1>2, <1>8, <3>1 DEF OrderOf, QueueInOrder
  <2> QED
    BY <1>2, <1>4, <1>5, <1>9, <2>1, <2>2 DEF OrderOf, NoneOvertaken
<1>12. CASE d = c
  <2>1. pending'[d] = pending[d] \ {n} /\ Waiting(d)' = Waiting(d) \cup {n}
    BY <1>2, <1>3, <1>6, <1>7, <1>12 DEF Waiting, IndInv, TypeOK
  <2>2. \A m \in Waiting(d) : ~Precedes(d, n, m)
    BY <1>2, <1>12 DEF OrderOf, NoneOvertaken
  <2>3. QueueInOrder(d)'
    <3> SUFFICES ASSUME NEW i \in DOMAIN incoming', NEW j \in DOMAIN incoming', j < i,
                        incoming'[i][1] = d, incoming'[j][1] = d
                 PROVE  ~Precedes(d, incoming'[i][2], incoming'[j][2])
      BY <1>5 DEF QueueInOrder
    <3>1. j \in 1..Len(incoming) /\ incoming'[j] = incoming[j]
      BY <1>8
    <3>2. CASE i \in 1..Len(incoming)
      BY <1>2, <1>8, <3>1, <3>2 DEF OrderOf, QueueInOrder
    <3>3. CASE i = Len(incoming) + 1
      <4>1. incoming'[i][2] = n /\ incoming'[j][2] \in Waiting(d)
        BY <1>8, <1>10, <3>1, <3>3
      <4> QED
        BY <2>2, <4>1
    <3> QED
      BY <1>8, <3>2, <3>3
  <2>4. n \in pending[d] /\ \A m \in pending[d] : ~Precedes(d, m, n)
    BY <1>3, <1>12
  <2> QED
    BY <1>2, <1>4, <1>5, <1>9, <2>1, <2>3, <2>4 DEF OrderOf, NoneOvertaken
<1> QED
  BY <1>11, <1>12

\* The payload at the head of the queue goes to the end of its buffer, or is
\* refused: the others keep their order.
LEMMA DispatchInOrder ==
    ASSUME IndInv, OrderInv, DispatchPayload
    PROVE  OrderInv'
<1> DEFINE c == Head(incoming)[1]
           n == Head(incoming)[2]
<1>0. /\ Ordered \subseteq Channels /\ incoming \in Seq(Payloads)
      /\ \A e \in Channels : buffers[e] \in Seq(1..MaxSent) /\ read[e] \in Seq(1..MaxSent)
      /\ buffers \in [Channels -> Seq(1..MaxSent)]
  BY OrderTypes DEF IndInv, TypeOK
<1> USE <1>0, RecvAssumption
<1>1. SUFFICES ASSUME NEW d \in Ordered PROVE OrderOf(d)'
  BY DEF OrderInv
<1>2. OrderOf(d) /\ d \in Channels
  BY DEF OrderInv
<1>3. /\ incoming # <<>> /\ incoming' = Tail(incoming)
      /\ UNCHANGED <<starts, pending, read>>
  BY DEF DispatchPayload, netVars
<1>4. Head(incoming) = <<c, n>> /\ c \in Channels /\ n \in 1..MaxSent
  BY <1>3, TakeFirst, PayloadShape
<1>5. \A m, k : Precedes(d, m, k)' <=> Precedes(d, m, k)
  BY <1>3 DEF Precedes
<1>6. /\ Len(incoming) \in Nat \ {0} /\ incoming[1] = <<c, n>>
      /\ DOMAIN incoming = 1..Len(incoming) /\ DOMAIN incoming' = 1..(Len(incoming) - 1)
      /\ \A i \in 1..(Len(incoming) - 1) : incoming'[i] = incoming[i + 1]
  BY <1>3, <1>4, TailPlaces
<1>7. QueueInOrder(d)'
  <2> SUFFICES ASSUME NEW i \in DOMAIN incoming', NEW j \in DOMAIN incoming', j < i,
                      incoming'[i][1] = d, incoming'[j][1] = d
               PROVE  ~Precedes(d, incoming'[i][2], incoming'[j][2])
    BY <1>5 DEF QueueInOrder
  <2>1. /\ i + 1 \in DOMAIN incoming /\ j + 1 \in DOMAIN incoming /\ j + 1 < i + 1
        /\ incoming'[i] = incoming[i + 1] /\ incoming'[j] = incoming[j + 1]
    BY <1>6
  <2> QED
    BY <1>2, <2>1 DEF OrderOf, QueueInOrder
<1>8. ToSet(incoming) = {<<c, n>>} \cup ToSet(incoming')
  BY <1>3, <1>4, TakeFacts
<1>9. Waiting(d)' \subseteq Waiting(d)
  BY <1>8 DEF Waiting
<1>10. InOrder(d, read[d])'
  BY <1>2, <1>3, <1>5 DEF OrderOf, InOrder
<1>11. CASE Fits(c) /\ d = c
  <2>1. buffers' = [buffers EXCEPT ![c] = Append(@, n)]
    BY <1>11 DEF DispatchPayload
  <2> HIDE DEF c, n
  <2>2. buffers'[d] = Append(buffers[d], n) /\ n \in Waiting(d)
    BY <1>2, <1>4, <1>8, <1>11, <2>1 DEF Waiting
  <2>3. \A m \in ToSet(buffers[d]) : ~Precedes(d, n, m)
    BY <1>2, <2>2 DEF OrderOf, NoneOvertaken
  <2>4. InOrder(d, buffers[d]) /\ buffers[d] \in Seq(1..MaxSent) /\ n \in 1..MaxSent
    BY <1>2, <1>4 DEF OrderOf
  <2>5. InOrder(d, Append(buffers[d], n))
    BY <2>3, <2>4, PutInOrder
  <2>6. InOrder(d, buffers[d])'
    BY <1>5, <2>2, <2>5 DEF InOrder
  <2>7. ToSet(buffers[d])' = ToSet(buffers[d]) \cup {n}
    <3>1. ToSet(Append(buffers[d], n)) = ToSet(buffers[d]) \cup {n}
      BY <2>4, PutNumber
    <3> QED
      BY <2>2, <3>1
  <2>8. \A m \in Waiting(d)' : ~Precedes(d, m, n)
    <3> SUFFICES ASSUME NEW m \in 1..MaxSent, <<d, m>> \in ToSet(incoming')
                 PROVE  ~Precedes(d, m, n)
      BY DEF Waiting
    <3>1. PICK i \in DOMAIN incoming' : incoming'[i] = <<d, m>>
      BY DEF ToSet
    <3>2. i + 1 \in DOMAIN incoming /\ incoming[i + 1] = <<d, m>> /\ 1 < i + 1
          /\ 1 \in DOMAIN incoming /\ incoming[1] = <<d, n>>
      BY <1>6, <1>11, <3>1
    <3>3. /\ incoming[i + 1][1] = d /\ incoming[i + 1][2] = m
          /\ incoming[1][1] = d /\ incoming[1][2] = n
      BY <3>2
    <3>4. QueueInOrder(d)
      BY <1>2 DEF OrderOf
    <3> QED
      BY <3>2, <3>3, <3>4 DEF QueueInOrder
  <2>9. NoneOvertaken(d, ToSet(read[d]), ToSet(buffers[d]) \cup Waiting(d) \cup pending[d])'
    <3>1. /\ (ToSet(buffers[d]) \cup Waiting(d) \cup pending[d])'
                \subseteq ToSet(buffers[d]) \cup Waiting(d) \cup pending[d]
          /\ ToSet(read[d])' = ToSet(read[d])
      BY <1>3, <1>9, <2>2, <2>7
    <3>2. NoneOvertaken(d, ToSet(read[d]), ToSet(buffers[d]) \cup Waiting(d) \cup pending[d])
      BY <1>2 DEF OrderOf
    <3> QED
      BY <1>5, <3>1, <3>2 DEF NoneOvertaken
  <2>10. NoneOvertaken(d, ToSet(buffers[d]), Waiting(d) \cup pending[d])'
    BY <1>2, <1>3, <1>5, <1>9, <2>2, <2>7, <2>8 DEF OrderOf, NoneOvertaken
  <2>11. NoneOvertaken(d, Waiting(d), pending[d])'
    BY <1>2, <1>3, <1>5, <1>9 DEF OrderOf, NoneOvertaken
  <2> QED
    BY <1>7, <1>10, <2>6, <2>9, <2>10, <2>11 DEF OrderOf
<1>12. CASE ~(Fits(c) /\ d = c)
  <2>1. buffers'[d] = buffers[d]
    <3>1. CASE Fits(c)
      BY <1>2, <1>4, <1>12, <3>1 DEF DispatchPayload
    <3>2. CASE ~Fits(c)
      BY <3>2 DEF DispatchPayload, bufVars
    <3> QED
      BY <3>1, <3>2
  <2>2. InOrder(d, buffers[d])'
    BY <1>2, <1>5, <2>1 DEF OrderOf, InOrder
  <2>3. /\ ToSet(read[d])' \subseteq ToSet(read[d])
        /\ ToSet(buffers[d])' \subseteq ToSet(buffers[d])
        /\ pending'[d] \subseteq pending[d]
    BY <1>3, <2>1
  <2> QED
    BY <1>2, <1>5, <1>7, <1>9, <1>10, <2>2, <2>3, FewerInOrder
<1> QED
  BY <1>11, <1>12

\* The user takes the first payload of a buffer, and has read none it precedes.
LEMMA TakenInOrder ==
    ASSUME IndInv, OrderInv, NEW c \in Channels, ReceivePayload(c) \/ ReceiveMessageFails(c)
    PROVE  OrderInv'
<1> DEFINE n == Head(buffers[c])
<1>0. /\ Ordered \subseteq Channels
      /\ \A e \in Channels : buffers[e] \in Seq(1..MaxSent) /\ read[e] \in Seq(1..MaxSent)
      /\ buffers \in [Channels -> Seq(1..MaxSent)] /\ read \in [Channels -> Seq(1..MaxSent)]
  BY OrderTypes DEF IndInv, TypeOK
<1> USE <1>0, RecvAssumption
<1>1. SUFFICES ASSUME NEW d \in Ordered PROVE OrderOf(d)'
  BY DEF OrderInv
<1>2. OrderOf(d) /\ d \in Channels
  BY DEF OrderInv
<1>3. /\ buffers[c] # <<>> /\ buffers' = [buffers EXCEPT ![c] = Tail(@)]
      /\ UNCHANGED <<starts, pending, incoming>>
  BY DEF ReceivePayload, ReceiveMessageFails, netVars
<1>4. \A m, k : Precedes(d, m, k)' <=> Precedes(d, m, k)
  BY <1>3 DEF Precedes
<1>5. n \in 1..MaxSent
  BY <1>3, TakeFirst
<1>6. QueueInOrder(d)' /\ Waiting(d)' = Waiting(d)
  BY <1>2, <1>3, <1>4 DEF OrderOf, QueueInOrder, Waiting
<1>7. /\ InOrder(d, buffers[d])' /\ ToSet(buffers[d])' \subseteq ToSet(buffers[d])
      /\ d = c => /\ n \in ToSet(buffers[d])
                  /\ \A m \in ToSet(buffers[d])' : ~Precedes(d, m, n)
  <2>1. CASE d # c
    <3>1. buffers'[d] = buffers[d]
      BY <1>2, <1>3, <2>1
    <3> QED
      BY <1>2, <1>4, <2>1, <3>1 DEF OrderOf, InOrder
  <2>2. CASE d = c
    <3>1. buffers'[d] = Tail(buffers[d]) /\ buffers[d] # <<>> /\ n = Head(buffers[d])
      BY <1>2, <1>3, <2>2
    <3> HIDE DEF n
    <3>2. buffers[d] \in Seq(1..MaxSent) /\ InOrder(d, buffers[d])
      BY <1>2 DEF OrderOf
    <3>3. /\ InOrder(d, Tail(buffers[d]))
          /\ \A m \in ToSet(Tail(buffers[d])) : ~Precedes(d, m, Head(buffers[d]))
      BY <3>1, <3>2, TakeInOrder
    <3>4. ToSet(buffers[d]) = {Head(buffers[d])} \cup ToSet(Tail(buffers[d]))
      BY <3>1, <3>2, TakeFacts
    <3>5. InOrder(d, buffers[d])'
      BY <1>4, <3>1, <3>3 DEF InOrder
    <3> QED
      BY <3>1, <3>3, <3>4, <3>5
  <2> QED
    BY <2>1, <2>2
<1>8. CASE ReceivePayload(c) /\ d = c
  <2>1. read' = [read EXCEPT ![c] = Append(@, n)]
    BY <1>8 DEF ReceivePayload
  <2> HIDE DEF n
  <2>2. read'[d] = Append(read[d], n) /\ read[d] \in Seq(1..MaxSent) /\ InOrder(d, read[d])
    BY <1>2, <1>8, <2>1 DEF OrderOf
  <2>3. \A m \in ToSet(read[d]) : ~Precedes(d, n, m)
    BY <1>2, <1>7, <1>8 DEF OrderOf, NoneOvertaken
  <2>4. InOrder(d, Append(read[d], n))
    BY <1>5, <2>2, <2>3, PutInOrder
  <2>5. InOrder(d, read[d])'
    BY <1>4, <2>2, <2>4 DEF InOrder
  <2>6. ToSet(read[d])' = ToSet(read[d]) \cup {n}
    <3>1. ToSet(Append(read[d], n)) = ToSet(read[d]) \cup {n}
      BY <1>5, <2>2, PutNumber
    <3> QED
      BY <2>2, <3>1
  <2>7. \A m \in Waiting(d) \cup pending[d] : ~Precedes(d, m, n)
    BY <1>2, <1>7, <1>8 DEF OrderOf, NoneOvertaken
  <2>8. NoneOvertaken(d, ToSet(read[d]), ToSet(buffers[d]) \cup Waiting(d) \cup pending[d])'
    BY <1>2, <1>3, <1>4, <1>6, <1>7, <1>8, <2>6, <2>7 DEF OrderOf, NoneOvertaken
  <2>9. /\ NoneOvertaken(d, ToSet(buffers[d]), Waiting(d) \cup pending[d])'
        /\ NoneOvertaken(d, Waiting(d), pending[d])'
    BY <1>2, <1>3, <1>4, <1>6, <1>7 DEF OrderOf, NoneOvertaken
  <2> QED
    BY <1>6, <1>7, <2>5, <2>8, <2>9 DEF OrderOf
<1>9. CASE ~(ReceivePayload(c) /\ d = c)
  <2>1. read'[d] = read[d]
    BY <1>2, <1>9 DEF ReceivePayload, ReceiveMessageFails
  <2>2. InOrder(d, read[d])'
    BY <1>2, <1>4, <2>1 DEF OrderOf, InOrder
  <2>3. /\ ToSet(read[d])' \subseteq ToSet(read[d])
        /\ Waiting(d)' \subseteq Waiting(d) /\ pending'[d] \subseteq pending[d]
    BY <1>3, <1>6, <2>1
  <2> QED
    BY <1>2, <1>4, <1>6, <1>7, <2>2, <2>3, FewerInOrder
<1> QED
  BY <1>8, <1>9

\* Buffers that are emptied, with the queue and the network or not.
LEMMA EmptiedInOrder ==
    ASSUME OrderInv, Ordered \subseteq Channels, UNCHANGED <<read, starts>>,
           (ClearAll /\ UNCHANGED <<pending, incoming>>) \/ Reset
    PROVE  OrderInv'
<1>1. SUFFICES ASSUME NEW d \in Ordered PROVE OrderOf(d)'
  BY DEF OrderInv
<1>2. OrderOf(d) /\ d \in Channels
  BY DEF OrderInv
<1>3. \A m, k : Precedes(d, m, k)' <=> Precedes(d, m, k)
  BY DEF Precedes
<1>4. buffers'[d] = <<>>
  BY <1>2 DEF ClearAll, Reset
<1>5. InOrder(d, read[d])' /\ InOrder(d, buffers[d])'
  BY <1>2, <1>3, <1>4 DEF OrderOf, InOrder
<1>6. QueueInOrder(d)' /\ Waiting(d)' \subseteq Waiting(d) /\ pending'[d] \subseteq pending[d]
  <2>1. CASE UNCHANGED <<pending, incoming>>
    BY <1>2, <1>3, <2>1 DEF OrderOf, QueueInOrder, Waiting
  <2>2. CASE Reset
    <3>1. incoming' = <<>> /\ pending'[d] = {}
      BY <1>2, <2>2 DEF Reset
    <3> QED
      BY <3>1, EmptyFacts DEF QueueInOrder, Waiting
  <2> QED
    BY <2>1, <2>2
<1>7. ToSet(read[d])' \subseteq ToSet(read[d]) /\ ToSet(buffers[d])' \subseteq ToSet(buffers[d])
  BY <1>4, EmptyFacts
<1> QED
  BY <1>2, <1>3, <1>5, <1>6, <1>7, FewerInOrder

\* Nothing was received yet.
LEMMA InitInOrder == Init => OrderInv
<1> SUFFICES ASSUME Init, NEW c \in Ordered PROVE OrderOf(c)
  BY DEF OrderInv
<1>1. c \in Channels
  BY RecvAssumption
<1>2. pending[c] = {} /\ incoming = <<>> /\ buffers[c] = <<>> /\ read[c] = <<>>
  BY <1>1 DEF Init
<1>3. Waiting(c) = {}
  BY <1>2, EmptyFacts DEF Waiting
<1>4. InOrder(c, <<>>) /\ QueueInOrder(c)
  BY <1>2 DEF InOrder, QueueInOrder
<1> QED
  BY <1>2, <1>3, <1>4, EmptyFacts DEF OrderOf, NoneOvertaken

\* Every step keeps the payloads of ordered channels in order.
LEMMA NextInOrder == IndInv /\ PlaceInv /\ OrderInv /\ [Next]_vars => OrderInv'
<1> SUFFICES ASSUME IndInv, PlaceInv, OrderInv, [Next]_vars PROVE OrderInv'
  OBVIOUS
<1> USE DEF netVars, bufVars, sinkVars
<1>0. Ordered \subseteq Channels /\ \A d \in Ordered : d \in Channels /\ OrderOf(d)
  BY RecvAssumption DEF OrderInv
<1>1. CASE \E c \in Channels : PeerSends(c) \/ PeerReopens(c)
  BY <1>1, PeerInOrder
<1>2. CASE \E c \in Channels : Receive(c)
  BY <1>2, ReceiveInOrder
<1>3. CASE DispatchPayload
  BY <1>3, DispatchInOrder
<1>4. CASE \E c \in Channels : ReceivePayload(c) \/ ReceiveMessageFails(c)
  BY <1>4, TakenInOrder
<1>5. CASE ClearReceivedPayloads \/ Reset
  BY <1>0, <1>5, EmptiedInOrder DEF ClearReceivedPayloads, Reset
<1>6. CASE EndUpdate /\ ClearAll
  BY <1>0, <1>6, EmptiedInOrder DEF EndUpdate
<1>7. ASSUME UNCHANGED <<starts, incoming, buffers, read>>,
             \A d \in Ordered : pending'[d] \subseteq pending[d]
      PROVE  OrderInv'
  <2>1. ASSUME NEW d \in Ordered PROVE OrderOf(d)'
    <3>1. \A m, k : Precedes(d, m, k)' => Precedes(d, m, k)
      BY <1>7 DEF Precedes
    <3> QED
      BY <1>0, <1>7, <3>1, StaysInOrder
  <2> QED
    BY <2>1 DEF OrderInv
<1>8. CASE ReceiversEnd
  BY <1>0, <1>7, <1>8 DEF ReceiversEnd
<1>9. ASSUME NEW c \in Channels, LoseDatagram(c) PROVE OrderInv'
  <2>1. PICK n \in pending[c] : pending' = [pending EXCEPT ![c] = @ \ {n}]
    BY <1>9 DEF LoseDatagram
  <2>2. \A d \in Ordered : pending'[d] \subseteq pending[d]
    BY <1>0, <2>1 DEF IndInv, TypeOK
  <2> QED
    BY <1>7, <1>9, <2>2 DEF LoseDatagram
<1>10. ASSUME NEW c \in Channels, DecodeFails(c) PROVE OrderInv'
  <2>1. PICK lost : pending' = [pending EXCEPT ![c] = @ \ lost]
    BY <1>10 DEF DecodeFails
  <2>2. \A d \in Ordered : pending'[d] \subseteq pending[d]
    BY <1>0, <2>1 DEF IndInv, TypeOK
  <2> QED
    BY <1>7, <1>10, <2>2 DEF DecodeFails
<1>11. CASE EndUpdate /\ ~ClearAll
  BY <1>7, <1>11 DEF EndUpdate
<1>12. CASE \/ HandleEvents \/ BeginDispatch \/ DispatchDone \/ BeginUpdate
            \/ SetConnClear \/ SetEndpointClear \/ Disconnect \/ UNCHANGED vars
  BY <1>7, <1>12 DEF HandleEvents, BeginDispatch, DispatchDone,
                     BeginUpdate, SetConnClear, SetEndpointClear, Disconnect, vars
<1> QED
  BY <1>1, <1>2, <1>3, <1>4, <1>5, <1>6, <1>8, <1>9, <1>10, <1>11, <1>12
     DEF Next, Systems, User

\* What is read, buffered and queued of a channel, one behind the other, is in order
\* when the three are, and those behind in order with those ahead.
LEMMA ArrivedInOrder ==
    ASSUME IndInv, NEW c \in Ordered, OrderOf(c)
    PROVE  LET dispatched == read[c] \o buffers[c]
               arrived == [i \in DOMAIN dispatched |-> <<c, dispatched[i]>>] \o incoming
               mine == {i \in DOMAIN arrived : arrived[i][1] = c}
           IN \A i \in mine :
                 /\ \A j \in mine : j < i => ~Precedes(c, arrived[i][2], arrived[j][2])
                 /\ \A n \in pending[c] : ~Precedes(c, n, arrived[i][2])
<1> DEFINE dispatched == read[c] \o buffers[c]
           tagged == [i \in DOMAIN dispatched |-> <<c, dispatched[i]>>]
           arrived == tagged \o incoming
           mine == {i \in DOMAIN arrived : arrived[i][1] = c}
           R == Len(read[c])
           B == Len(buffers[c])
           Q == Len(incoming)
<1>0. /\ c \in Channels /\ incoming \in Seq(Payloads)
      /\ buffers[c] \in Seq(1..MaxSent) /\ read[c] \in Seq(1..MaxSent)
  BY OrderTypes
<1>1. /\ R \in Nat /\ B \in Nat /\ Q \in Nat
      /\ DOMAIN read[c] = 1..R /\ DOMAIN buffers[c] = 1..B /\ DOMAIN incoming = 1..Q
      /\ Q = Len(incoming)
  BY <1>0, LenProperties
<1>2. /\ dispatched \in Seq(1..MaxSent) /\ Len(dispatched) = R + B
      /\ \A i \in 1..(R + B) :
            dispatched[i] = IF i <= R THEN read[c][i] ELSE buffers[c][i - R]
  BY <1>0, ConcatProperties
<1>3. DOMAIN dispatched = 1..(R + B) /\ \A i \in 1..(R + B) : dispatched[i] \in 1..MaxSent
  BY <1>2, LenProperties, ElementOfSeq
<1> HIDE DEF dispatched, R, B, Q
<1>4. tagged \in Seq(Payloads) /\ Len(tagged) = R + B
  <2>1. \A i \in 1..(R + B) : <<c, dispatched[i]>> \in Payloads
    BY <1>0, <1>3 DEF Payloads
  <2>2. tagged \in [1..(R + B) -> Payloads]
    BY <1>3, <2>1
  <2>3. R + B \in Nat
    BY <1>1
  <2> HIDE DEF tagged
  <2>4. tagged \in Seq(Payloads)
    BY <2>2, <2>3, SeqDef
  <2>5. DOMAIN tagged = 1..(R + B)
    BY <2>2
  <2>6. DOMAIN tagged = 1..Len(tagged) /\ Len(tagged) \in Nat
    BY <2>4, LenProperties
  <2>7. Len(tagged) = R + B
    BY <2>3, <2>5, <2>6
  <2> QED
    BY <2>4, <2>7
<1>5. \A i \in 1..(R + B) : tagged[i] = <<c, dispatched[i]>>
  BY <1>3
<1> HIDE DEF tagged
<1>6. /\ DOMAIN arrived = 1..(R + B + Q)
      /\ \A i \in 1..(R + B + Q) :
            arrived[i] = IF i <= R + B THEN tagged[i] ELSE incoming[i - (R + B)]
  <2>1. /\ arrived \in Seq(Payloads) /\ Len(arrived) = R + B + Q
        /\ \A i \in 1..(R + B + Q) :
              arrived[i] = IF i <= R + B THEN tagged[i] ELSE incoming[i - (R + B)]
    <3>1. /\ arrived \in Seq(Payloads) /\ Len(arrived) = Len(tagged) + Len(incoming)
          /\ \A i \in 1..(Len(tagged) + Len(incoming)) :
                arrived[i] = IF i <= Len(tagged) THEN tagged[i] ELSE incoming[i - Len(tagged)]
      BY <1>0, <1>4, ConcatProperties
    <3> QED
      BY <1>1, <1>4, <3>1
  <2> QED
    BY <2>1, LenProperties
<1> HIDE DEF arrived
<1>7. ASSUME NEW i \in mine, i <= R
      PROVE  /\ i \in DOMAIN read[c] /\ arrived[i][2] = read[c][i]
             /\ arrived[i][2] \in ToSet(read[c])
  <2>1. i \in 1..R /\ i \in 1..(R + B) /\ i \in 1..(R + B + Q)
    BY <1>1, <1>6, <1>7
  <2>2. arrived[i] = <<c, dispatched[i]>> /\ dispatched[i] = read[c][i]
    BY <1>1, <1>2, <1>5, <1>6, <1>7, <2>1
  <2> QED
    BY <1>1, <2>1, <2>2 DEF ToSet
<1>8. ASSUME NEW i \in mine, R < i, i <= R + B
      PROVE  /\ i - R \in DOMAIN buffers[c] /\ arrived[i][2] = buffers[c][i - R]
             /\ arrived[i][2] \in ToSet(buffers[c])
  <2>1. i - R \in 1..B /\ i \in 1..(R + B) /\ i \in 1..(R + B + Q) /\ ~(i <= R)
    BY <1>1, <1>6, <1>8
  <2>2. arrived[i] = <<c, dispatched[i]>> /\ dispatched[i] = buffers[c][i - R]
    BY <1>1, <1>2, <1>5, <1>6, <1>8, <2>1
  <2> QED
    BY <1>1, <2>1, <2>2 DEF ToSet
<1>9. ASSUME NEW i \in mine, R + B < i
      PROVE  /\ i - (R + B) \in DOMAIN incoming /\ arrived[i] = incoming[i - (R + B)]
             /\ incoming[i - (R + B)][1] = c /\ arrived[i][2] \in Waiting(c)
  <2>1. i - (R + B) \in 1..Q /\ i \in 1..(R + B + Q) /\ ~(i <= R + B)
    BY <1>1, <1>6, <1>9
  <2>2. arrived[i] = incoming[i - (R + B)] /\ arrived[i][1] = c
    BY <1>6, <2>1
  <2>3. incoming[i - (R + B)] \in Payloads /\ incoming[i - (R + B)] \in ToSet(incoming)
    BY <1>0, <1>1, <2>1, ElementOfSeq DEF ToSet, Q
  <2>4. arrived[i] = <<c, arrived[i][2]>> /\ arrived[i][2] \in 1..MaxSent
    BY <2>2, <2>3, PayloadShape
  <2> QED
    BY <1>1, <2>1, <2>2, <2>3, <2>4 DEF Waiting
<1>10. \A i \in mine : i \in Nat
  BY <1>1, <1>6
<1>11. ASSUME NEW i \in mine, NEW n \in pending[c] PROVE ~Precedes(c, n, arrived[i][2])
  BY <1>1, <1>7, <1>8, <1>9, <1>10 DEF OrderOf, NoneOvertaken
<1>12. ASSUME NEW i \in mine, NEW j \in mine, j < i
       PROVE  ~Precedes(c, arrived[i][2], arrived[j][2])
  <2> HIDE DEF mine
  <2>0. i \in Nat /\ j \in Nat
    BY <1>10
  <2>1. CASE i <= R
    <3>1. j <= R
      BY <1>1, <1>12, <2>0, <2>1
    <3> QED
      BY <1>7, <1>12, <2>1, <3>1 DEF OrderOf, InOrder
  <2>2. CASE R < i /\ i <= R + B
    <3>1. CASE j <= R
      BY <1>7, <1>8, <2>2, <3>1 DEF OrderOf, NoneOvertaken
    <3>2. CASE R < j
      <4>1. j <= R + B /\ j - R < i - R
        BY <1>1, <1>12, <2>0, <2>2
      <4> QED
        BY <1>8, <2>2, <3>2, <4>1 DEF OrderOf, InOrder
    <3> QED
      BY <1>1, <2>0, <3>1, <3>2
  <2>3. CASE R + B < i
    <3>1. CASE j <= R
      BY <1>7, <1>9, <2>3, <3>1 DEF OrderOf, NoneOvertaken
    <3>2. CASE R < j /\ j <= R + B
      BY <1>8, <1>9, <2>3, <3>2 DEF OrderOf, NoneOvertaken
    <3>3. CASE R + B < j
      <4>1. j - (R + B) < i - (R + B)
        BY <1>1, <1>12, <2>0
      <4> QED
        BY <1>9, <2>3, <3>3, <4>1 DEF OrderOf, QueueInOrder
    <3> QED
      BY <1>1, <2>0, <3>1, <3>2, <3>3
  <2> QED
    BY <1>1, <2>0, <2>1, <2>2, <2>3
<1> QED
  BY <1>11, <1>12 DEF arrived, tagged, dispatched

\* The payloads of one stream of an OrderedReliable channel are read in the order
\* they were sent, and stay so on their way: in the queue, in the buffer and past
\* full ones, clearings and reconnections (recv.rs:44-59, recv_channels.rs:51-108).
THEOREM ReadsInOrder == Spec => []ReadInOrder
<1>1. IndInv /\ OrderInv => ReadInOrder
  BY ArrivedInOrder DEF OrderInv, ReadInOrder
<1> QED
  BY InitIndInv, NextIndInv, InitPlaces, NextPlaces, InitInOrder, NextInOrder, <1>1, PTL DEF Spec
=============================================================================
