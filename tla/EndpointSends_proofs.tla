------------------------ MODULE EndpointSends_proofs ------------------------
(***************************************************************************)
(* Proofs about the server's sends, for every set of channel ids, every    *)
(* finite set of clients, every size of the queues and of the groups.      *)
(***************************************************************************)
EXTENDS EndpointSends, FiniteSetTheorems, SequenceTheorems, WellFoundedInduction, TLAPS

\* How many of the clients asked for the loop has come to, and the places among the
\* first n where client i is named.
Visited == Len(asked) - Len(todo)
NamedIn(i, n) == {k \in 1..n : asked[k] = i}

\* The loop has come to a part of those asked for, in their order.
RestIsTodo ==
    /\ Len(todo) <= Len(asked)
    /\ \A j \in 1..Len(todo) : todo[j] = asked[Visited + j]

\* At every turn of the loop, the copies and errors of a client are as many as the
\* times it was named so far.
Accounted ==
    /\ outcome = "sending" => channel \in Ids
    /\ outcome # "sending" => todo = <<>>
    /\ outcome \in {"sending", "Ok", "SendError"} =>
          \A i \in ClientIds : copies[i] + ErrorsOf(i) = Cardinality(NamedIn(i, Visited))
    /\ outcome = "Ok" => errors = <<>>
    /\ outcome \in Refusals => copies = NoCopies

\* Each client's vector holds each open channel, its task alive or not.
OpenForClients ==
    \A i \in clients, c \in opened : HasSlot(i, c) /\ Slot(i, c) \in {"open", "dead"}

\* The ids of the open channels have a bound.
OpenIsBounded == \E b \in Nat : \A c \in opened : c <= b

IndInv == TypeOK /\ RestIsTodo /\ Accounted /\ OpenForClients /\ OpenIsBounded /\ OpenIsSendable

-----------------------------------------------------------------------------
(* Facts used in several steps.                                            *)

\* Counting the places of a sequence, up to one more.
LEMMA OneMorePlace ==
    ASSUME NEW n \in Nat, NEW S \in SUBSET (1..n)
    PROVE  /\ Cardinality(S) \in Nat
           /\ Cardinality(S \cup {n + 1}) = Cardinality(S) + 1
<1>1. IsFiniteSet(1..n)
  BY FS_Interval
<1>2. IsFiniteSet(S)
  BY <1>1, FS_Subset
<1>3. n + 1 \notin S
  OBVIOUS
<1> QED
  BY <1>2, <1>3, FS_AddElement, FS_CardinalityType

\* A set of numbers with a bound has a largest element.
LEMMA LargestExists ==
    ASSUME NEW S \in SUBSET Nat, S # {}, NEW b \in Nat, \A c \in S : c <= b
    PROVE  Max(S) \in S /\ \A c \in S : c <= Max(S)
<1> DEFINE T == {u \in Nat : \A c \in S : c <= u}
<1>1. T \subseteq Nat /\ T # {}
  OBVIOUS
<1>2. \E u \in T : \A v \in T : ~(<<v, u>> \in OpToRel(<, Nat))
  BY <1>1, NatLessThanWellFounded, WFMin
<1>3. PICK u \in T : \A v \in T : ~(v < u)
  BY <1>2 DEF OpToRel
<1>4. u \in S
  <2>1. SUFFICES ASSUME u \notin S
                 PROVE  FALSE
    OBVIOUS
  <2>2. \A c \in S : c <= u /\ c # u /\ c \in Nat
    BY <1>3, <2>1
  <2>3. u > 0
    <3>1. PICK c : c \in S
      OBVIOUS
    <3>2. c \in Nat /\ u \in Nat /\ c <= u /\ c # u
      BY <1>3, <2>2, <3>1
    <3> QED
      BY <3>2
  <2>4. u - 1 \in Nat /\ u - 1 < u /\ \A c \in S : c <= u - 1
    BY <1>3, <2>2, <2>3
  <2> QED
    BY <1>3, <2>4
<1>5. \E x \in S : \A y \in S : x >= y
  BY <1>3, <1>4
<1>6. Max(S) \in S /\ \A y \in S : Max(S) >= y
  BY <1>5 DEF Max
<1> QED
  BY <1>6

\* One more error, and the places of client i among them.
LEMMA ErrorAdded ==
    ASSUME IndInv, NEW j \in ClientIds, NEW r \in SendErrors,
           errors' = Append(errors, [client |-> j, error |-> r])
    PROVE  /\ errors' \in Seq([client : ClientIds, error : SendErrors])
           /\ Len(errors) \in Nat /\ Len(errors') = Len(errors) + 1
           /\ \A k \in 1..Len(errors) : errors'[k] = errors[k]
           /\ errors'[Len(errors) + 1] = [client |-> j, error |-> r]
           /\ \A i \in ClientIds : ErrorsOf(i)' = IF i = j THEN ErrorsOf(i) + 1 ELSE ErrorsOf(i)
<1> DEFINE E == [client : ClientIds, error : SendErrors]
<1>1. errors \in Seq(E) /\ [client |-> j, error |-> r] \in E
  BY DEF IndInv, TypeOK
<1>2. /\ errors' \in Seq(E)
      /\ Len(errors) \in Nat /\ Len(errors') = Len(errors) + 1
      /\ \A k \in 1..Len(errors) : errors'[k] = errors[k]
      /\ errors'[Len(errors) + 1] = [client |-> j, error |-> r]
      /\ DOMAIN errors = 1..Len(errors) /\ DOMAIN errors' = 1..(Len(errors) + 1)
  BY <1>1, AppendProperties, LenProperties
<1>3. ASSUME NEW i \in ClientIds
      PROVE  ErrorsOf(i)' = IF i = j THEN ErrorsOf(i) + 1 ELSE ErrorsOf(i)
  <2>1. PICK n \in Nat : n = Len(errors)
    BY <1>2
  <2>2. PICK S \in SUBSET (1..n) : S = {k \in DOMAIN errors : errors[k].client = i}
    BY <1>2, <2>1
  <2>3. CASE i = j
    <3>1. {k \in DOMAIN errors' : errors'[k].client = i} = S \cup {n + 1}
      BY <1>2, <2>1, <2>2, <2>3
    <3> QED
      BY <2>2, <2>3, <3>1, OneMorePlace DEF ErrorsOf
  <2>4. CASE i # j
    <3>1. {k \in DOMAIN errors' : errors'[k].client = i} = S
      BY <1>2, <2>1, <2>2, <2>4
    <3> QED
      BY <2>2, <2>4, <3>1 DEF ErrorsOf
  <2> QED
    BY <2>3, <2>4
<1> QED
  BY <1>2, <1>3

\* A new vector of channels, or one that grew, is a vector.
LEMMA VectorType ==
    ASSUME NEW n \in Nat, NEW T, NEW f \in [1..n -> T]
    PROVE  f \in Seq(T) /\ Len(f) = n
<1>1. f \in Seq(T)
  BY SeqDef
<1> QED
  BY <1>1, LenProperties

\* No call has errors that belong to an open channel and are not its task's.
LEMMA NoErrorsYet ==
    ASSUME errors' = <<>>
    PROVE  OpenIsSendable' /\ errors' \in Seq([client : ClientIds, error : SendErrors])
<1>1. errors' \in Seq([client : ClientIds, error : SendErrors]) /\ DOMAIN (errors') = {}
  BY EmptySeq
<1> QED
  BY <1>1 DEF OpenIsSendable

\* Before the first turn nothing is to be accounted for.
LEMMA NothingVisited ==
    ASSUME asked' \in Seq(ClientIds), todo' = asked', errors' = <<>>, copies' = NoCopies
    PROVE  /\ RestIsTodo'
           /\ \A i \in ClientIds : copies'[i] + ErrorsOf(i)' = Cardinality(NamedIn(i, Visited)')
<1>1. Len(asked') \in Nat /\ Visited' = 0
  BY LenProperties DEF Visited
<1>2. RestIsTodo'
  BY <1>1 DEF RestIsTodo
<1>3. \A i : NamedIn(i, Visited)' = {}
  BY <1>1 DEF NamedIn
<1>4. \A i : ErrorsOf(i)' = 0
  <2>1. DOMAIN (errors') = {}
    BY EmptySeq
  <2>2. \A i : {k \in DOMAIN (errors') : errors'[k].client = i} = {}
    BY <2>1
  <2> QED
    BY <2>2, FS_EmptySet DEF ErrorsOf
<1>5. \A i \in ClientIds : copies'[i] = 0
  BY DEF NoCopies
<1>6. \A i : Cardinality(NamedIn(i, Visited)') = 0
  BY <1>3, FS_EmptySet
<1> QED
  BY <1>2, <1>4, <1>5, <1>6

-----------------------------------------------------------------------------
(* The calls.                                                              *)

\* What a call leaves alone.
LEMMA EnvironmentKept ==
    ASSUME IndInv, UNCHANGED <<envVars, table>>
    PROVE  OpenForClients' /\ OpenIsBounded'
BY DEF IndInv, envVars, PoolVars, OpenForClients, OpenIsBounded, HasSlot, Slot

\* A call that passes its guards has visited nobody.
LEMMA BeginStep ==
    ASSUME IndInv, NEW s \in Seq(ClientIds), NEW c \in Chosen, Begin(s, c)
    PROVE  IndInv'
<1> USE DEF Begin
<1>1. c \in Ids
  BY DEF Chosen, IndInv, TypeOK, PoolTypeOK
<1>2. OpenForClients' /\ OpenIsBounded' /\ OpenIsSendable'
  BY EnvironmentKept, NoErrorsYet
<1>3. TypeOK'
  BY <1>1, NoErrorsYet DEF IndInv, TypeOK, PoolTypeOK, envVars, PoolVars, Outcomes, NoCopies
<1>4. RestIsTodo' /\ Accounted'
  BY <1>1, NothingVisited DEF Accounted, Refusals
<1> QED
  BY <1>2, <1>3, <1>4 DEF IndInv

\* A call that is refused visits nobody.
LEMMA RefuseStep ==
    ASSUME IndInv, NEW why \in Refusals, Refuse(why)
    PROVE  IndInv'
<1> USE DEF Refuse
<1>1. OpenForClients' /\ OpenIsBounded' /\ OpenIsSendable'
  BY EnvironmentKept, NoErrorsYet
<1>2. <<>> \in Seq(ClientIds)
  BY EmptySeq
<1>3. TypeOK'
  BY <1>2, NoErrorsYet DEF IndInv, TypeOK, PoolTypeOK, envVars, PoolVars, Outcomes, NoCopies
<1>4. RestIsTodo' /\ Accounted'
  BY <1>2, NothingVisited DEF Accounted, Refusals
<1> QED
  BY <1>1, <1>3, <1>4 DEF IndInv

\* A call of the user begins its loop or is refused.
LEMMA CallStep ==
    ASSUME IndInv, Call
    PROVE  IndInv'
<1>1. CASE SendPayload
  <2>1. PICK i \in ClientIds, c \in Chosen : Begin(<<i>>, c)
    BY <1>1 DEF SendPayload
  <2>2. <<i>> \in Seq(ClientIds)
    OBVIOUS
  <2> QED
    BY <2>1, <2>2, BeginStep
<1>2. CASE SendGroup
  <2>1. PICK n \in 0..MaxGroup : \E s \in [1..n -> ClientIds], c \in Chosen : Begin(s, c)
    BY <1>2 DEF SendGroup
  <2>2. n \in Nat
    BY SendsAssumption
  <2> QED
    BY <2>1, <2>2, VectorType, BeginStep
<1>3. CASE Broadcast
  <2>1. PICK s \in SetToSeqs(clients) : \E c \in Chosen : Begin(s, c)
    BY <1>3 DEF Broadcast
  <2>2. clients \subseteq ClientIds /\ Cardinality(clients) \in Nat
    BY SendsAssumption, FS_Subset, FS_CardinalityType DEF IndInv, TypeOK
  <2>3. s \in [1..Cardinality(clients) -> ClientIds]
    BY <2>1, <2>2 DEF SetToSeqs
  <2> QED
    BY <2>1, <2>2, <2>3, VectorType, BeginStep
<1>4. CASE \E why \in Refusals : Refuse(why)
  BY <1>4, RefuseStep
<1> QED
  BY <1>1, <1>2, <1>3, <1>4 DEF Call

\* What sending comes to is "Ok" or an error; on an open channel, for a client that
\* is connected, only a full queue and a dead task are errors.
LEMMA ResultType ==
    ASSUME IndInv, NEW i \in ClientIds, NEW c \in Ids
    PROVE  /\ SendResult(i, c) \in SendErrors \cup {"Ok"}
           /\ SendResult(i, c) = "Ok" => waiting[i][c] + 1 \in 0..QueueSize
           /\ i \in clients /\ c \in opened
                 => SendResult(i, c) \in {"FullQueue", "InternalChannelClosed", "Ok"}
<1>1. waiting[i][c] \in 0..QueueSize /\ QueueSize \in Nat
  BY SendsAssumption DEF IndInv, TypeOK
<1>2. CASE i \notin clients
  BY <1>2 DEF SendResult, SendErrors
<1>3. CASE i \in clients /\ ~HasSlot(i, c)
  BY <1>3 DEF SendResult, SendErrors, IndInv, OpenForClients
<1>4. CASE i \in clients /\ HasSlot(i, c)
  <2>1. SendResult(i, c) = IF Slot(i, c) = "none" THEN "ChannelClosed"
            ELSE IF Slot(i, c) = "dead" THEN "InternalChannelClosed"
            ELSE IF waiting[i][c] = QueueSize THEN "FullQueue" ELSE "Ok"
    BY <1>4 DEF SendResult
  <2>2. c \in opened => Slot(i, c) \in {"open", "dead"}
    BY <1>4 DEF IndInv, OpenForClients
  <2> QED
    BY <1>1, <2>1, <2>2 DEF SendErrors
<1> QED
  BY <1>2, <1>3, <1>4

\* One turn of the loop adds a copy or an error of the client it visits.
LEMMA VisitStep ==
    ASSUME IndInv, Visit
    PROVE  IndInv'
<1>0. /\ todo # <<>> /\ todo' = Tail(todo)
      /\ UNCHANGED <<envVars, table, outcome, channel, asked>>
  BY DEF Visit
<1>1. /\ todo \in Seq(ClientIds) /\ asked \in Seq(ClientIds)
      /\ Len(todo) \in Nat /\ Len(asked) \in Nat
  BY LenProperties DEF IndInv, TypeOK
<1>2. /\ Tail(todo) \in Seq(ClientIds) /\ Len(Tail(todo)) = Len(todo) - 1
      /\ \A j \in 1..Len(Tail(todo)) : Tail(todo)[j] = todo[j + 1]
      /\ Head(todo) \in ClientIds /\ Head(todo) = todo[1] /\ Len(todo) > 0
  BY <1>0, <1>1, HeadTailProperties, EmptySeq
<1>3. outcome = "sending" /\ channel \in Ids
  BY <1>0 DEF IndInv, Accounted
<1>4. PICK i \in ClientIds, n \in Nat, r \in {SendResult(Head(todo), channel)} :
              i = Head(todo) /\ n = Visited /\ r = SendResult(i, channel)
  BY <1>1, <1>2 DEF IndInv, RestIsTodo, Visited
<1>5. /\ n + 1 <= Len(asked) /\ i = asked[n + 1] /\ Visited' = n + 1
      /\ asked' = asked
  BY <1>0, <1>1, <1>2, <1>4 DEF IndInv, RestIsTodo, Visited
<1>6. RestIsTodo'
  <2>1. \A j \in 1..Len(Tail(todo)) : Tail(todo)[j] = asked[n + 1 + j]
    <3>1. SUFFICES ASSUME NEW j \in 1..Len(Tail(todo))
                   PROVE  Tail(todo)[j] = asked[n + 1 + j]
      OBVIOUS
    <3>2. j + 1 \in 1..Len(todo) /\ n + (j + 1) = n + 1 + j
      BY <1>1, <1>2
    <3>3. todo[j + 1] = asked[n + (j + 1)]
      BY <1>4, <3>2 DEF IndInv, RestIsTodo
    <3> QED
      BY <1>2, <3>2, <3>3
  <2>2. Len(Tail(todo)) <= Len(asked)
    BY <1>1, <1>2 DEF IndInv, RestIsTodo
  <2> QED
    BY <1>0, <1>5, <2>1, <2>2 DEF RestIsTodo
<1>7. \A j \in ClientIds : Cardinality(NamedIn(j, Visited)') =
          IF j = i THEN Cardinality(NamedIn(j, n)) + 1 ELSE Cardinality(NamedIn(j, n))
  <2>1. SUFFICES ASSUME NEW j \in ClientIds
                 PROVE  Cardinality(NamedIn(j, Visited)') =
                    IF j = i THEN Cardinality(NamedIn(j, n)) + 1 ELSE Cardinality(NamedIn(j, n))
    OBVIOUS
  <2>2. NamedIn(j, n) \in SUBSET (1..n)
    BY DEF NamedIn
  <2>3. NamedIn(j, Visited)' = {k \in 1..(n + 1) : asked[k] = j}
    BY <1>5 DEF NamedIn
  <2>4. 1..(n + 1) = (1..n) \cup {n + 1}
    OBVIOUS
  <2>5. NamedIn(j, Visited)' = IF j = i THEN NamedIn(j, n) \cup {n + 1} ELSE NamedIn(j, n)
    BY <1>5, <2>3, <2>4 DEF NamedIn
  <2> QED
    BY <2>2, <2>5, OneMorePlace
<1>8. \A j \in ClientIds : copies[j] + ErrorsOf(j) = Cardinality(NamedIn(j, n))
  BY <1>3, <1>4 DEF IndInv, Accounted
<1>9. \A j \in ClientIds : copies[j] \in Nat /\ ErrorsOf(j) \in Nat
  <2>1. \A j \in ClientIds :
           {k \in DOMAIN errors : errors[k].client = j} \in SUBSET (1..Len(errors))
    BY LenProperties DEF IndInv, TypeOK
  <2> QED
    BY <2>1, OneMorePlace, LenProperties DEF IndInv, TypeOK, ErrorsOf
<1>10. /\ r \in SendErrors \cup {"Ok"}
       /\ r = "Ok" => waiting[i][channel] + 1 \in 0..QueueSize
       /\ i \in clients /\ channel \in opened
             => r \in {"FullQueue", "InternalChannelClosed", "Ok"}
  BY <1>3, <1>4, ResultType
<1>11. CASE r = "Ok"
  <2>1. /\ waiting' = [waiting EXCEPT ![i][channel] = @ + 1]
        /\ copies' = [copies EXCEPT ![i] = @ + 1] /\ errors' = errors
    BY <1>4, <1>11 DEF Visit
  <2>2. waiting' \in [ClientIds -> [Ids -> 0..QueueSize]] /\ copies' \in [ClientIds -> Nat]
    <3>1. /\ waiting \in [ClientIds -> [Ids -> 0..QueueSize]] /\ copies \in [ClientIds -> Nat]
          /\ waiting[i][channel] + 1 \in 0..QueueSize
      BY <1>10, <1>11 DEF IndInv, TypeOK
    <3>2. copies' \in [ClientIds -> Nat]
      BY <2>1, <3>1
    <3>3. waiting[i] \in [Ids -> 0..QueueSize]
      BY <3>1
    <3> QED
      BY <1>3, <2>1, <3>1, <3>2, <3>3
  <2>3. TypeOK'
    BY <1>0, <1>2, <2>1, <2>2 DEF IndInv, TypeOK, PoolTypeOK, envVars, PoolVars
  <2>4. \A j \in ClientIds : ErrorsOf(j)' = ErrorsOf(j)
    BY <2>1 DEF ErrorsOf
  <2>5. \A j \in ClientIds : copies'[j] = IF j = i THEN copies[j] + 1 ELSE copies[j]
    BY <2>1 DEF IndInv, TypeOK
  <2>6. \A j \in ClientIds : copies'[j] + ErrorsOf(j)' = Cardinality(NamedIn(j, Visited)')
    BY <1>7, <1>8, <1>9, <2>4, <2>5
  <2>7. Accounted'
    BY <1>0, <1>3, <2>6 DEF Accounted, Refusals
  <2>8. OpenIsSendable'
    BY <1>0, <2>1 DEF IndInv, OpenIsSendable, envVars
  <2> QED
    BY <1>0, <1>6, <2>3, <2>7, <2>8, EnvironmentKept DEF IndInv
<1>12. CASE r # "Ok"
  <2>1. /\ errors' = Append(errors, [client |-> i, error |-> r])
        /\ waiting' = waiting /\ copies' = copies /\ r \in SendErrors
    BY <1>4, <1>10, <1>12 DEF Visit
  <2>2. /\ errors' \in Seq([client : ClientIds, error : SendErrors])
        /\ Len(errors) \in Nat /\ Len(errors') = Len(errors) + 1
        /\ \A k \in 1..Len(errors) : errors'[k] = errors[k]
        /\ errors'[Len(errors) + 1] = [client |-> i, error |-> r]
        /\ \A j \in ClientIds : ErrorsOf(j)' = IF j = i THEN ErrorsOf(j) + 1 ELSE ErrorsOf(j)
    BY <2>1, ErrorAdded
  <2>3. TypeOK'
    BY <1>0, <1>2, <2>1, <2>2 DEF IndInv, TypeOK, PoolTypeOK, envVars, PoolVars
  <2>4. \A j \in ClientIds : copies'[j] + ErrorsOf(j)' = Cardinality(NamedIn(j, Visited)')
    <3>1. SUFFICES ASSUME NEW j \in ClientIds
                   PROVE  copies'[j] + ErrorsOf(j)' = Cardinality(NamedIn(j, Visited)')
      OBVIOUS
    <3>2. /\ copies'[j] = copies[j] /\ copies[j] \in Nat /\ ErrorsOf(j) \in Nat
          /\ copies[j] + ErrorsOf(j) = Cardinality(NamedIn(j, n))
      BY <1>8, <1>9, <2>1
    <3>3. ErrorsOf(j)' = IF j = i THEN ErrorsOf(j) + 1 ELSE ErrorsOf(j)
      BY <2>2
    <3>4. Cardinality(NamedIn(j, Visited)') =
              IF j = i THEN Cardinality(NamedIn(j, n)) + 1 ELSE Cardinality(NamedIn(j, n))
      BY <1>7
    <3> QED
      BY <3>2, <3>3, <3>4
  <2>5. Accounted'
    BY <1>0, <1>3, <2>4 DEF Accounted, Refusals
  <2>6. OpenIsSendable'
    <3>1. DOMAIN errors' = 1..(Len(errors) + 1) /\ DOMAIN errors = 1..Len(errors)
      BY <2>2, LenProperties DEF IndInv, TypeOK
    <3>2. clients' = clients /\ opened' = opened /\ channel' = channel
      BY <1>0 DEF envVars
    <3>3. SUFFICES ASSUME channel \in opened, NEW k \in DOMAIN errors',
                          errors'[k].client \in clients
                   PROVE  errors'[k].error \in {"FullQueue", "InternalChannelClosed"}
      BY <3>2 DEF OpenIsSendable
    <3>4. CASE k = Len(errors) + 1
      BY <1>10, <1>12, <2>2, <3>3, <3>4
    <3>5. CASE k # Len(errors) + 1
      BY <2>2, <3>1, <3>3, <3>5 DEF IndInv, OpenIsSendable
    <3> QED
      BY <3>4, <3>5
  <2> QED
    BY <1>0, <1>6, <2>3, <2>5, <2>6, EnvironmentKept DEF IndInv
<1> QED
  BY <1>11, <1>12

\* A call returns when it has visited all.
LEMMA ReturnStep ==
    ASSUME IndInv, Return
    PROVE  IndInv'
<1> USE DEF Return
<1>1. TypeOK'
  BY DEF IndInv, TypeOK, PoolTypeOK, envVars, PoolVars, Outcomes
<1>2. RestIsTodo' /\ Accounted'
  BY DEF IndInv, RestIsTodo, Accounted, Visited, NamedIn, ErrorsOf, Refusals
<1>3. OpenIsSendable'
  BY DEF IndInv, OpenIsSendable, envVars
<1> QED
  BY <1>1, <1>2, <1>3, EnvironmentKept DEF IndInv

-----------------------------------------------------------------------------
(* The tasks.                                                              *)

\* What the tasks leave alone.
LEMMA CallKept ==
    ASSUME IndInv, UNCHANGED <<envVars, callVars>>
    PROVE  RestIsTodo' /\ Accounted' /\ OpenIsBounded' /\ OpenIsSendable'
<1>1. UNCHANGED <<clients, opened, channel, asked, todo, copies, errors, outcome>>
  BY DEF envVars, callVars
<1>2. RestIsTodo'
  BY <1>1 DEF IndInv, RestIsTodo, Visited
<1>3. Accounted'
  BY <1>1 DEF IndInv, Accounted, Visited, NamedIn, ErrorsOf
<1>4. OpenIsBounded' /\ OpenIsSendable'
  BY <1>1 DEF IndInv, OpenIsBounded, OpenIsSendable
<1> QED
  BY <1>2, <1>3, <1>4

\* The tasks take payloads and end; what was counted stays.
LEMMA TasksStep ==
    ASSUME IndInv, Tasks
    PROVE  IndInv'
<1>0. PICK i \in clients, c \in Ids : TakePayload(i, c) \/ TaskEnds(i, c)
  BY DEF Tasks
<1>1. i \in ClientIds /\ waiting[i][c] \in 0..QueueSize /\ QueueSize \in Nat
  BY SendsAssumption DEF IndInv, TypeOK
<1>2. CASE TakePayload(i, c)
  <2>1. waiting' \in [ClientIds -> [Ids -> 0..QueueSize]]
    <3>1. waiting[i][c] - 1 \in 0..QueueSize
      BY <1>1, <1>2 DEF TakePayload
    <3> QED
      BY <1>2, <3>1 DEF TakePayload, IndInv, TypeOK
  <2>2. TypeOK'
    BY <1>2, <2>1 DEF TakePayload, IndInv, TypeOK, PoolTypeOK, envVars, PoolVars, callVars
  <2> QED
    BY <1>2, <2>2, CallKept, EnvironmentKept DEF TakePayload, IndInv
<1>3. CASE TaskEnds(i, c)
  <2>1. /\ table' = [table EXCEPT ![i][c + 1] = "dead"]
        /\ waiting' = [waiting EXCEPT ![i][c] = 0]
        /\ UNCHANGED <<envVars, callVars>> /\ c < Len(table[i])
    BY <1>3 DEF TaskEnds, HasSlot
  <2>2. waiting' \in [ClientIds -> [Ids -> 0..QueueSize]]
    BY <1>1, <2>1 DEF IndInv, TypeOK
  <2>3. PICK t : t = [table[i] EXCEPT ![c + 1] = "dead"]
    OBVIOUS
  <2>4. table' = [table EXCEPT ![i] = t]
    BY <2>1, <2>3
  <2>5. table[i] \in Seq({"none", "open", "dead"}) /\ c \in Nat
    BY <1>1, IdsAssumption DEF IndInv, TypeOK
  <2>6. /\ t \in Seq({"none", "open", "dead"}) /\ Len(t) = Len(table[i]) /\ t[c + 1] = "dead"
        /\ \A k \in 1..Len(t) : k # c + 1 => t[k] = table[i][k]
    BY <2>1, <2>3, <2>5, ExceptSeq, LenProperties
  <2>7. TypeOK'
    BY <1>1, <2>1, <2>2, <2>4, <2>6 DEF IndInv, TypeOK, PoolTypeOK, envVars, PoolVars, callVars
  <2>8. OpenForClients'
    <3>1. SUFFICES ASSUME NEW j \in clients, NEW d \in opened
                   PROVE  d < Len(table'[j]) /\ table'[j][d + 1] \in {"open", "dead"}
      BY <2>1 DEF OpenForClients, HasSlot, Slot, envVars
    <3>2. j \in ClientIds /\ d \in Nat /\ d < Len(table[j]) /\ table[j][d + 1] \in {"open", "dead"}
      BY IdsAssumption DEF IndInv, TypeOK, OpenForClients, HasSlot, Slot
    <3>3. CASE j # i
      BY <1>1, <2>4, <3>2, <3>3 DEF IndInv, TypeOK
    <3>4. CASE j = i
      <4>1. table'[j] = t
        BY <1>1, <2>4, <3>4 DEF IndInv, TypeOK
      <4>2. d + 1 \in 1..Len(t)
        BY <2>6, <3>2, <3>4, LenProperties, <2>5
      <4> QED
        BY <2>5, <2>6, <3>2, <3>4, <4>1, <4>2
    <3> QED
      BY <3>3, <3>4
  <2> QED
    BY <2>1, <2>7, <2>8, CallKept DEF IndInv
<1> QED
  BY <1>0, <1>2, <1>3

-----------------------------------------------------------------------------
(* Between two calls.                                                      *)

\* The result of the last call is forgotten: nothing is accounted for.
LEMMA Forgotten ==
    ASSUME IndInv, Forget
    PROVE  /\ RestIsTodo' /\ Accounted' /\ OpenIsSendable'
           /\ outcome' \in Outcomes /\ channel' \in Ids \cup {NoChannel}
           /\ asked' \in Seq(ClientIds) /\ todo' \in Seq(ClientIds)
           /\ errors' \in Seq([client : ClientIds, error : SendErrors])
           /\ copies' \in [ClientIds -> Nat]
<1>1. /\ outcome' = "none" /\ channel' = NoChannel
      /\ asked' = <<>> /\ todo' = <<>> /\ errors' = <<>> /\ copies' = NoCopies
  BY DEF Forget, IndInv, Accounted
<1>2. <<>> \in Seq(ClientIds)
  BY EmptySeq
<1>3. RestIsTodo' /\ Accounted'
  BY <1>1, <1>2, NothingVisited DEF Accounted, Refusals
<1> QED
  BY <1>1, <1>2, <1>3, NoErrorsYet DEF Outcomes, NoCopies

\* What a step between two calls has to keep of the clients and their channels.
EnvTypes ==
    /\ PoolTypeOK
    /\ opened \subseteq Ids
    /\ clients \subseteq joined /\ joined \subseteq ClientIds
    /\ table \in [ClientIds -> Seq({"none", "open", "dead"})]
    /\ waiting \in [ClientIds -> [Ids -> 0..QueueSize]]

\* Between two calls nothing is counted, and the channels are what matters.
LEMMA EnoughBetween ==
    ASSUME IndInv, Forget, EnvTypes', OpenForClients', OpenIsBounded'
    PROVE  IndInv'
BY Forgotten DEF IndInv, TypeOK, EnvTypes

\* The vector of a client that just connected holds every open channel.
LEMMA NewTableHolds ==
    ASSUME IndInv
    PROVE  /\ NewTable \in Seq({"none", "open", "dead"})
           /\ \A c \in opened : c < Len(NewTable) /\ NewTable[c + 1] = "open"
<1> USE DEF IndInv, TypeOK, PoolTypeOK
<1>1. opened \subseteq Nat
  BY IdsAssumption
<1>2. CASE opened = {}
  <2>1. NewTable \in [1..0 -> {"none", "open", "dead"}]
    BY <1>2 DEF NewTable
  <2> QED
    BY <1>2, <2>1, VectorType
<1>3. CASE opened # {}
  <2>1. Max(opened) \in opened /\ \A c \in opened : c <= Max(opened)
    BY <1>1, <1>3, LargestExists DEF OpenIsBounded
  <2>2. PICK m \in Nat : m = Max(opened)
    BY <1>1, <2>1
  <2>3. NewTable = [k \in 1..(m + 1) |-> IF k - 1 \in opened THEN "open" ELSE "none"]
    BY <1>3, <2>2 DEF NewTable
  <2>4. NewTable \in Seq({"none", "open", "dead"}) /\ Len(NewTable) = m + 1
    BY <2>3, VectorType
  <2>5. ASSUME NEW c \in opened
        PROVE  c < Len(NewTable) /\ NewTable[c + 1] = "open"
    <3>1. c \in Nat /\ c <= m
      BY <1>1, <2>1, <2>2
    <3>2. c + 1 \in 1..(m + 1) /\ (c + 1) - 1 = c
      BY <3>1
    <3> QED
      BY <2>3, <2>4, <3>1, <3>2
  <2> QED
    BY <2>4, <2>5
<1> QED
  BY <1>2, <1>3

\* A vector in which c was registered holds c, and all it held.
LEMMA RegisterHolds ==
    ASSUME NEW t \in Seq({"none", "open", "dead"}), NEW c \in Nat
    PROVE  /\ Register(t, c) \in Seq({"none", "open", "dead"})
           /\ Len(Register(t, c)) \in Nat /\ Len(t) <= Len(Register(t, c))
           /\ c < Len(Register(t, c)) /\ Register(t, c)[c + 1] = "open"
           /\ \A k \in 1..Len(t) : k # c + 1 => Register(t, c)[k] = t[k]
<1>1. PICK n : n = IF c < Len(t) THEN Len(t) ELSE c + 1
  OBVIOUS
<1>2. n \in Nat /\ c < n /\ Len(t) <= n /\ Len(t) \in Nat
  BY <1>1, LenProperties
<1>3. Register(t, c) = [k \in 1..n |->
          IF k = c + 1 THEN "open" ELSE IF k <= Len(t) THEN t[k] ELSE "none"]
  BY <1>1 DEF Register
<1>4. \A k \in 1..n : k <= Len(t) => t[k] \in {"none", "open", "dead"}
  BY <1>2, ElementOfSeq
<1>5. Register(t, c) \in [1..n -> {"none", "open", "dead"}]
  BY <1>3, <1>4
<1>6. Register(t, c) \in Seq({"none", "open", "dead"}) /\ Len(Register(t, c)) = n
  BY <1>2, <1>5, VectorType
<1>7. c + 1 \in 1..n /\ \A k \in 1..Len(t) : k \in 1..n /\ k <= Len(t)
  BY <1>2
<1> QED
  BY <1>2, <1>3, <1>6, <1>7

\* A client that connects gets every open channel.
LEMMA ConnectStep ==
    ASSUME IndInv, NEW i \in ClientIds, Connect(i)
    PROVE  IndInv'
<1> USE DEF IndInv, TypeOK, PoolTypeOK
<1>1. /\ Forget /\ clients' = clients \cup {i} /\ joined' = joined \cup {i}
      /\ table' = [table EXCEPT ![i] = NewTable]
      /\ UNCHANGED <<PoolVars, opened, waiting>>
  BY DEF Connect
<1>2. EnvTypes'
  BY <1>1, NewTableHolds DEF EnvTypes, PoolVars
<1>3. OpenForClients'
  <2>1. SUFFICES ASSUME NEW j \in clients', NEW c \in opened
                 PROVE  c < Len(table'[j]) /\ table'[j][c + 1] \in {"open", "dead"}
    BY <1>1 DEF OpenForClients, HasSlot, Slot
  <2>2. CASE j = i
    BY <1>1, <2>2, NewTableHolds
  <2>3. CASE j # i
    BY <1>1, <2>3 DEF OpenForClients, HasSlot, Slot
  <2> QED
    BY <2>2, <2>3
<1>4. OpenIsBounded'
  BY <1>1 DEF OpenIsBounded
<1> QED
  BY <1>1, <1>2, <1>3, <1>4, EnoughBetween

\* A client that leaves takes its vector with it.
LEMMA LeaveStep ==
    ASSUME IndInv, NEW i \in ClientIds, Leave(i)
    PROVE  IndInv'
<1> USE DEF IndInv, TypeOK, PoolTypeOK
<1>1. /\ Forget /\ clients' = clients \ {i}
      /\ table' = [table EXCEPT ![i] = <<>>] /\ waiting' = [waiting EXCEPT ![i] = NoneWait]
      /\ UNCHANGED <<PoolVars, opened, joined>>
  BY DEF Leave
<1>2. <<>> \in Seq({"none", "open", "dead"}) /\ NoneWait \in [Ids -> 0..QueueSize]
  BY EmptySeq, SendsAssumption DEF NoneWait
<1>3. EnvTypes'
  BY <1>1, <1>2 DEF EnvTypes, PoolVars
<1>4. OpenForClients' /\ OpenIsBounded'
  BY <1>1 DEF OpenForClients, HasSlot, Slot, OpenIsBounded
<1> QED
  BY <1>1, <1>3, <1>4, EnoughBetween

\* A channel is opened for every client, at the end of its vector or in its place.
LEMMA OpenStep ==
    ASSUME IndInv, NEW c \in Ids, OpenChannel(c)
    PROVE  IndInv'
<1> USE DEF IndInv, TypeOK, PoolTypeOK
<1>1. /\ Forget /\ TakeId(c) /\ opened' = opened \cup {c}
      /\ table' = [i \in ClientIds |-> IF i \in clients THEN Register(table[i], c) ELSE table[i]]
      /\ UNCHANGED <<clients, joined, waiting>>
  BY DEF OpenChannel
<1>2. c \in Nat
  BY IdsAssumption
<1>3. \A i \in ClientIds :
         /\ Register(table[i], c) \in Seq({"none", "open", "dead"})
         /\ Len(table[i]) \in Nat
         /\ Len(Register(table[i], c)) \in Nat /\ Len(table[i]) <= Len(Register(table[i], c))
         /\ c < Len(Register(table[i], c)) /\ Register(table[i], c)[c + 1] = "open"
         /\ \A k \in 1..Len(table[i]) : k # c + 1 => Register(table[i], c)[k] = table[i][k]
  BY <1>2, RegisterHolds, LenProperties
<1>4. EnvTypes'
  BY <1>1, <1>3 DEF EnvTypes, TakeId
<1>5. OpenForClients'
  <2>1. SUFFICES ASSUME NEW i \in clients, NEW d \in opened \cup {c}
                 PROVE  d < Len(table'[i]) /\ table'[i][d + 1] \in {"open", "dead"}
    BY <1>1 DEF OpenForClients, HasSlot, Slot
  <2>2. i \in ClientIds /\ table'[i] = Register(table[i], c) /\ d \in Nat
    BY <1>1, IdsAssumption
  <2>3. CASE d = c
    BY <1>3, <2>2, <2>3
  <2>4. CASE d # c
    <3>1. d < Len(table[i]) /\ table[i][d + 1] \in {"open", "dead"}
      BY <2>4 DEF OpenForClients, HasSlot, Slot
    <3>0. Len(table[i]) \in Nat
      BY <1>3, <2>2
    <3>2. d + 1 \in 1..Len(table[i]) /\ d + 1 # c + 1
      BY <1>2, <2>2, <2>4, <3>0, <3>1
    <3>3. d < Len(Register(table[i], c))
      BY <1>3, <2>2, <3>1
    <3> QED
      BY <1>3, <2>2, <3>1, <3>2, <3>3
  <2> QED
    BY <2>3, <2>4
<1>6. OpenIsBounded'
  <2>1. PICK b \in Nat : \A d \in opened : d <= b
    BY DEF OpenIsBounded
  <2>2. b + c \in Nat /\ \A d \in opened' : d <= b + c
    BY <1>1, <1>2, <2>1, IdsAssumption
  <2> QED
    BY <2>2 DEF OpenIsBounded
<1> QED
  BY <1>1, <1>4, <1>5, <1>6, EnoughBetween

\* Taking a channel out of some vectors leaves the others of each vector alone.
LEMMA TakeOutStep ==
    ASSUME IndInv, Forget, NEW c \in Ids, NEW S, TakeOut(c, S), opened' = opened \ {c},
           UNCHANGED <<clients, joined>>, PoolTypeOK'
    PROVE  IndInv'
<1> USE DEF IndInv, TypeOK
<1>1. c \in Nat /\ 0 \in 0..QueueSize
  BY IdsAssumption, SendsAssumption
<1>2. \A i \in ClientIds : table[i] \in Seq({"none", "open", "dead"}) /\ Len(table[i]) \in Nat
  BY LenProperties
<1>3. ASSUME NEW i \in ClientIds
      PROVE  /\ table'[i] \in Seq({"none", "open", "dead"}) /\ Len(table'[i]) = Len(table[i])
             /\ \A k \in 1..Len(table[i]) : k # c + 1 => table'[i][k] = table[i][k]
  <2>1. CASE i \in S /\ HasSlot(i, c)
    <3>1. table'[i] = [table[i] EXCEPT ![c + 1] = "none"]
      BY <2>1 DEF TakeOut
    <3>2. c + 1 \in 1..Len(table[i])
      BY <1>1, <1>2, <2>1 DEF HasSlot
    <3> QED
      BY <1>2, <3>1, <3>2, ExceptSeq, LenProperties
  <2>2. CASE ~(i \in S /\ HasSlot(i, c))
    BY <1>2, <2>2 DEF TakeOut
  <2> QED
    BY <2>1, <2>2
<1>4. EnvTypes'
  <2>1. waiting' \in [ClientIds -> [Ids -> 0..QueueSize]]
    BY <1>1 DEF TakeOut
  <2>2. table' \in [ClientIds -> Seq({"none", "open", "dead"})]
    BY <1>3 DEF TakeOut
  <2> QED
    BY <2>1, <2>2 DEF EnvTypes
<1>5. OpenForClients'
  <2>1. SUFFICES ASSUME NEW i \in clients, NEW d \in opened \ {c}
                 PROVE  d < Len(table'[i]) /\ table'[i][d + 1] \in {"open", "dead"}
    BY DEF OpenForClients, HasSlot, Slot
  <2>2. i \in ClientIds /\ d \in Nat /\ d < Len(table[i]) /\ table[i][d + 1] \in {"open", "dead"}
    BY IdsAssumption DEF OpenForClients, HasSlot, Slot
  <2>3. d + 1 \in 1..Len(table[i]) /\ d + 1 # c + 1
    BY <1>1, <1>2, <2>2
  <2> QED
    BY <1>3, <2>2, <2>3
<1>6. OpenIsBounded'
  BY DEF OpenIsBounded
<1> QED
  BY <1>4, <1>5, <1>6, EnoughBetween

\* What happens between two calls keeps the invariant.
LEMMA BetweenStep ==
    ASSUME IndInv, Between
    PROVE  IndInv'
<1> USE DEF IndInv, TypeOK, PoolTypeOK
<1>1. CASE \E i \in ClientIds : Connect(i) \/ Leave(i)
  BY <1>1, ConnectStep, LeaveStep
<1>2. CASE \E c \in Ids : OpenChannel(c)
  BY <1>2, OpenStep
<1>3. ASSUME NEW c \in Ids, CloseChannel(c)
      PROVE  IndInv'
  <2>1. PoolTypeOK'
    BY <1>3 DEF CloseChannel, ReleaseId
  <2> QED
    BY <1>3, <2>1, TakeOutStep DEF CloseChannel
<1>4. ASSUME NEW c \in Ids, SetDefault(c)
      PROVE  IndInv'
  <2>1. EnvTypes' /\ OpenForClients' /\ OpenIsBounded'
    BY <1>4 DEF SetDefault, SetDefaultChannel, EnvTypes, OpenForClients, OpenIsBounded,
                HasSlot, Slot
  <2> QED
    BY <1>4, <2>1, EnoughBetween DEF SetDefault
<1>5. ASSUME NEW c \in Ids, NEW i \in clients, NEW B \in SUBSET (clients \ {i}),
             CloseChannelFails(c, i, B)
      PROVE  IndInv'
  <2>1. PoolTypeOK'
    BY <1>5 DEF CloseChannelFails, PoolVars
  <2> QED
    BY <1>5, <2>1, TakeOutStep DEF CloseChannelFails
<1> QED
  BY <1>1, <1>2, <1>3, <1>4, <1>5 DEF Between

\* An endpoint without clients and channels is in the invariant.
LEMMA InitIndInv == Init => IndInv
<1> SUFFICES ASSUME Init
             PROVE  IndInv
  OBVIOUS
<1>1. TypeOK
  BY EmptySeq, SendsAssumption DEF Init, PoolAfterTaking, TypeOK, PoolTypeOK, Outcomes, NoCopies,
                                   NoneWait
<1>2. RestIsTodo /\ Accounted
  BY EmptySeq DEF Init, RestIsTodo, Accounted, Refusals
<1>3. OpenForClients /\ OpenIsBounded /\ OpenIsSendable
  BY DEF Init, OpenForClients, OpenIsBounded, OpenIsSendable
<1> QED
  BY <1>1, <1>2, <1>3 DEF IndInv

\* Every step keeps the invariant.
LEMMA NextIndInv == IndInv /\ [Next]_vars => IndInv'
<1> SUFFICES ASSUME IndInv, [Next]_vars
             PROVE  IndInv'
  OBVIOUS
<1>1. CASE UNCHANGED vars
  <2>1. UNCHANGED <<envVars, callVars, table, waiting>>
    BY <1>1 DEF vars
  <2>2. TypeOK'
    BY <2>1 DEF IndInv, TypeOK, PoolTypeOK, envVars, PoolVars, callVars
  <2> QED
    BY <2>1, <2>2, CallKept, EnvironmentKept DEF IndInv
<1>2. CASE Next
  BY <1>2, CallStep, VisitStep, ReturnStep, TasksStep, BetweenStep DEF Next, Loop
<1> QED
  BY <1>1, <1>2

\* The invariant holds of every run.
THEOREM Inductive == Spec => []IndInv
BY InitIndInv, NextIndInv, PTL DEF Spec

\* The types of the endpoint's sends: no queue is longer than its size, and a vector
\* is one of slots.
THEOREM TypeCorrect == Spec => []TypeOK
<1>1. IndInv => TypeOK
  BY DEF IndInv
<1> QED
  BY <1>1, Inductive, PTL

\* The result of a send accounts for every client it was for
\* (endpoint.rs:94-230, messages.rs:107-235).
THEOREM ResultTellsAll == Spec => []OutcomeTellsAll
<1>1. IndInv => OutcomeTellsAll
  <2> SUFFICES ASSUME IndInv
               PROVE  OutcomeTellsAll
    OBVIOUS
  <2> USE DEF IndInv, TypeOK
  <2>1. ASSUME outcome \in {"Ok", "SendError"}, NEW i \in ClientIds
        PROVE  copies[i] + ErrorsOf(i) = AskedFor(i)
    <3>1. todo = <<>> /\ Len(asked) \in Nat /\ DOMAIN asked = 1..Len(asked)
      BY <2>1, LenProperties DEF Accounted
    <3>2. Visited = Len(asked)
      BY <3>1 DEF Visited
    <3> QED
      BY <2>1, <3>1, <3>2 DEF Accounted, NamedIn, AskedFor
  <2>2. ASSUME outcome = "Ok"
        PROVE  copies = [i \in ClientIds |-> AskedFor(i)]
    <3>1. errors = <<>> /\ DOMAIN errors = {}
      BY <2>2, EmptySeq DEF Accounted
    <3>2. ASSUME NEW i \in ClientIds
          PROVE  copies[i] = AskedFor(i)
      <4>1. {k \in DOMAIN errors : errors[k].client = i} = {}
        BY <3>1
      <4>2. ErrorsOf(i) = 0 /\ copies[i] \in Nat
        BY <4>1, FS_EmptySet DEF ErrorsOf
      <4> QED
        BY <2>1, <2>2, <4>2
    <3> QED
      BY <3>2
  <2> QED
    BY <2>1, <2>2 DEF OutcomeTellsAll, Accounted
<1> QED
  BY <1>1, Inductive, PTL

\* On an open channel a send to a connected client fails for a full queue or a dead
\* task only (README.md:208, endpoint.rs:327-361).
THEOREM OpenChannelsSend == Spec => []OpenIsSendable
<1>1. IndInv => OpenIsSendable
  BY DEF IndInv
<1> QED
  BY <1>1, Inductive, PTL
=============================================================================
