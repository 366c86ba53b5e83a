------------------------- MODULE MessagePagesProofs -------------------------
(***************************************************************************)
(* For queues of any size and any number of messages: handlers are those   *)
(* of the page that is shown, and messages are lost at a full queue only.  *)
(***************************************************************************)
EXTENDS MessagePages, FiniteSetTheorems, TLAPS

-----------------------------------------------------------------------------
(* The handlers *)

\* No page registers a type of the viewport.
LEMMA OwnIsApart ==
    ASSUME NEW kind
    PROVE  Own(kind) \cap ViewportTypes = {}
BY DEF Own, ViewportTypes

\* One replacement of the page, in whatever order the two register.
LEMMA ReplaceKeepsHandlers ==
    ASSUME CallbacksMatchPage, NEW kind, ReplacePage(kind)
    PROVE  CallbacksMatchPage'
<1>1. CASE Own(kind) \cap callbacks # {}
  BY <1>1 DEF ReplacePage, CallbacksMatchPage, Own
<1>2. CASE Own(kind) \cap callbacks = {}
  <2>1. callbacks' = (ViewportTypes \cup Own(page) \cup Own(kind)) \ Own(page) /\ page' = kind
    BY <1>2 DEF ReplacePage, CallbacksMatchPage
  <2>2. Own(kind) \cap Own(page) = {}
    BY <1>2 DEF CallbacksMatchPage
  <2>3. Own(page) \cap ViewportTypes = {}
    BY OwnIsApart
  <2>4. callbacks' = ViewportTypes \cup Own(kind)
    BY <2>1, <2>2, <2>3
  <2> QED BY <2>1, <2>4 DEF CallbacksMatchPage
<1> QED BY <1>1, <1>2

\* The registered types are always those of the viewport and of the page shown,
\* although the new page registers before the old one deregisters
\* (web_socket_client.cpp:98-113, viewport.cpp:73-79).
THEOREM CallbacksMatchPageInvariant ==
    MessageSpec => []CallbacksMatchPage
<1>1. MessageInit => CallbacksMatchPage
  BY DEF MessageInit, CallbacksMatchPage
<1>2. CallbacksMatchPage /\ [MessageNext]_messageVars => CallbacksMatchPage'
  <2> SUFFICES ASSUME CallbacksMatchPage, [MessageNext]_messageVars
               PROVE  CallbacksMatchPage'
    OBVIOUS
  <2>1. ASSUME callbacks' = callbacks, page' = page
        PROVE  CallbacksMatchPage'
    BY <2>1 DEF CallbacksMatchPage, Own
  <2>2. ASSUME NEW type, OnMessage(type)
        PROVE  CallbacksMatchPage'
    BY <2>1, <2>2 DEF OnMessage
  <2>3. CASE StartDraining \/ EndDraining
    BY <2>1, <2>3 DEF StartDraining, EndDraining
  <2>4. CASE ProcessMessage
    <3> DEFINE type == Head(message_queue).type
    <3>1. CASE UNCHANGED <<callbacks, page, enginesPage, ended>>
      BY <2>1, <3>1
    <3>2. CASE CountEngines
      BY <2>1, <3>2 DEF CountEngines
    <3>3. CASE ReplacePage(Opens(type))
      BY <3>3, ReplaceKeepsHandlers
    <3> QED BY <2>4, <3>1, <3>2, <3>3 DEF ProcessMessage
  <2>5. CASE UNCHANGED messageVars
    BY <2>1, <2>5 DEF messageVars
  <2> QED BY <2>2, <2>3, <2>4, <2>5 DEF MessageNext
<1> QED BY <1>1, <1>2, PTL DEF MessageSpec

-----------------------------------------------------------------------------
(* The queue *)

\* What LossOnlyAtLimit needs to be inductive: the numbers queued and those lost
\* are apart, all of them were received, and the queue is in order.
InOrder(q) == \A i, j \in 1 .. Len(q) : i < j => q[i].number < q[j].number

AllPending(q) ==
    \A i \in 1 .. Len(q) : /\ q[i].number \in Nat
                           /\ taken < q[i].number /\ q[i].number <= received
                           /\ q[i].number \notin overflown

NoneMissing(q) ==
    \A n \in Nat : taken < n /\ n <= received =>
        n \in overflown \/ \E i \in 1 .. Len(q) : q[i].number = n

QueueType ==
    /\ message_queue \in Seq([type : ViewportTypes \cup PageTypes, number : Nat])
    /\ received \in Nat /\ taken \in Nat /\ taken <= received
    /\ \A n \in overflown : n \in Nat /\ n <= received

QueueInv ==
    /\ QueueType
    /\ InOrder(message_queue) /\ AllPending(message_queue) /\ NoneMissing(message_queue)

LEMMA QueueInvImplies ==
    ASSUME QueueInv
    PROVE  LossOnlyAtLimit
<1> DEFINE Queued == {message_queue[i].number : i \in DOMAIN message_queue}
<1>1. /\ DOMAIN message_queue = 1 .. Len(message_queue)
      /\ received \in Nat /\ taken \in Nat
  BY DEF QueueInv, QueueType
<1>2. \A n \in taken + 1 .. received : n \in Queued \/ n \in overflown
  <2> SUFFICES ASSUME NEW n \in taken + 1 .. received, n \notin overflown
               PROVE  n \in Queued
    OBVIOUS
  <2>1. n \in Nat /\ taken < n /\ n <= received
    BY <1>1
  <2>2. PICK i \in 1 .. Len(message_queue) : message_queue[i].number = n
    BY <2>1 DEF QueueInv, NoneMissing
  <2> QED BY <1>1, <2>2
<1>3. Queued \cap overflown = {} /\ \A n \in Queued : n > taken
  <2> SUFFICES ASSUME NEW n \in Queued
               PROVE  n \notin overflown /\ n > taken
    OBVIOUS
  <2>1. PICK i \in 1 .. Len(message_queue) : message_queue[i].number = n
    BY <1>1
  <2>2. n \in Nat /\ taken < n /\ n \notin overflown
    BY <2>1 DEF QueueInv, AllPending
  <2> QED BY <1>1, <2>2
<1>4. \A i, j \in DOMAIN message_queue :
         i < j => message_queue[i].number < message_queue[j].number
  BY <1>1 DEF QueueInv, InOrder
<1> QED BY <1>2, <1>3, <1>4 DEF LossOnlyAtLimit

LEMMA QueueInitially ==
    MessageInit => QueueInv
BY DEF MessageInit, QueueInv, QueueType, InOrder, AllPending, NoneMissing

\* A message that comes is queued behind all others.
LEMMA QueuedStep ==
    ASSUME QueueInv, NEW type \in ViewportTypes \cup PageTypes,
           received' = received + 1, taken' = taken, overflown' = overflown,
           message_queue' = Append(message_queue, [type |-> type, number |-> received + 1])
    PROVE  QueueInv'
<1> DEFINE m == [type |-> type, number |-> received + 1]
           q == message_queue'
           N == Len(message_queue)
<1>1. received \in Nat /\ taken \in Nat /\ taken <= received /\ N \in Nat
  BY DEF QueueInv, QueueType
<1>2. m \in [type : ViewportTypes \cup PageTypes, number : Nat] /\ m.number = received + 1
  BY <1>1
<1>3. /\ q \in Seq([type : ViewportTypes \cup PageTypes, number : Nat])
      /\ Len(q) = N + 1 /\ q[N + 1] = m
      /\ \A i \in 1 .. N : q[i] = message_queue[i]
  BY <1>2 DEF QueueInv, QueueType
<1> HIDE DEF m, q
<1>4. \A i \in 1 .. Len(q) : \/ i \in 1 .. N /\ q[i] = message_queue[i]
                             \/ i = N + 1 /\ q[i].number = received + 1
  BY <1>1, <1>2, <1>3
<1>5. \A i \in 1 .. N : /\ message_queue[i].number \in Nat
                        /\ taken < message_queue[i].number
                        /\ message_queue[i].number <= received
                        /\ message_queue[i].number \notin overflown
  BY DEF QueueInv, AllPending
<1>6. InOrder(q)
  <2> SUFFICES ASSUME NEW i \in 1 .. Len(q), NEW j \in 1 .. Len(q), i < j
               PROVE  q[i].number < q[j].number
    BY DEF InOrder
  <2>1. i \in 1 .. N /\ q[i] = message_queue[i]
    BY <1>1, <1>3, <1>4
  <2>2. CASE j \in 1 .. N /\ q[j] = message_queue[j]
    BY <2>1, <2>2 DEF QueueInv, InOrder
  <2>3. CASE j = N + 1 /\ q[j].number = received + 1
    BY <2>1, <2>3, <1>1, <1>5
  <2> QED BY <2>2, <2>3, <1>4
<1>7. AllPending(message_queue)'
  <2> SUFFICES ASSUME NEW i \in 1 .. Len(q)
               PROVE  /\ q[i].number \in Nat
                      /\ taken < q[i].number /\ q[i].number <= received + 1
                      /\ q[i].number \notin overflown
    BY DEF AllPending, q
  <2>1. received + 1 \notin overflown
    BY <1>1 DEF QueueInv, QueueType
  <2>2. CASE i \in 1 .. N /\ q[i] = message_queue[i]
    BY <2>2, <1>1, <1>5
  <2>3. CASE i = N + 1 /\ q[i].number = received + 1
    BY <2>1, <2>3, <1>1
  <2> QED BY <2>2, <2>3, <1>4
<1>8. NoneMissing(message_queue)'
  <2> SUFFICES ASSUME NEW n \in Nat, taken < n, n <= received + 1, n \notin overflown
               PROVE  \E i \in 1 .. Len(q) : q[i].number = n
    BY DEF NoneMissing, q
  <2>1. CASE n = received + 1
    BY <2>1, <1>1, <1>2, <1>3
  <2>2. CASE n # received + 1
    <3>1. n <= received
      BY <2>2, <1>1
    <3>2. PICK i \in 1 .. N : message_queue[i].number = n
      BY <3>1 DEF QueueInv, NoneMissing
    <3> QED BY <3>2, <1>1, <1>3
  <2> QED BY <2>1, <2>2
<1>9. QueueType'
  <2>1. \A n \in overflown : n \in Nat /\ n <= received + 1
    BY <1>1 DEF QueueInv, QueueType
  <2>2. received + 1 \in Nat /\ taken <= received + 1
    BY <1>1
  <2> QED BY <1>1, <1>3, <2>1, <2>2 DEF QueueType, q
<1> QED BY <1>6, <1>7, <1>8, <1>9 DEF QueueInv, q, InOrder

\* A message that meets a full queue is lost, and told apart by its number.
LEMMA LostStep ==
    ASSUME QueueInv, received' = received + 1, taken' = taken,
           overflown' = overflown \cup {received + 1}, message_queue' = message_queue
    PROVE  QueueInv'
<1>1. received \in Nat /\ taken \in Nat /\ taken <= received
  BY DEF QueueInv, QueueType
<1>2. QueueType'
  <2>1. \A n \in overflown' : n \in Nat /\ n <= received + 1
    BY <1>1 DEF QueueInv, QueueType
  <2>2. received + 1 \in Nat /\ taken <= received + 1
    BY <1>1
  <2> QED BY <1>1, <2>1, <2>2 DEF QueueInv, QueueType
<1>3. AllPending(message_queue)'
  <2> SUFFICES ASSUME NEW i \in 1 .. Len(message_queue)
               PROVE  /\ message_queue[i].number \in Nat
                      /\ taken < message_queue[i].number
                      /\ message_queue[i].number <= received + 1
                      /\ message_queue[i].number \notin overflown \cup {received + 1}
    BY DEF AllPending
  <2>1. /\ message_queue[i].number \in Nat
        /\ taken < message_queue[i].number /\ message_queue[i].number <= received
        /\ message_queue[i].number \notin overflown
    BY DEF QueueInv, AllPending
  <2> QED BY <2>1, <1>1
<1>4. NoneMissing(message_queue)'
  <2> SUFFICES ASSUME NEW n \in Nat, taken < n, n <= received + 1,
                      n \notin overflown \cup {received + 1}
               PROVE  \E i \in 1 .. Len(message_queue) : message_queue[i].number = n
    BY DEF NoneMissing
  <2>1. n <= received /\ n \notin overflown
    BY <1>1
  <2> QED BY <2>1 DEF QueueInv, NoneMissing
<1>5. InOrder(message_queue)'
  BY DEF QueueInv, InOrder
<1> QED BY <1>2, <1>3, <1>4, <1>5 DEF QueueInv

LEMMA OnMessageStep ==
    ASSUME QueueInv, NEW type \in ViewportTypes \cup PageTypes, OnMessage(type)
    PROVE  QueueInv'
<1>1. received' = received + 1 /\ taken' = taken
  BY DEF OnMessage
<1>2. \/ /\ message_queue' = Append(message_queue, [type |-> type, number |-> received + 1])
         /\ overflown' = overflown
      \/ message_queue' = message_queue /\ overflown' = overflown \cup {received + 1}
  BY DEF OnMessage
<1> QED BY <1>1, <1>2, QueuedStep, LostStep

\* The message that is taken is the oldest of the queue.
LEMMA ProcessMessageStep ==
    ASSUME QueueInv, ProcessMessage
    PROVE  QueueInv'
<1> DEFINE q == message_queue'
           N == Len(message_queue)
           first == message_queue[1].number
<1>1. /\ message_queue # << >> /\ q = Tail(message_queue) /\ taken' = first
      /\ received' = received /\ overflown' = overflown
  BY DEF ProcessMessage, QueueInv, QueueType
<1>2. /\ q \in Seq([type : ViewportTypes \cup PageTypes, number : Nat])
      /\ N \in Nat \ {0} /\ Len(q) = N - 1
      /\ \A i \in 1 .. N - 1 : q[i] = message_queue[i + 1]
  BY <1>1 DEF QueueInv, QueueType
<1> HIDE DEF q
<1>3. \A i \in 1 .. N : /\ message_queue[i].number \in Nat
                        /\ taken < message_queue[i].number
                        /\ message_queue[i].number <= received
                        /\ message_queue[i].number \notin overflown
  BY DEF QueueInv, AllPending
<1>4. \A i, j \in 1 .. N : i < j => message_queue[i].number < message_queue[j].number
  BY DEF QueueInv, InOrder
<1>5. received \in Nat /\ taken \in Nat
  BY DEF QueueInv, QueueType
<1>6. 1 \in 1 .. N /\ first \in Nat /\ taken < first /\ first <= received
  BY <1>2, <1>3
<1>7. \A i \in 1 .. Len(q) : /\ i + 1 \in 1 .. N /\ 1 < i + 1
                             /\ q[i] = message_queue[i + 1]
  BY <1>2
<1> HIDE DEF first
<1>8. InOrder(q)
  <2> SUFFICES ASSUME NEW i \in 1 .. Len(q), NEW j \in 1 .. Len(q), i < j
               PROVE  q[i].number < q[j].number
    BY DEF InOrder
  <2>1. i + 1 \in 1 .. N /\ j + 1 \in 1 .. N /\ i + 1 < j + 1
    BY <1>7
  <2>2. message_queue[i + 1].number < message_queue[j + 1].number
    BY <2>1, <1>4
  <2> QED BY <2>2, <1>7
<1>9. AllPending(message_queue)'
  <2> SUFFICES ASSUME NEW i \in 1 .. Len(q)
               PROVE  /\ q[i].number \in Nat
                      /\ first < q[i].number /\ q[i].number <= received
                      /\ q[i].number \notin overflown
    BY <1>1 DEF AllPending, q
  <2>1. i + 1 \in 1 .. N /\ 1 < i + 1 /\ q[i] = message_queue[i + 1]
    BY <1>7
  <2>2. first < message_queue[i + 1].number
    BY <2>1, <1>4, <1>6 DEF first
  <2> QED BY <2>1, <2>2, <1>3
<1>10. NoneMissing(message_queue)'
  <2> SUFFICES ASSUME NEW n \in Nat, first < n, n <= received, n \notin overflown
               PROVE  \E i \in 1 .. Len(q) : q[i].number = n
    BY <1>1 DEF NoneMissing, q
  <2>1. taken < n
    BY <1>5, <1>6
  <2>2. PICK i \in 1 .. N : message_queue[i].number = n
    BY <2>1 DEF QueueInv, NoneMissing
  <2>3. i # 1
    BY <2>2, <1>6 DEF first
  <2>4. i - 1 \in 1 .. Len(q) /\ q[i - 1] = message_queue[i]
    BY <2>3, <1>2
  <2> QED BY <2>2, <2>4
<1>11. QueueType'
  BY <1>1, <1>2, <1>5, <1>6 DEF QueueInv, QueueType, q
<1> QED BY <1>8, <1>9, <1>10, <1>11 DEF QueueInv, q, InOrder

\* Messages are taken in order and each once, and only those are missing that met
\* a full queue when they came (web_socket_client.cpp:31, 34-45).
THEOREM LossOnlyAtLimitInvariant ==
    MessageSpec => []LossOnlyAtLimit
<1>1. QueueInv /\ [MessageNext]_messageVars => QueueInv'
  <2> SUFFICES ASSUME QueueInv, [MessageNext]_messageVars
               PROVE  QueueInv'
    OBVIOUS
  <2>1. CASE StartDraining \/ EndDraining \/ UNCHANGED messageVars
    <3>1. UNCHANGED <<message_queue, received, overflown, taken>>
      BY <2>1 DEF StartDraining, EndDraining, messageVars
    <3> QED BY <3>1 DEF QueueInv, QueueType, InOrder, AllPending, NoneMissing
  <2> QED BY <2>1, OnMessageStep, ProcessMessageStep DEF MessageNext
<1> QED BY QueueInitially, QueueInvImplies, <1>1, PTL DEF MessageSpec

-----------------------------------------------------------------------------
(* The engines page *)

EnginesInv == loaded_engines \in Seq(Engines) /\ CountedWereAnnounced

\* A set in any order is a sequence of its elements, each once.
LEMMA InAnyOrderIs ==
    ASSUME NEW S, IsFiniteSet(S), NEW s, s \in InAnyOrder(S)
    PROVE  s \in Seq(S) /\ IsInjective(s) /\ Range(s) = S
<1>1. s \in [1 .. Cardinality(S) -> S] /\ IsInjective(s)
  BY DEF InAnyOrder, Bijection, Injection
<1>2. \A e \in S : \E i \in 1 .. Cardinality(S) : s[i] = e
  BY DEF InAnyOrder, Bijection, Surjection
<1>3. s \in Seq(S)
  BY <1>1, FS_CardinalityType
<1>4. Range(s) = S
  BY <1>1, <1>2 DEF Range
<1> QED BY <1>1, <1>3, <1>4

\* Appending what a list has not yet keeps it without repetition.
LEMMA ConcatInjective ==
    ASSUME NEW S, NEW s \in Seq(S), NEW t \in Seq(S),
           IsInjective(s), IsInjective(t), Range(s) \cap Range(t) = {}
    PROVE  /\ s \o t \in Seq(S) /\ IsInjective(s \o t)
           /\ \A e \in Range(s) \cup Range(t) : e \in Range(s \o t)
<1> DEFINE m == Len(s)
           c == s \o t
<1>1. /\ c \in Seq(S) /\ DOMAIN c = 1 .. m + Len(t) /\ m \in Nat /\ Len(t) \in Nat
      /\ \A i \in 1 .. m : c[i] = s[i]
      /\ \A i \in 1 .. Len(t) : c[m + i] = t[i]
  OBVIOUS
<1>2. DOMAIN s = 1 .. m /\ DOMAIN t = 1 .. Len(t)
  OBVIOUS
<1>3. \A i \in DOMAIN c : \/ i \in 1 .. m /\ c[i] = s[i]
                          \/ i - m \in 1 .. Len(t) /\ c[i] = t[i - m]
  <2>1. \A i \in DOMAIN c : i \in 1 .. m \/ (i - m \in 1 .. Len(t) /\ m + (i - m) = i)
    BY <1>1
  <2> QED BY <1>1, <2>1
<1> HIDE DEF m, c
<1>4. \A i \in DOMAIN c : i \in Int
  BY <1>1
<1>5. ASSUME NEW i \in DOMAIN c, NEW j \in DOMAIN c, c[i] = c[j] PROVE i = j
  <2>1. CASE i \in 1 .. m /\ c[i] = s[i] /\ j \in 1 .. m /\ c[j] = s[j]
    BY <1>2, <1>5, <2>1 DEF IsInjective
  <2>2. CASE /\ i - m \in 1 .. Len(t) /\ c[i] = t[i - m]
             /\ j - m \in 1 .. Len(t) /\ c[j] = t[j - m]
    <3>1. i - m = j - m
      BY <1>2, <1>5, <2>2 DEF IsInjective
    <3> QED BY <1>1, <1>4, <3>1
  <2>3. ASSUME NEW a \in 1 .. m, NEW b \in 1 .. Len(t), s[a] = t[b] PROVE FALSE
    BY <1>2, <2>3 DEF Range
  <2> QED BY <1>3, <1>5, <2>1, <2>2, <2>3
<1>6. IsInjective(c)
  BY <1>5 DEF IsInjective
<1>7. ASSUME NEW e, e \in Range(s) \/ e \in Range(t) PROVE e \in Range(c)
  <2>1. CASE e \in Range(s)
    <3>1. PICK i \in 1 .. m : s[i] = e
      BY <1>2, <2>1 DEF Range
    <3>2. i \in DOMAIN c /\ c[i] = e
      BY <1>1, <3>1
    <3> QED BY <3>2 DEF Range
  <2>2. CASE e \in Range(t)
    <3>1. PICK i \in 1 .. Len(t) : t[i] = e
      BY <1>2, <2>2 DEF Range
    <3>2. m + i \in DOMAIN c /\ c[m + i] = e
      BY <1>1, <3>1
    <3> QED BY <3>2 DEF Range
  <2> QED BY <1>7, <2>1, <2>2
<1> QED BY <1>1, <1>6, <1>7 DEF c

\* The counters of any payload: no more names than loaded entries, and no more
\* of those than entries.
LEMMA CountersAgree ==
    ASSUME NEW payload \in Payloads
    PROVE  /\ LoadedNames(payload) \subseteq Engines /\ IsFiniteSet(LoadedNames(payload))
           /\ Cardinality(LoadedNames(payload)) <= Cardinality(Loaded(payload))
           /\ Cardinality(Loaded(payload)) <= Len(payload)
<1> DEFINE Entry == [name : Engines, active : BOOLEAN]
<1>1. PICK n \in 0 .. MaxEntries : payload \in [1 .. n -> Entry]
  BY DEF Payloads
<1>2. n \in Nat /\ DOMAIN payload = 1 .. n /\ Len(payload) = n
  <2> HIDE DEF Entry
  <2>1. n \in Nat
    BY MessageAssumption
  <2>2. payload \in Seq(Entry)
    BY <1>1, <2>1
  <2> QED BY <1>1, <2>1, <2>2
<1>3. IsFiniteSet(1 .. n) /\ Cardinality(1 .. n) = n
  <2>1. 1 \in Int /\ n \in Int
    BY <1>2
  <2>2. /\ IsFiniteSet(1 .. n)
        /\ Cardinality(1 .. n) = IF 1 > n THEN 0 ELSE n - 1 + 1
    BY <2>1, FS_Interval
  <2> QED BY <1>2, <2>2
<1>4. IsFiniteSet(Loaded(payload)) /\ Cardinality(Loaded(payload)) <= n
  <2>1. Loaded(payload) \in SUBSET (1 .. n)
    BY <1>2 DEF Loaded
  <2> QED BY <1>3, <2>1, FS_Subset
<1>5. /\ IsFiniteSet(LoadedNames(payload))
      /\ Cardinality(LoadedNames(payload)) <= Cardinality(Loaded(payload))
  <2> DEFINE name == [i \in Loaded(payload) |-> payload[i].name]
  <2>1. name \in Surjection(Loaded(payload), LoadedNames(payload))
    BY DEF Surjection, LoadedNames
  <2> QED BY <1>4, <2>1, FS_Surjection
<1>6. LoadedNames(payload) \subseteq Engines
  BY <1>1, <1>2 DEF LoadedNames, Loaded
<1> QED BY <1>2, <1>4, <1>5, <1>6

LEMMA CountEnginesStep ==
    ASSUME EnginesInv, CountEngines
    PROVE  EnginesInv'
<1>1. PICK payload \in Payloads :
         /\ header' = Counted(payload)
         /\ \E new \in InAnyOrder(LoadedNames(payload) \ Range(loaded_engines)) :
              loaded_engines' = loaded_engines \o new
  BY DEF CountEngines
<1>2. PICK new : /\ new \in InAnyOrder(LoadedNames(payload) \ Range(loaded_engines))
                 /\ loaded_engines' = loaded_engines \o new
  BY <1>1
<1> DEFINE known == Range(loaded_engines)
           names == LoadedNames(payload)
<1>3. names \subseteq Engines /\ IsFiniteSet(names)
  BY CountersAgree
<1>4. IsFiniteSet(names \ known)
  <2>1. names \ known \in SUBSET names
    OBVIOUS
  <2> QED BY <1>3, <2>1, FS_Subset
<1>5. new \in Seq(names \ known) /\ IsInjective(new) /\ Range(new) = names \ known
  BY <1>2, <1>4, InAnyOrderIs
<1>6. new \in Seq(Engines) /\ loaded_engines \in Seq(Engines) /\ IsInjective(loaded_engines)
  <2>1. \A i \in 1 .. Len(new) : new[i] \in Engines
    BY <1>3, <1>5
  <2>2. new \in Seq(Engines)
    BY <1>5, <2>1
  <2> QED BY <2>2 DEF EnginesInv, CountedWereAnnounced
<1>7. /\ loaded_engines' \in Seq(Engines) /\ IsInjective(loaded_engines')
      /\ \A e \in known \cup Range(new) : e \in Range(loaded_engines')
  <2>1. known \cap Range(new) = {}
    BY <1>5
  <2> QED BY <1>2, <1>5, <1>6, <2>1, ConcatInjective
<1>8. names \subseteq Range(loaded_engines')
  BY <1>5, <1>7
<1>9. /\ header'.names = names /\ header'.loaded = Cardinality(Loaded(payload))
      /\ header'.total = Len(payload)
  BY <1>1 DEF Counted
<1>10. /\ header'.names \subseteq Range(loaded_engines')
       /\ Cardinality(header'.names) <= header'.loaded
       /\ header'.loaded <= header'.total
  BY <1>8, <1>9, CountersAgree
<1>11. CountedWereAnnounced'
  BY <1>7, <1>10 DEF CountedWereAnnounced
<1> QED BY <1>7, <1>11 DEF EnginesInv

\* Whatever the engines page counts as loaded has been announced by name, each
\* name once, whatever messages came in whatever order and however often they
\* name an engine (engines_page.cpp:87-117).
THEOREM CountedWereAnnouncedInvariant ==
    MessageSpec => []CountedWereAnnounced
<1>1. ASSUME header' = Placeholder, loaded_engines' = << >> PROVE EnginesInv'
  BY <1>1 DEF EnginesInv, CountedWereAnnounced, Placeholder, IsInjective
<1>2. MessageInit => EnginesInv
  BY DEF MessageInit, EnginesInv, CountedWereAnnounced, Placeholder, IsInjective
<1>3. EnginesInv /\ [MessageNext]_messageVars => EnginesInv'
  <2> SUFFICES ASSUME EnginesInv, [MessageNext]_messageVars PROVE EnginesInv'
    OBVIOUS
  <2>1. ASSUME UNCHANGED enginesPage PROVE EnginesInv'
    BY <2>1 DEF enginesPage, EnginesInv, CountedWereAnnounced
  <2>2. ASSUME NEW type, OnMessage(type) PROVE EnginesInv'
    BY <2>1, <2>2 DEF OnMessage
  <2>3. CASE StartDraining \/ EndDraining \/ UNCHANGED messageVars
    BY <2>1, <2>3 DEF StartDraining, EndDraining, messageVars
  <2>4. CASE ProcessMessage
    <3>1. CASE UNCHANGED <<callbacks, page, enginesPage, ended>>
      BY <2>1, <3>1
    <3>2. CASE CountEngines
      BY <3>2, CountEnginesStep
    <3>3. CASE ReplacePage(Opens(Head(message_queue).type))
      BY <1>1, <2>1, <3>3 DEF ReplacePage
    <3> QED BY <2>4, <3>1, <3>2, <3>3 DEF ProcessMessage
  <2> QED BY <2>2, <2>3, <2>4 DEF MessageNext
<1>4. EnginesInv => CountedWereAnnounced
  BY DEF EnginesInv
<1> QED BY <1>2, <1>3, <1>4, PTL DEF MessageSpec

=============================================================================
