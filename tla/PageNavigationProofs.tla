------------------------ MODULE PageNavigationProofs ------------------------
(***************************************************************************)
(* However many key threads and pages there are: the registered handler is *)
(* alive whatever overlaps, and while key threads do not overlap and the   *)
(* display appears once, the pages are what the abstract navigation shows. *)
(***************************************************************************)
EXTENDS PageNavigation, SequenceTheorems, TLAPS

-----------------------------------------------------------------------------
(* Types, and the life of a handler *)

Page  == [kind : {"dashboard", "confirm"}, index : Int, label : Int]
Label == {"idle", "parse", "collect", "visit", "handle", "load", "store", "label",
          "handled", "remove", "assign", "add"}

\* A page that is being installed exists, and stays the root unless another page
\* takes its place.
Installs == \A a \in Actors : /\ InSetRoot(a) => new[a] # NoPage
                              /\ pc[a] = "add" => root # NoPage

CallsPages == \A t \in KeyThreads :
    pc[t] \in {"handle", "load", "store", "label"} => page[t] # NoPage

HandlerInv == TypeOK /\ Installs /\ CallsPages /\ HandlerIsAlive

\* Within a page only the index and the text change.
LEMMA TabChanges ==
    ASSUME pages \in Seq(Page), NEW p \in Int, NEW v \in Int,
           \/ pages' = [pages EXCEPT ![p].index = v]
           \/ pages' = [pages EXCEPT ![p].label = v]
    PROVE  /\ pages' \in Seq(Page) /\ Len(pages') = Len(pages)
           /\ \A q \in 1 .. Len(pages) : /\ pages'[q].kind = pages[q].kind
                                         /\ q # p => pages'[q] = pages[q]
<1>1. Len(pages) \in Nat /\ DOMAIN pages = 1 .. Len(pages) /\ \A q \in 1 .. Len(pages) : pages[q] \in Page
  OBVIOUS
<1>2. CASE p \in 1 .. Len(pages)
  <2>1. PICK b \in Page : pages' = [pages EXCEPT ![p] = b] /\ b.kind = pages[p].kind
    <3>1. pages[p] \in Page
      BY <1>1, <1>2
    <3>2. CASE pages' = [pages EXCEPT ![p].index = v]
      <4> DEFINE b == [pages[p] EXCEPT !.index = v]
      <4>1. b \in Page /\ b.kind = pages[p].kind
        BY <3>1 DEF Page
      <4>2. pages' = [pages EXCEPT ![p] = b]
        BY <3>2
      <4> QED BY <4>1, <4>2
    <3>3. CASE pages' = [pages EXCEPT ![p].label = v]
      <4> DEFINE b == [pages[p] EXCEPT !.label = v]
      <4>1. b \in Page /\ b.kind = pages[p].kind
        BY <3>1 DEF Page
      <4>2. pages' = [pages EXCEPT ![p] = b]
        BY <3>3
      <4> QED BY <4>1, <4>2
    <3> QED BY <3>2, <3>3
  <2>2. /\ pages' \in Seq(Page) /\ Len(pages') = Len(pages)
        /\ \A q \in 1 .. Len(pages) : pages'[q] = IF q = p THEN b ELSE pages[q]
    BY <1>2, <2>1, ExceptSeq
  <2> QED BY <2>1, <2>2
<1>3. CASE p \notin 1 .. Len(pages)
  <2>1. pages' = pages
    BY <1>1, <1>3
  <2> QED BY <2>1
<1> QED BY <1>2, <1>3

\* The pages that are alive change with the viewport and with the threads that
\* install one only.
LEMMA AliveKept ==
    ASSUME pc \in [Actors -> Label], NEW a \in Actors, ~InSetRoot(a),
           NEW label \in Label \ {"remove", "assign", "add"},
           pc' = [pc EXCEPT ![a] = label], UNCHANGED <<children, root, new>>
    PROVE  Alive' = Alive /\ \A b \in Actors : InSetRoot(b)' <=> InSetRoot(b)
<1>1. \A b \in Actors : InSetRoot(b)' <=> InSetRoot(b)
  BY DEF InSetRoot
<1> QED BY <1>1 DEF Alive

LEMMA HandlerInitially ==
    Init => HandlerInv
<1> SUFFICES ASSUME Init PROVE HandlerInv
  OBVIOUS
<1>1. TypeOK
  <2>1. Len(<< >>) = 0 /\ 0 \in 0 .. MaxEvents /\ 0 \in 0 .. MaxPlugs /\ \A S : << >> \in Seq(S)
    BY NavigationAssumption
  <2>2. /\ Len(pages) = 0 /\ pages \in Seq(Page) /\ children \in Seq(1 .. Len(pages))
        /\ << >> \in Seq(1 .. Len(pages)) /\ root \in 0 .. Len(pages) /\ handler \in 0 .. Len(pages)
    BY <2>1 DEF Init, NoPage
  <2>3. /\ key \in [KeyThreads -> Keys] /\ pc \in [Actors -> Label]
        /\ seen \in [KeyThreads -> Int]
        /\ ending \in [KeyThreads -> {"none", "stopped", "broadcast"}]
    BY DEF Init, Keys, Label
  <2>4. /\ todo \in [KeyThreads -> Seq(1 .. Len(pages))] /\ page \in [KeyThreads -> 0 .. Len(pages)]
        /\ new \in [Actors -> 0 .. Len(pages)]
    BY <2>2 DEF Init, NoPage
  <2>5. hasInput \in BOOLEAN /\ handled \in [KeyThreads -> BOOLEAN] /\ terminated \in BOOLEAN
    BY Zenon DEF Init
  <2> QED BY <2>1, <2>2, <2>3, <2>4, <2>5 DEF Init, TypeOK, Page, Label
<1> QED BY <1>1 DEF Init, HandlerInv, Installs, CallsPages, InSetRoot, HandlerIsAlive, Actors, NoPage

\* Most steps leave the viewport alone and install no page.
LEMMA OtherStep ==
    ASSUME HandlerInv, NEW a \in Actors, ~InSetRoot(a),
           NEW label \in Label \ {"remove", "assign", "add"},
           pc' = [pc EXCEPT ![a] = label], UNCHANGED <<children, root, handler, new, plugs, terminated>>,
           pages' \in Seq(Page), Len(pages') = Len(pages),
           \A p \in 1 .. Len(pages) : pages'[p].kind = pages[p].kind,
           hasInput' \in BOOLEAN, key' \in [KeyThreads -> Keys],
           todo' \in [KeyThreads -> Seq(1 .. Len(pages))],
           page' \in [KeyThreads -> 0 .. Len(pages)], seen' \in [KeyThreads -> Int],
           ending' \in [KeyThreads -> {"none", "stopped", "broadcast"}],
           handled' \in [KeyThreads -> BOOLEAN], events' \in 0 .. MaxEvents,
           \A t \in KeyThreads \ {a} : page'[t] = page[t],
           label \in {"handle", "load", "store", "label"} => a \in KeyThreads /\ page'[a] # NoPage
    PROVE  HandlerInv'
<1>1. pc \in [Actors -> Label] /\ handler \in 0 .. Len(pages) /\ Len(pages) \in Nat
  BY DEF HandlerInv, TypeOK, Label
<1>2. Alive' = Alive /\ \A b \in Actors : InSetRoot(b)' <=> InSetRoot(b)
  BY <1>1, AliveKept
<1>3. TypeOK'
  BY DEF HandlerInv, TypeOK, Page, Label
<1>4. Installs'
  BY <1>1, <1>2 DEF HandlerInv, Installs
<1>5. HandlerIsAlive'
  <2>1. handler # NoPage => handler \in 1 .. Len(pages)
    BY <1>1 DEF NoPage
  <2> QED BY <1>2, <2>1 DEF HandlerInv, HandlerIsAlive, IsKind
<1>6. CallsPages'
  <2>1. KeyThreads \subseteq Actors
    BY DEF Actors
  <2> QED BY <1>1, <2>1 DEF HandlerInv, CallsPages
<1> QED BY <1>3, <1>4, <1>5, <1>6 DEF HandlerInv


\* The values that the actions write have the types of their variables.
LEMMA Written ==
    ASSUME TypeOK, NEW t \in KeyThreads
    PROVE  /\ t \in Actors /\ Len(pages) \in Nat
           /\ \A k \in Keys : [key EXCEPT ![t] = k] \in [KeyThreads -> Keys]
           /\ \A s \in Seq(1 .. Len(pages)) :
                [todo EXCEPT ![t] = s] \in [KeyThreads -> Seq(1 .. Len(pages))]
           /\ \A p \in 0 .. Len(pages) : [page EXCEPT ![t] = p] \in [KeyThreads -> 0 .. Len(pages)]
           /\ \A e \in {"none", "stopped", "broadcast"} :
                [ending EXCEPT ![t] = e] \in [KeyThreads -> {"none", "stopped", "broadcast"}]
<1>1. /\ key \in [KeyThreads -> Keys] /\ todo \in [KeyThreads -> Seq(1 .. Len(pages))]
      /\ page \in [KeyThreads -> 0 .. Len(pages)] /\ Len(pages) \in Nat
      /\ ending \in [KeyThreads -> {"none", "stopped", "broadcast"}]
  BY DEF TypeOK
<1> QED BY <1>1 DEF Actors

LEMMA WrittenHistory ==
    ASSUME TypeOK, NEW t \in KeyThreads
    PROVE  /\ \A b \in BOOLEAN : [handled EXCEPT ![t] = b] \in [KeyThreads -> BOOLEAN]
           /\ handled \in [KeyThreads -> BOOLEAN] /\ hasInput \in BOOLEAN
           /\ handled[t] \in BOOLEAN
BY Zenon DEF TypeOK

LEMMA PagesAre ==
    ASSUME TypeOK
    PROVE  /\ pages \in Seq(Page) /\ Len(pages) \in Nat /\ children \in Seq(1 .. Len(pages))
           /\ \A p \in 1 .. Len(pages) : pages[p] \in Page
<1>1. pages \in Seq(Page) /\ children \in Seq(1 .. Len(pages))
  BY DEF TypeOK, Page
<1> QED BY <1>1

LEMMA BroadcastHandler ==
    ASSUME HandlerInv, NEW t \in KeyThreads, Report(t) \/ Broadcast(t)
    PROVE  HandlerInv'
<1> USE DEF Goto, viewport
<1>1. TypeOK
  BY DEF HandlerInv
<1>2. events \in 0 .. MaxEvents /\ (events < MaxEvents => events + 1 \in 0 .. MaxEvents)
  BY NavigationAssumption DEF HandlerInv, TypeOK
<1>3. /\ key \in [KeyThreads -> Keys] /\ todo \in [KeyThreads -> Seq(1 .. Len(pages))]
      /\ page \in [KeyThreads -> 0 .. Len(pages)] /\ seen \in [KeyThreads -> Int]
      /\ ending \in [KeyThreads -> {"none", "stopped", "broadcast"}]
  BY <1>1 DEF TypeOK
<1>4. /\ {"parse", "collect", "visit", "handle", "idle"} \subseteq Label \ {"remove", "assign", "add"}
      /\ TRUE \in BOOLEAN /\ FALSE \in BOOLEAN
  BY DEF Label
<1>5. CASE Report(t)
  <2>1. ~InSetRoot(t) /\ pc' = [pc EXCEPT ![t] = "parse"]
    BY <1>5 DEF Report, InSetRoot
  <2>2. /\ handled' \in [KeyThreads -> BOOLEAN] /\ key' \in [KeyThreads -> Keys]
        /\ ending' \in [KeyThreads -> {"none", "stopped", "broadcast"}]
    BY <1>1, <1>4, <1>5, Written, WrittenHistory DEF Report
  <2>3. /\ UNCHANGED <<children, root, handler, new, plugs, terminated, pages, hasInput,
                       todo, page, seen>>
        /\ events' \in 0 .. MaxEvents
    BY <1>2, <1>5 DEF Report
  <2> QED BY <2>1, <2>2, <2>3, <1>1, <1>3, <1>4, OtherStep, Written, WrittenHistory, PagesAre
<1>6. CASE ParseInputEvent(t)
  <2>1. ~InSetRoot(t) /\ pc' = [pc EXCEPT ![t] = "collect"]
    BY <1>6 DEF ParseInputEvent, InSetRoot
  <2> QED BY <2>1, <1>1, <1>2, <1>3, <1>4, <1>6, OtherStep, Written, WrittenHistory, PagesAre
          DEF ParseInputEvent
<1>7. CASE Collect(t)
  <2>1. ~InSetRoot(t) /\ pc' = [pc EXCEPT ![t] = "visit"]
    BY <1>7 DEF Collect, InSetRoot
  <2>2. Reversed(children) \in Seq(1 .. Len(pages))
    <3>1. children \in Seq(1 .. Len(pages)) /\ DOMAIN children = 1 .. Len(children) /\ Len(children) \in Nat
      BY <1>1, PagesAre
    <3>2. \A i \in DOMAIN children : children[Len(children) + 1 - i] \in 1 .. Len(pages)
      BY <3>1
    <3>3. Reversed(children) \in [1 .. Len(children) -> 1 .. Len(pages)]
      BY <3>1, <3>2 DEF Reversed
    <3> QED BY <3>1, <3>3, SeqDef
  <2> QED BY <2>1, <2>2, <1>1, <1>2, <1>3, <1>4, <1>7, OtherStep, Written, WrittenHistory, PagesAre
          DEF Collect
<1>8. CASE Visit(t)
  <2>1. ~InSetRoot(t) /\ \E l \in {"handle", "idle"} :
          pc' = [pc EXCEPT ![t] = l] /\ (l = "handle" => hasInput /\ todo[t] # << >>)
    BY <1>8 DEF Visit, InSetRoot
  <2>2. /\ todo' \in [KeyThreads -> Seq(1 .. Len(pages))]
        /\ page' \in [KeyThreads -> 0 .. Len(pages)]
        /\ ending' \in [KeyThreads -> {"none", "stopped", "broadcast"}]
        /\ \A u \in KeyThreads \ {t} : page'[u] = page[u]
        /\ hasInput /\ todo[t] # << >> => page'[t] # NoPage
    <3>1. CASE hasInput /\ todo[t] # << >>
      <4>1. todo[t] \in Seq(1 .. Len(pages))
        BY <1>3
      <4>2. Head(todo[t]) \in 0 .. Len(pages) /\ Head(todo[t]) # NoPage /\ Tail(todo[t]) \in Seq(1 .. Len(pages))
        <5>1. Head(todo[t]) \in 1 .. Len(pages) /\ Tail(todo[t]) \in Seq(1 .. Len(pages))
          BY <3>1, <4>1, HeadTailProperties
        <5> QED BY <5>1, <1>1, PagesAre DEF NoPage
      <4>3. /\ todo' = [todo EXCEPT ![t] = Tail(todo[t])] /\ page' = [page EXCEPT ![t] = Head(todo[t])]
            /\ ending' = ending
        BY <3>1, <1>8 DEF Visit
      <4> QED BY <4>2, <4>3, <1>1, <1>3, Written
    <3>2. CASE ~(hasInput /\ todo[t] # << >>)
      <4>1. /\ todo' = todo /\ page' = page
            /\ \E e \in {"stopped", "broadcast"} : ending' = [ending EXCEPT ![t] = e]
        BY <3>2, <1>8 DEF Visit
      <4> QED BY <3>2, <4>1, <1>1, <1>3, Written
    <3> QED BY <3>1, <3>2
  <2> QED BY ZenonT(90), <2>1, <2>2, <1>1, <1>2, <1>3, <1>4, <1>8, OtherStep, Written, WrittenHistory, PagesAre
          DEF Visit
<1>9. CASE SetInputAsHandled(t)
  <2>1. ~InSetRoot(t) /\ pc' = [pc EXCEPT ![t] = "visit"]
    BY <1>9 DEF SetInputAsHandled, InSetRoot
  <2>2. handled' \in [KeyThreads -> BOOLEAN]
    BY <1>1, <1>4, <1>9, WrittenHistory DEF SetInputAsHandled
  <2> QED BY <2>1, <2>2, <1>1, <1>2, <1>3, <1>4, <1>9, OtherStep, Written, WrittenHistory, PagesAre
          DEF SetInputAsHandled
<1> QED BY <1>5, <1>6, <1>7, <1>8, <1>9 DEF Broadcast

\* A page that is called does its work without a new root.
LEMMA InputEventHandler ==
    ASSUME HandlerInv, NEW t \in KeyThreads,
           \/ TestBound(t) \/ LoadIndex(t) \/ StoreIndex(t) \/ ShowTab(t)
           \/ ConfirmScan(t) \/ Ignore(t)
           \/ SelectTab(t) /\ pages[page[t]].index # 0
    PROVE  HandlerInv'
<1> USE DEF Goto, viewport
<1>1. TypeOK
  BY DEF HandlerInv
<1>2. /\ key \in [KeyThreads -> Keys] /\ todo \in [KeyThreads -> Seq(1 .. Len(pages))]
      /\ page \in [KeyThreads -> 0 .. Len(pages)] /\ seen \in [KeyThreads -> Int]
      /\ ending \in [KeyThreads -> {"none", "stopped", "broadcast"}]
      /\ events \in 0 .. MaxEvents
  BY <1>1 DEF TypeOK
<1>3. page[t] \in 1 .. Len(pages) /\ page[t] \in Int /\ seen[t] \in Int /\ pages[page[t]].index \in Int
  <2>1. pc[t] \in {"handle", "load", "store", "label"}
    BY DEF TestBound, LoadIndex, StoreIndex, ShowTab, ConfirmScan, Ignore, SelectTab
  <2>2. page[t] \in 1 .. Len(pages)
    BY <2>1, <1>1, <1>2, PagesAre DEF HandlerInv, CallsPages, NoPage
  <2>3. pages[page[t]] \in Page
    BY <2>2, <1>1, PagesAre
  <2> QED BY <2>2, <2>3, <1>1, <1>2, PagesAre DEF Page
<1>4. {"load", "store", "label", "handled", "visit"} \subseteq Label \ {"remove", "assign", "add"}
  BY DEF Label
<1>5. /\ UNCHANGED <<children, root, handler, new, plugs, terminated, hasInput, key, todo, page,
                     ending, handled, events>>
      /\ ~InSetRoot(t)
      /\ \E l \in {"load", "store", "label", "handled", "visit"} : pc' = [pc EXCEPT ![t] = l]
  BY DEF TestBound, LoadIndex, StoreIndex, ShowTab, ConfirmScan, Ignore, SelectTab, InSetRoot
<1>6. /\ pages' \in Seq(Page) /\ Len(pages') = Len(pages)
      /\ \A p \in 1 .. Len(pages) : pages'[p].kind = pages[p].kind
  <2>1. CASE StoreIndex(t)
    <3>1. \E v \in Int : pages' = [pages EXCEPT ![page[t]].index = v]
      <4>1. seen[t] + 1 \in Int /\ seen[t] - 1 \in Int
        BY <1>3
      <4> QED BY <2>1, <4>1 DEF StoreIndex
    <3> QED BY <3>1, <1>1, <1>3, PagesAre, TabChanges
  <2>2. CASE ShowTab(t)
    <3>1. pages' = [pages EXCEPT ![page[t]].label = pages[page[t]].index]
      BY <2>2 DEF ShowTab
    <3> QED BY <3>1, <1>1, <1>3, PagesAre, TabChanges
  <2>3. CASE pages' = pages
    BY <2>3, <1>1, PagesAre
  <2> QED BY <2>1, <2>2, <2>3 DEF TestBound, LoadIndex, ConfirmScan, Ignore, SelectTab
<1>7. seen' \in [KeyThreads -> Int]
  <2>1. seen' = seen \/ seen' = [seen EXCEPT ![t] = pages[page[t]].index]
    BY DEF TestBound, LoadIndex, StoreIndex, ShowTab, ConfirmScan, Ignore, SelectTab
  <2> QED BY <2>1, <1>2, <1>3
<1>8. page[t] # NoPage
  BY <1>3 DEF NoPage
<1> QED BY <1>1, <1>2, <1>4, <1>5, <1>6, <1>7, <1>8, OtherStep, Written, WrittenHistory

\* What erasing one element leaves.
LEMMA EraseFacts ==
    ASSUME NEW S, NEW s \in Seq(S), NEW i \in 1 .. Len(s)
    PROVE  /\ Erase(s, i) \in Seq(S)
           /\ \A j \in 1 .. Len(s) : j # i => \E k \in DOMAIN Erase(s, i) : Erase(s, i)[k] = s[j]
           /\ \A k \in DOMAIN Erase(s, i) : \E j \in 1 .. Len(s) : Erase(s, i)[k] = s[j]
<1> DEFINE a == SubSeq(s, 1, i - 1)
           b == SubSeq(s, i + 1, Len(s))
<1>1. Len(s) \in Nat /\ i \in Nat /\ 1 <= i /\ i <= Len(s) /\ \A j \in 1 .. Len(s) : s[j] \in S
  OBVIOUS
<1>2. /\ a \in Seq(S) /\ Len(a) = i - 1 /\ \A j \in 1 .. i - 1 : a[j] = s[j]
  BY <1>1, SubSeqProperties
<1>3. /\ b \in Seq(S) /\ Len(b) = Len(s) - i /\ \A j \in 1 .. Len(s) - i : b[j] = s[i + j]
  BY <1>1, SubSeqProperties
<1> HIDE DEF a, b
<1> DEFINE c == a \o b
<1>4. /\ c \in Seq(S) /\ Len(c) = Len(s) - 1 /\ DOMAIN c = 1 .. Len(s) - 1
      /\ \A j \in 1 .. Len(s) - 1 : c[j] = IF j <= i - 1 THEN a[j] ELSE b[j - (i - 1)]
  BY <1>1, <1>2, <1>3, ConcatProperties
<1>5. c = Erase(s, i)
  BY DEF Erase, a, b
<1> HIDE DEF c
<1>6. \A j \in 1 .. Len(s) - 1 : c[j] = IF j < i THEN s[j] ELSE s[j + 1]
  <2> TAKE j \in 1 .. Len(s) - 1
  <2>1. CASE j < i
    BY <2>1, <1>1, <1>2, <1>4
  <2>2. CASE ~(j < i)
    <3>1. j - (i - 1) \in 1 .. Len(s) - i /\ i + (j - (i - 1)) = j + 1 /\ ~(j <= i - 1)
      BY <2>2, <1>1
    <3>2. b[j - (i - 1)] = s[j + 1]
      BY <3>1, <1>3
    <3> QED BY <3>1, <3>2, <2>2, <1>4
  <2> QED BY <2>1, <2>2
<1>7. ASSUME NEW j \in 1 .. Len(s), j # i
      PROVE  \E k \in 1 .. Len(s) - 1 : c[k] = s[j]
  <2>1. CASE j < i
    <3>1. j \in 1 .. Len(s) - 1 /\ c[j] = s[j]
      BY <2>1, <1>1, <1>6
    <3> QED BY <3>1
  <2>2. CASE j > i
    <3>1. j - 1 \in 1 .. Len(s) - 1 /\ ~(j - 1 < i) /\ (j - 1) + 1 = j
      BY <2>2, <1>1
    <3>2. c[j - 1] = s[j]
      BY <3>1, <1>6
    <3> QED BY <3>1, <3>2
  <2> QED BY <2>1, <2>2, <1>1, <1>7
<1>8. ASSUME NEW k \in 1 .. Len(s) - 1
      PROVE  \E j \in 1 .. Len(s) : c[k] = s[j]
  <2>1. k \in 1 .. Len(s) /\ k + 1 \in 1 .. Len(s)
    BY <1>1
  <2> QED BY <2>1, <1>6
<1> QED BY <1>4, <1>5, <1>7, <1>8


\* A dashboard that cannot register ends the program and changes nothing else.
LEMMA ConstructHandler ==
    ASSUME HandlerInv, NEW a \in Actors, ~InSetRoot(a), NEW kind \in {"dashboard", "confirm"},
           Construct(a, kind), plugs' \in 0 .. MaxPlugs,
           UNCHANGED <<children, root, hasInput, key, todo, page, seen, ending, handled, events>>
    PROVE  HandlerInv'
<1>1. TypeOK /\ pc \in [Actors -> Label] /\ new \in [Actors -> 0 .. Len(pages)]
  BY DEF HandlerInv, TypeOK, Label
<1>2. CASE kind = "dashboard" /\ handler # NoPage
  <2>1. UNCHANGED <<pages, handler, new, pc>> /\ terminated' = TRUE
    BY <1>2 DEF Construct
  <2>2. TypeOK'
    BY <2>1 DEF HandlerInv, TypeOK
  <2> QED BY <2>1, <2>2 DEF HandlerInv, Installs, CallsPages, InSetRoot, HandlerIsAlive, Alive, IsKind
<1>3. CASE ~(kind = "dashboard" /\ handler # NoPage)
  <2> DEFINE n == Len(pages) + 1
  <2>1. /\ pages' = Append(pages, NewPage(kind)) /\ new' = [new EXCEPT ![a] = n]
        /\ handler' = IF kind = "dashboard" THEN n ELSE handler
        /\ pc' = [pc EXCEPT ![a] = "remove"] /\ terminated' = terminated
    BY <1>3 DEF Construct, Goto
  <2>2. /\ pages' \in Seq(Page) /\ Len(pages') = n
        /\ \A p \in 1 .. Len(pages) : pages'[p] = pages[p]
        /\ pages'[n].kind = kind
    <3>1. NewPage(kind) \in Page /\ NewPage(kind).kind = kind
      BY DEF NewPage, Page
    <3> QED BY <2>1, <3>1, <1>1, PagesAre, AppendProperties
  <2>3. /\ Len(pages) \in Nat /\ n \in 1 .. n /\ n # NoPage
        /\ 1 .. Len(pages) \subseteq 1 .. n /\ 0 .. Len(pages) \subseteq 0 .. n
    BY <1>1, PagesAre DEF NoPage
  <2>4. TypeOK'
    <3>1. children' \in Seq(1 .. n) /\ \A t \in KeyThreads : todo[t] \in Seq(1 .. n)
      <4>1. children \in Seq(1 .. Len(pages)) /\ \A t \in KeyThreads : todo[t] \in Seq(1 .. Len(pages))
        BY <1>1 DEF TypeOK
      <4> QED BY <4>1, <2>3, SeqMonotonic
    <3>2. todo' \in [KeyThreads -> Seq(1 .. n)]
      BY <3>1, <1>1 DEF TypeOK
    <3>3. page' \in [KeyThreads -> 0 .. n] /\ new' \in [Actors -> 0 .. n] /\ root' \in 0 .. n
      BY <2>1, <2>3, <1>1 DEF TypeOK
    <3>4. handler' \in 0 .. n
      BY <2>1, <2>3, <1>1 DEF TypeOK
    <3>5. pc' \in [Actors -> Label]
      BY <2>1, <1>1 DEF Label
    <3> QED BY <2>1, <2>2, <3>1, <3>2, <3>3, <3>4, <3>5, <1>1 DEF TypeOK, Page, Label
  <2>5. \A b \in Actors : /\ b # a => pc'[b] = pc[b] /\ new'[b] = new[b]
                          /\ b = a => pc'[b] = "remove" /\ new'[b] = n
    BY <2>1, <1>1
  <2>6. Installs'
    BY <2>3, <2>5 DEF HandlerInv, Installs, InSetRoot
  <2>7. CallsPages'
    <3>1. KeyThreads \subseteq Actors
      BY DEF Actors
    <3> QED BY <3>1, <2>5 DEF HandlerInv, CallsPages
  <2>8. HandlerIsAlive'
    <3>1. CASE kind = "dashboard"
      <4>1. handler' = n /\ n \in Alive'
        BY <3>1, <2>1, <2>5 DEF Alive, InSetRoot
      <4> QED BY <3>1, <4>1, <2>2 DEF HandlerIsAlive, IsKind
    <3>2. CASE kind # "dashboard"
      <4>1. handler' = handler
        BY <3>2, <2>1
      <4>2. SUFFICES ASSUME handler # NoPage
                     PROVE  handler \in Alive' /\ pages'[handler].kind = "dashboard"
        BY <4>1 DEF HandlerIsAlive, IsKind
      <4>3. handler \in Alive /\ pages[handler].kind = "dashboard" /\ handler \in 1 .. Len(pages)
        BY <4>2, <2>3, <1>1 DEF HandlerInv, HandlerIsAlive, IsKind, TypeOK, NoPage
      <4>4. handler \in Alive'
        <5>1. \A b \in Actors : InSetRoot(b) => InSetRoot(b)' /\ new'[b] = new[b]
          BY <2>5 DEF InSetRoot
        <5> QED BY <4>3, <5>1 DEF Alive
      <4> QED BY <4>3, <4>4, <2>2
    <3> QED BY <3>1, <3>2
  <2> QED BY <2>4, <2>6, <2>7, <2>8 DEF HandlerInv
<1> QED BY <1>2, <1>3

\* A handler that is left without its page is deregistered.
LEMMA SetRootHandler ==
    ASSUME HandlerInv, NEW a \in Actors, SetRoot(a)
    PROVE  HandlerInv'
<1>1. /\ TypeOK /\ pc \in [Actors -> Label] /\ new \in [Actors -> 0 .. Len(pages)]
      /\ Len(pages) \in Nat /\ children \in Seq(1 .. Len(pages)) /\ handler \in 0 .. Len(pages)
      /\ Len(children) \in Nat /\ DOMAIN children = 1 .. Len(children)
  BY DEF HandlerInv, TypeOK, Label
<1>2. /\ UNCHANGED <<pages, hasInput, key, todo, page, seen, new, ending, handled, events, plugs,
                     terminated>>
      /\ InSetRoot(a)
  BY DEF SetRoot, RemoveOldRoot, AssignRoot, AddNewRoot, InSetRoot
<1>3. PICK l \in {"assign", "add", "idle", "handled"} :
        pc' = [pc EXCEPT ![a] = l] /\ (l = "add" => AssignRoot(a))
  BY DEF SetRoot, RemoveOldRoot, AssignRoot, AddNewRoot, Goto
<1>4. \A b \in Actors : /\ b # a => pc'[b] = pc[b]
                        /\ b = a => pc'[b] = l
  BY <1>1, <1>3
<1>5. new[a] \in 1 .. Len(pages)
  BY <1>1, <1>2 DEF HandlerInv, Installs, NoPage
<1>6. children' \in Seq(1 .. Len(pages)) /\ root' \in 0 .. Len(pages) /\ handler' \in 0 .. Len(pages)
  <2>1. CASE RemoveOldRoot(a)
    <3>1. children' = children \/ \E i \in 1 .. Len(children) : children' = Erase(children, i)
      BY <2>1, <1>1 DEF RemoveOldRoot
    <3>2. children' \in Seq(1 .. Len(pages))
      BY <3>1, <1>1, EraseFacts
    <3> QED BY <2>1, <3>2, <1>1 DEF RemoveOldRoot, TypeOK
  <2>2. CASE AssignRoot(a)
    BY <2>2, <1>1, <1>5 DEF AssignRoot, NoPage
  <2>3. CASE AddNewRoot(a)
    <3>1. root \in 1 .. Len(pages)
      BY <2>3, <1>1 DEF AddNewRoot, HandlerInv, Installs, TypeOK, NoPage
    <3>2. children' = children \/ children' = Append(children, root)
      BY <2>3 DEF AddNewRoot
    <3>3. children' \in Seq(1 .. Len(pages))
      BY SMTT(30), <3>1, <3>2, <1>1, AppendProperties
    <3>4. root' = root /\ handler' \in {handler, NoPage}
      BY <2>3 DEF AddNewRoot
    <3> QED BY <3>1, <3>3, <3>4, <1>1 DEF NoPage
  <2> QED BY <2>1, <2>2, <2>3 DEF SetRoot
<1>7. TypeOK'
  BY <1>1, <1>2, <1>3, <1>6 DEF TypeOK, Label
<1>8. Installs'
  <2>1. \A b \in Actors : InSetRoot(b)' => InSetRoot(b)
    BY <1>2, <1>4 DEF InSetRoot
  <2>2. root # NoPage => root' # NoPage
    BY <1>5 DEF SetRoot, RemoveOldRoot, AssignRoot, AddNewRoot, NoPage
  <2>3. l = "add" => root' # NoPage
    BY <1>3, <1>5 DEF AssignRoot, NoPage
  <2> QED BY <2>1, <2>2, <2>3, <1>2, <1>4 DEF HandlerInv, Installs
<1>9. CallsPages'
  <2>1. KeyThreads \subseteq Actors
    BY DEF Actors
  <2> QED BY <2>1, <1>2, <1>4 DEF HandlerInv, CallsPages
<1>10. HandlerIsAlive'
  <2>1. CASE AssignRoot(a) \/ AddNewRoot(a)
    BY <2>1, <1>2 DEF AssignRoot, AddNewRoot, HandlerInv, HandlerIsAlive, IsKind
  <2>2. CASE RemoveOldRoot(a)
    <3>1. handler' = handler /\ root' = root /\ l = "assign"
      BY <2>2, <1>1, <1>3 DEF RemoveOldRoot, Goto
    <3>2. \A b \in Actors : InSetRoot(b) => InSetRoot(b)'
      BY <3>1, <1>4 DEF InSetRoot
    <3>3. \A j \in 1 .. Len(children) :
            children[j] # root => \E k \in DOMAIN children' : children'[k] = children[j]
      <4>1. CASE children' = children
        BY <4>1, <1>1
      <4>2. CASE children' # children
        <5>1. PICK i \in 1 .. Len(children) : children[i] = root /\ children' = Erase(children, i)
          BY <2>2, <4>2, <1>1 DEF RemoveOldRoot
        <5> QED BY <5>1, <1>1, EraseFacts
      <4> QED BY <4>1, <4>2
    <3>4. handler # NoPage => handler \in Alive'
      <4> SUFFICES ASSUME handler # NoPage PROVE handler \in Alive'
        OBVIOUS
      <4>1. handler \in Alive
        BY DEF HandlerInv, HandlerIsAlive
      <4>2. CASE handler = root
        BY <4>2, <3>1 DEF Alive
      <4>3. CASE handler # root /\ \E j \in 1 .. Len(children) : children[j] = handler
        BY <4>3, <3>3 DEF Alive
      <4>4. CASE \E b \in Actors : InSetRoot(b) /\ new[b] = handler
        BY <4>4, <3>2, <1>2 DEF Alive
      <4> QED BY <4>1, <4>2, <4>3, <4>4, <1>1 DEF Alive
    <3> QED BY <3>1, <3>4, <1>2 DEF HandlerInv, HandlerIsAlive, IsKind
  <2> QED BY <2>1, <2>2 DEF SetRoot
<1> QED BY <1>7, <1>8, <1>9, <1>10 DEF HandlerInv

LEMMA HandlerStep ==
    ASSUME HandlerInv, [Next]_vars
    PROVE  HandlerInv'
<1>1. KeyThreads \subseteq Actors /\ Main \in Actors
  BY DEF Actors
<1>2. CASE \E t \in KeyThreads : Report(t) \/ Runs(t)
  <2>1. PICK t \in KeyThreads : Report(t) \/ Runs(t)
    BY <1>2
  <2>2. t \in Actors /\ plugs \in 0 .. MaxPlugs
    BY <1>1 DEF HandlerInv, TypeOK
  <2>3. CASE Report(t) \/ Broadcast(t)
    BY <2>3, BroadcastHandler
  <2>4. CASE SetRoot(t)
    BY <2>2, <2>4, SetRootHandler
  <2>5. CASE SelectTab(t) /\ pages[page[t]].index = 0
    BY <2>2, <2>5, ConstructHandler DEF SelectTab, InSetRoot
  <2>6. CASE CancelScan(t)
    BY <2>2, <2>6, ConstructHandler DEF CancelScan, InSetRoot
  <2> QED BY <2>1, <2>3, <2>4, <2>5, <2>6, InputEventHandler DEF Runs, InputEvent
<1>3. CASE Plug
  <2>1. plugs' \in 0 .. MaxPlugs
    BY <1>3, NavigationAssumption DEF Plug, HandlerInv, TypeOK
  <2> QED BY <2>1, <1>1, <1>3, ConstructHandler DEF Plug, InSetRoot
<1>4. CASE SetRoot(Main)
  BY <1>1, <1>4, SetRootHandler
<1>5. CASE UNCHANGED vars
  <2>1. TypeOK'
    BY <1>5 DEF vars, viewport, threads, HandlerInv, TypeOK
  <2> QED BY <2>1, <1>5 DEF vars, viewport, threads, HandlerInv, Installs, CallsPages, InSetRoot,
             HandlerIsAlive, Alive, IsKind
<1> QED BY <1>2, <1>3, <1>4, <1>5 DEF Next

\* Whatever threads overlap, who is in set_root has a page to install and who is
\* in a handler a page to call (viewport.cpp:73-79).
THEOREM HandlerInvariant ==
    Spec => []HandlerInv
BY HandlerInitially, HandlerStep, PTL DEF Spec

\* Whatever threads overlap and however often the display comes back, the registered
\* handler is that of a dashboard that is alive (web_socket_client.cpp 98-113).
THEOREM HandlerIsAliveInvariant ==
    Spec => []HandlerIsAlive
<1>1. HandlerInv => HandlerIsAlive
  BY DEF HandlerInv
<1> QED BY <1>1, HandlerInvariant, PTL


-----------------------------------------------------------------------------
(* Serial key threads: the inductive invariant *)

\* One key thread at a time and one first page: what PagesSerial.cfg checks.
Serial == ~Overlap /\ MaxPlugs <= 1

OneKeyThread == \A t, u \in KeyThreads : pc[t] # "idle" /\ pc[u] # "idle" => t = u

\* The handler that belongs to page p.
HandlerOf(p) == IF p # NoPage /\ IsKind(p, "dashboard") THEN p ELSE NoPage

\* The main thread shows the first page, or has nothing to do.
MainInv ==
    /\ plugs = 0 => /\ pc[Main] = "idle" /\ pages = << >> /\ children = << >>
                    /\ root = NoPage /\ handler = NoPage
    /\ plugs \in {0, 1}
    /\ pc[Main] = "idle" \/ InSetRoot(Main)
    /\ Quiet /\ plugs = 1 =>
         root # NoPage /\ children = <<root>> /\ handler = HandlerOf(root)

\* A page being installed is new, of the other kind than the root, and registered
\* already if it is a dashboard.
InstallInv(a) ==
    /\ plugs = 1 /\ new[a] # NoPage
    /\ pages[new[a]].index = 0 /\ pages[new[a]].label = 0
    /\ pc[a] = "remove" => children = IF root = NoPage THEN << >> ELSE <<root>>
    /\ pc[a] \in {"assign", "add"} => children = << >>
    /\ pc[a] = "add" => root = new[a] /\ handler = HandlerOf(root)
    /\ pc[a] \in {"remove", "assign"} =>
         /\ new[a] # root
         /\ handler = IF IsKind(new[a], "dashboard") THEN new[a] ELSE root
         /\ root = NoPage => IsKind(new[a], "dashboard")
         /\ root # NoPage => /\ a # Main /\ pages[new[a]].kind # pages[root].kind
                             /\ IsKind(root, "dashboard") => pages[root].index = 0

\* A key thread that calls a page calls the root, and has none left to call.
ThreadInv(t) ==
    /\ pc[t] = "visit" /\ todo[t] # << >> =>
         plugs = 1 /\ pc[Main] = "idle" /\ todo[t] = <<root>>
    /\ pc[t] \notin {"idle", "parse", "collect", "visit"} =>
         plugs = 1 /\ pc[Main] = "idle" /\ todo[t] = << >>
    /\ pc[t] \in {"handle", "load", "store", "label"} => page[t] = root
    /\ pc[t] \in {"load", "store"} =>
         /\ IsKind(root, "dashboard") /\ seen[t] = pages[root].index
         /\ \/ key[t] = "DOWN" /\ seen[t] < Tabs - 1
            \/ key[t] = "UP" /\ seen[t] > 0

TabInv ==
    root # NoPage =>
        /\ pages[root].index \in 0 .. Tabs - 1
        /\ (\A t \in KeyThreads : pc[t] # "label") => pages[root].label = pages[root].index

\* The event is there until the thread's page takes it.
EventInv(t) ==
    /\ pc[t] # "idle" => ending[t] = "none"
    /\ pc[t] \notin {"idle", "parse"} /\ ~handled[t] => hasInput
    /\ handled[t] /\ pc[t] # "idle" => pc[t] = "visit" /\ ~hasInput
    /\ ending[t] = "stopped" => handled[t]
    /\ handled[t] => ending[t] # "broadcast"

SerialInv ==
    /\ ~terminated /\ OneKeyThread /\ MainInv /\ TabInv
    /\ \A a \in Actors : InSetRoot(a) => InstallInv(a)
    /\ \A t \in KeyThreads : ThreadInv(t) /\ EventInv(t)

-----------------------------------------------------------------------------
(* Serial key threads: the steps of the broadcast *)

LEMMA SerialInitially ==
    Init => SerialInv
<1> SUFFICES ASSUME Init PROVE SerialInv
  OBVIOUS
<1>1. \A a \in Actors : pc[a] = "idle"
  BY DEF Init
<1>2. \A t \in KeyThreads : t \in Actors /\ ending[t] = "none" /\ handled[t] = FALSE
  BY DEF Init, Actors
<1> QED BY <1>1, <1>2 DEF Init, SerialInv, OneKeyThread, MainInv, TabInv, InSetRoot, ThreadInv,
           EventInv, NoPage, Actors, Quiet

\* Nobody else installs a page, and nobody at all while a page is called.
LEMMA Alone ==
    ASSUME SerialInv
    PROVE  /\ \A a, b \in Actors : InSetRoot(a) /\ InSetRoot(b) => a = b
           /\ \A t \in KeyThreads : pc[t] \in {"handle", "load", "store", "label", "handled"} =>
                /\ Quiet /\ plugs = 1 /\ pc[Main] = "idle"
                /\ root # NoPage /\ children = <<root>> /\ handler = HandlerOf(root)
           /\ \A t \in KeyThreads : InSetRoot(t) => pc[Main] = "idle" /\ todo[t] = << >>
<1>1. \A t \in KeyThreads : InSetRoot(t) => pc[Main] = "idle" /\ todo[t] = << >>
  BY DEF SerialInv, ThreadInv, InSetRoot
<1>2. \A a, b \in Actors : InSetRoot(a) /\ InSetRoot(b) => a = b
  BY <1>1 DEF SerialInv, OneKeyThread, InSetRoot, Actors
<1>3. ASSUME NEW t \in KeyThreads, pc[t] \in {"handle", "load", "store", "label", "handled"}
      PROVE  /\ Quiet /\ plugs = 1 /\ pc[Main] = "idle"
             /\ root # NoPage /\ children = <<root>> /\ handler = HandlerOf(root)
  <2>1. plugs = 1 /\ pc[Main] = "idle"
    BY <1>3 DEF SerialInv, ThreadInv
  <2>2. Quiet
    BY <1>3, <2>1 DEF SerialInv, OneKeyThread, Quiet, InSetRoot, Actors
  <2> QED BY <2>1, <2>2 DEF SerialInv, MainInv
<1> QED BY <1>1, <1>2, <1>3

\* A step of a key thread that installs no page.
LEMMA SerialFrame ==
    ASSUME HandlerInv, SerialInv, NEW t \in KeyThreads, ~InSetRoot(t),
           pc[t] # "idle" \/ \A u \in KeyThreads : pc[u] = "idle",
           NEW label \in Label \ {"remove", "assign", "add"},
           pc' = [pc EXCEPT ![t] = label],
           UNCHANGED <<children, root, handler, new, plugs, terminated>>,
           \A u \in KeyThreads \ {t} : ending'[u] = ending[u] /\ handled'[u] = handled[u],
           \/ pages' = pages
           \/ Quiet /\ plugs = 1
              /\ \A p \in 1 .. Len(pages) : pages'[p].kind = pages[p].kind,
           ThreadInv(t)', EventInv(t)', TabInv'
    PROVE  SerialInv'
<1>1. /\ t \in Actors /\ t # Main /\ KeyThreads \subseteq Actors /\ Main \in Actors
      /\ pc \in [Actors -> Label] /\ root \in 0 .. Len(pages) /\ Len(pages) \in Nat
  BY NavigationAssumption DEF HandlerInv, TypeOK, Actors, Label
<1>2. \A a \in Actors : /\ a # t => pc'[a] = pc[a]
                        /\ a = t => pc'[a] = label
  BY <1>1
<1>3. \A a \in Actors : InSetRoot(a)' <=> InSetRoot(a)
  BY <1>2 DEF InSetRoot
<1>4. \A u \in KeyThreads \ {t} : pc[u] = "idle" /\ pc'[u] = "idle"
  BY <1>1, <1>2 DEF SerialInv, OneKeyThread
<1>5. OneKeyThread'
  BY <1>4 DEF OneKeyThread
<1>6. HandlerOf(root)' = HandlerOf(root) /\ (Quiet' <=> Quiet)
  <2>1. root # NoPage => pages'[root].kind = pages[root].kind
    BY <1>1 DEF NoPage
  <2> QED BY <2>1, <1>3 DEF HandlerOf, IsKind, Quiet
<1>7. MainInv'
  <2>1. plugs = 0 => pages' = pages
    OBVIOUS
  <2> QED BY <1>1, <1>2, <1>3, <1>6, <2>1 DEF SerialInv, MainInv
<1>8. \A a \in Actors : InSetRoot(a)' => InstallInv(a)'
  <2> SUFFICES ASSUME NEW a \in Actors, InSetRoot(a) PROVE InstallInv(a)'
    BY <1>3
  <2>1. pages' = pages /\ a # t /\ InstallInv(a)
    BY <1>3 DEF SerialInv, Quiet
  <2> QED BY <2>1, <1>2 DEF InstallInv, HandlerOf, IsKind
<1>9. \A u \in KeyThreads \ {t} : ThreadInv(u)' /\ EventInv(u)'
  BY <1>4 DEF SerialInv, ThreadInv, EventInv
<1> QED BY <1>5, <1>7, <1>8, <1>9 DEF SerialInv


LEMMA SerialBroadcast ==
    ASSUME Serial, HandlerInv, SerialInv, NEW t \in KeyThreads, Report(t) \/ Broadcast(t)
    PROVE  SerialInv'
<1> USE DEF Goto, viewport
<1>1. /\ TypeOK /\ ThreadInv(t) /\ EventInv(t) /\ TabInv
      /\ {"parse", "collect", "visit", "handle", "idle"} \subseteq Label \ {"remove", "assign", "add"}
  BY DEF HandlerInv, SerialInv, Label
<1>2. /\ t \in Actors /\ t # Main /\ KeyThreads \subseteq Actors
      /\ pc \in [Actors -> Label] /\ todo \in [KeyThreads -> Seq(1 .. Len(pages))]
      /\ page \in [KeyThreads -> 0 .. Len(pages)]
      /\ ending \in [KeyThreads -> {"none", "stopped", "broadcast"}]
      /\ DOMAIN handled = KeyThreads
  BY <1>1, NavigationAssumption DEF TypeOK, Actors, Label
<1>3. ASSUME NEW label \in {"parse", "collect", "visit", "handle", "idle"},
             pc' = [pc EXCEPT ![t] = label], pc[t] # "label",
             UNCHANGED <<pages, root>>
      PROVE  TabInv' /\ pc'[t] = label /\ pc'[Main] = pc[Main]
  <2>1. pc'[t] = label /\ pc'[Main] = pc[Main] /\ \A u \in KeyThreads \ {t} : pc'[u] = pc[u]
    BY <1>2, <1>3 DEF Actors
  <2> QED BY <2>1, <1>1, <1>3 DEF TabInv
<1>4. CASE Report(t)
  <2>1. /\ pc[t] = "idle" /\ pc' = [pc EXCEPT ![t] = "parse"]
        /\ ending' = [ending EXCEPT ![t] = "none"] /\ handled' = [handled EXCEPT ![t] = FALSE]
        /\ UNCHANGED <<children, root, handler, new, plugs, terminated, pages>>
        /\ \A u \in KeyThreads : pc[u] = "idle"
    BY <1>4 DEF Report, Serial
  <2>2. TabInv' /\ pc'[t] = "parse"
    BY <2>1, <1>3
  <2>3. ThreadInv(t)' /\ EventInv(t)'
    BY <2>1, <2>2, <1>2 DEF ThreadInv, EventInv
  <2> QED BY <2>1, <2>2, <2>3, <1>1, <1>2, SerialFrame DEF InSetRoot
<1>5. CASE ParseInputEvent(t)
  <2>1. /\ pc[t] = "parse" /\ pc' = [pc EXCEPT ![t] = "collect"] /\ hasInput' = TRUE
        /\ UNCHANGED <<children, root, handler, new, plugs, terminated, pages, ending, handled>>
    BY <1>5 DEF ParseInputEvent
  <2>2. TabInv' /\ pc'[t] = "collect"
    BY <2>1, <1>3
  <2>3. ThreadInv(t)' /\ EventInv(t)'
    BY <2>1, <2>2, <1>1 DEF ThreadInv, EventInv
  <2> QED BY <2>1, <2>2, <2>3, <1>1, SerialFrame DEF InSetRoot
<1>6. CASE Collect(t)
  <2>1. /\ pc[t] = "collect" /\ pc' = [pc EXCEPT ![t] = "visit"]
        /\ todo'[t] = Reversed(children)
        /\ UNCHANGED <<children, root, handler, new, plugs, terminated, pages, ending, handled,
                       hasInput>>
    BY <1>2, <1>6 DEF Collect
  <2>2. TabInv' /\ pc'[t] = "visit" /\ pc'[Main] = pc[Main]
    BY <2>1, <1>3
  <2>3. children = << >> \/ (plugs = 1 /\ pc[Main] = "idle" /\ children = <<root>>)
    <3>1. CASE plugs = 0
      BY <3>1 DEF SerialInv, MainInv
    <3>2. CASE plugs = 1 /\ InSetRoot(Main)
      BY <3>2 DEF SerialInv, InstallInv, InSetRoot, Actors
    <3>3. CASE plugs = 1 /\ pc[Main] = "idle"
      <4>1. Quiet
        BY <2>1, <3>3 DEF SerialInv, OneKeyThread, Quiet, InSetRoot, Actors
      <4> QED BY <4>1, <3>3 DEF SerialInv, MainInv
    <3> QED BY <3>1, <3>2, <3>3 DEF SerialInv, MainInv
  <2>4. Reversed(<< >>) = << >> /\ Reversed(<<root>>) = <<root>>
    BY DEF Reversed
  <2>5. ThreadInv(t)' /\ EventInv(t)'
    BY <2>1, <2>2, <2>3, <2>4, <1>1 DEF ThreadInv, EventInv
  <2> QED BY <2>1, <2>2, <2>5, <1>1, SerialFrame DEF InSetRoot
<1>7. CASE Visit(t)
  <2>1. /\ pc[t] = "visit"
        /\ UNCHANGED <<children, root, handler, new, plugs, terminated, pages, handled, hasInput>>
    BY <1>7 DEF Visit
  <2>2. CASE hasInput /\ todo[t] # << >>
    <3>1. /\ pc' = [pc EXCEPT ![t] = "handle"] /\ page'[t] = Head(todo[t])
          /\ todo'[t] = Tail(todo[t]) /\ ending' = ending
      BY <2>2, <1>2, <1>7 DEF Visit
    <3>2. plugs = 1 /\ pc[Main] = "idle" /\ todo[t] = <<root>>
      BY <2>1, <2>2, <1>1 DEF ThreadInv
    <3>3. page'[t] = root /\ todo'[t] = << >>
      BY <3>1, <3>2
    <3>4. TabInv' /\ pc'[t] = "handle" /\ pc'[Main] = pc[Main]
      BY <2>1, <3>1, <1>3
    <3>5. ThreadInv(t)' /\ EventInv(t)'
      BY <2>1, <2>2, <3>1, <3>2, <3>3, <3>4, <1>1 DEF ThreadInv, EventInv
    <3> QED BY <2>1, <3>1, <3>4, <3>5, <1>1, SerialFrame DEF InSetRoot
  <2>3. CASE ~(hasInput /\ todo[t] # << >>)
    <3>1. /\ pc' = [pc EXCEPT ![t] = "idle"] /\ \A u \in KeyThreads \ {t} : ending'[u] = ending[u]
          /\ ending'[t] = IF hasInput THEN "broadcast" ELSE "stopped"
      BY <2>3, <1>2, <1>7 DEF Visit
    <3>2. TabInv' /\ pc'[t] = "idle"
      BY <2>1, <3>1, <1>3
    <3>3. ThreadInv(t)' /\ EventInv(t)'
      BY <2>1, <3>1, <3>2, <1>1 DEF ThreadInv, EventInv
    <3> QED BY <2>1, <3>1, <3>2, <3>3, <1>1, SerialFrame DEF InSetRoot
  <2> QED BY <2>2, <2>3
<1>8. CASE SetInputAsHandled(t)
  <2>1. /\ pc[t] = "handled" /\ pc' = [pc EXCEPT ![t] = "visit"] /\ hasInput' = FALSE
        /\ handled'[t] = TRUE /\ \A u \in KeyThreads \ {t} : handled'[u] = handled[u]
        /\ UNCHANGED <<children, root, handler, new, plugs, terminated, pages, ending, todo>>
    BY <1>2, <1>8 DEF SetInputAsHandled
  <2>2. TabInv' /\ pc'[t] = "visit"
    BY <2>1, <1>3
  <2>3. ThreadInv(t)' /\ EventInv(t)'
    BY <2>1, <2>2, <1>1 DEF ThreadInv, EventInv
  <2> QED BY <2>1, <2>2, <2>3, <1>1, SerialFrame DEF InSetRoot
<1> QED BY <1>4, <1>5, <1>6, <1>7, <1>8 DEF Broadcast

\* A page that is called is the root, and moves its own tab only.
LEMMA SerialInputEvent ==
    ASSUME HandlerInv, SerialInv, NEW t \in KeyThreads,
           \/ TestBound(t) \/ LoadIndex(t) \/ StoreIndex(t) \/ ShowTab(t)
           \/ ConfirmScan(t) \/ Ignore(t)
           \/ SelectTab(t) /\ pages[page[t]].index # 0
    PROVE  SerialInv'
<1> USE DEF Goto, viewport
<1>1. /\ TypeOK /\ ThreadInv(t) /\ EventInv(t) /\ TabInv
      /\ {"load", "store", "label", "handled", "visit"} \subseteq Label \ {"remove", "assign", "add"}
  BY DEF HandlerInv, SerialInv, Label
<1>2. /\ t \in Actors /\ t # Main /\ KeyThreads \subseteq Actors
      /\ pc \in [Actors -> Label] /\ seen \in [KeyThreads -> Int]
  BY <1>1, NavigationAssumption DEF TypeOK, Actors, Label
<1>3. pc[t] \in {"handle", "load", "store", "label"}
  BY DEF TestBound, LoadIndex, StoreIndex, ShowTab, ConfirmScan, Ignore, SelectTab
<1>4. /\ Quiet /\ plugs = 1 /\ pc[Main] = "idle" /\ root # NoPage /\ page[t] = root
      /\ todo[t] = << >> /\ root \in 1 .. Len(pages) /\ root \in Int /\ pages[root] \in Page
  <2>1. /\ Quiet /\ plugs = 1 /\ pc[Main] = "idle" /\ root # NoPage /\ page[t] = root
        /\ todo[t] = << >>
    BY <1>1, <1>3, Alone DEF ThreadInv
  <2>2. root \in 0 .. Len(pages) /\ Len(pages) \in Nat
    BY <1>1, PagesAre DEF TypeOK
  <2>3. root \in 1 .. Len(pages) /\ root \in Int
    BY <2>1, <2>2 DEF NoPage
  <2> QED BY <2>1, <2>3, <1>1, PagesAre
<1>5. /\ UNCHANGED <<children, root, handler, new, plugs, terminated, todo, page, key, ending, handled,
                     hasInput>>
      /\ ~InSetRoot(t)
  BY DEF TestBound, LoadIndex, StoreIndex, ShowTab, ConfirmScan, Ignore, SelectTab, InSetRoot
<1>6. \A u \in KeyThreads \ {t} : pc[u] = "idle"
  BY <1>3 DEF SerialInv, OneKeyThread
<1>7. PICK label \in {"load", "store", "label", "handled", "visit"} : pc' = [pc EXCEPT ![t] = label]
  BY DEF TestBound, LoadIndex, StoreIndex, ShowTab, ConfirmScan, Ignore, SelectTab
<1>8. pc'[t] = label /\ pc'[Main] = "idle" /\ \A u \in KeyThreads \ {t} : pc'[u] = "idle"
  BY <1>2, <1>4, <1>6, <1>7 DEF Actors
<1>9. EventInv(t)'
  BY <1>1, <1>3, <1>5, <1>8 DEF EventInv
<1>10. CASE TestBound(t) \/ LoadIndex(t)
  <2>1. pages' = pages /\ pc[t] # "label"
    BY <1>10 DEF TestBound, LoadIndex
  <2>2. TabInv'
    BY <2>1, <1>1, <1>5, <1>6 DEF TabInv
  <2>3. ThreadInv(t)'
    <3>1. CASE TestBound(t)
      BY <2>1, <3>1, <1>2, <1>4, <1>5, <1>7, <1>8 DEF TestBound, ThreadInv, IsKind
    <3>2. CASE LoadIndex(t)
      BY <2>1, <3>2, <1>1, <1>2, <1>4, <1>5, <1>7, <1>8 DEF LoadIndex, ThreadInv, IsKind
    <3> QED BY <3>1, <3>2, <1>10
  <2> QED BY <2>1, <2>2, <2>3, <1>1, <1>3, <1>5, <1>7, <1>9, SerialFrame
<1>11. CASE StoreIndex(t)
  <2>1. /\ label = "label" /\ seen' = seen
        /\ pages' = [pages EXCEPT ![root].index = IF key[t] = "DOWN" THEN seen[t] + 1 ELSE seen[t] - 1]
    BY <1>2, <1>4, <1>7, <1>8, <1>11 DEF StoreIndex
  <2>2. seen[t] \in 0 .. Tabs - 1 /\ (\/ key[t] = "DOWN" /\ seen[t] < Tabs - 1
                                      \/ key[t] = "UP" /\ seen[t] > 0)
    BY <1>1, <1>4, <1>11 DEF StoreIndex, ThreadInv, TabInv
  <2>3. PICK v \in Int : v \in 0 .. Tabs - 1 /\ pages' = [pages EXCEPT ![root].index = v]
    <3>1. CASE key[t] = "DOWN"
      <4>1. seen[t] + 1 \in 0 .. Tabs - 1 /\ seen[t] + 1 \in Int
        BY <2>2, <3>1 DEF Tabs
      <4> QED BY <2>1, <3>1, <4>1
    <3>2. CASE key[t] # "DOWN"
      <4>1. seen[t] - 1 \in 0 .. Tabs - 1 /\ seen[t] - 1 \in Int
        BY <2>2, <3>2 DEF Tabs
      <4> QED BY <2>1, <3>2, <4>1
    <3> QED BY <3>1, <3>2
  <2>4. \A p \in 1 .. Len(pages) : pages'[p].kind = pages[p].kind
    BY <2>3, <1>1, <1>4, PagesAre, TabChanges
  <2>5. pages'[root].index = v
    <3>1. root \in DOMAIN pages
      BY <1>1, <1>4, PagesAre
    <3>2. pages'[root] = [pages[root] EXCEPT !.index = v]
      BY <2>3, <3>1
    <3> QED BY <3>2, <1>4 DEF Page
  <2>6. TabInv'
    BY <2>1, <2>3, <2>5, <1>5, <1>8 DEF TabInv
  <2>7. ThreadInv(t)'
    BY <2>1, <1>4, <1>5, <1>8 DEF ThreadInv
  <2> QED BY <2>4, <2>6, <2>7, <1>1, <1>3, <1>4, <1>5, <1>7, <1>9, SerialFrame
<1>12. CASE ShowTab(t)
  <2>1. label = "handled" /\ pages' = [pages EXCEPT ![root].label = pages[root].index]
    BY <1>2, <1>4, <1>7, <1>8, <1>12 DEF ShowTab
  <2>2. pages[root].index \in Int
    BY <1>4 DEF Page
  <2>3. \A p \in 1 .. Len(pages) : pages'[p].kind = pages[p].kind
    BY <2>1, <2>2, <1>1, <1>4, PagesAre, TabChanges
  <2>4. pages'[root].index = pages[root].index /\ pages'[root].label = pages[root].index
    <3>1. root \in DOMAIN pages
      BY <1>1, <1>4, PagesAre
    <3>2. pages'[root] = [pages[root] EXCEPT !.label = pages[root].index]
      BY <2>1, <3>1
    <3> QED BY <3>2, <1>4 DEF Page
  <2>5. TabInv'
    BY <2>4, <1>1, <1>4, <1>5 DEF TabInv
  <2>6. ThreadInv(t)'
    BY <2>1, <1>4, <1>5, <1>8 DEF ThreadInv
  <2> QED BY <2>3, <2>5, <2>6, <1>1, <1>3, <1>4, <1>5, <1>7, <1>9, SerialFrame
<1>13. CASE ConfirmScan(t) \/ Ignore(t) \/ (SelectTab(t) /\ pages[page[t]].index # 0)
  <2>1. pages' = pages /\ pc[t] = "handle" /\ label \in {"handled", "visit"}
    BY <1>2, <1>7, <1>8, <1>13 DEF ConfirmScan, Ignore, SelectTab
  <2>2. TabInv'
    BY <2>1, <1>1, <1>5, <1>6 DEF TabInv
  <2>3. ThreadInv(t)'
    BY <2>1, <1>4, <1>5, <1>8 DEF ThreadInv
  <2> QED BY <2>1, <2>2, <2>3, <1>1, <1>3, <1>5, <1>7, <1>9, SerialFrame
<1> QED BY <1>10, <1>11, <1>12, <1>13


-----------------------------------------------------------------------------
(* Serial key threads: the change of the page *)

\* The page that a construction adds.
LEMMA Constructed ==
    ASSUME HandlerInv, NEW a \in Actors, NEW kind \in {"dashboard", "confirm"}, Construct(a, kind),
           kind = "dashboard" => handler = NoPage
    PROVE  /\ new'[a] = Len(pages) + 1 /\ Len(pages) \in Nat /\ Len(pages) + 1 # NoPage
           /\ handler' = IF kind = "dashboard" THEN new'[a] ELSE handler
           /\ pages'[new'[a]] = NewPage(kind)
           /\ \A p \in 1 .. Len(pages) : pages'[p] = pages[p]
           /\ pc' = [pc EXCEPT ![a] = "remove"] /\ terminated' = terminated
           /\ pc'[a] = "remove" /\ \A b \in Actors \ {a} : pc'[b] = pc[b]
<1>1. pages \in Seq(Page) /\ Len(pages) \in Nat /\ NewPage(kind) \in Page
  BY PagesAre DEF HandlerInv, NewPage, Page
<1>2. /\ pages' = Append(pages, NewPage(kind)) /\ new' = [new EXCEPT ![a] = Len(pages) + 1]
      /\ handler' = IF kind = "dashboard" THEN Len(pages) + 1 ELSE handler
      /\ pc' = [pc EXCEPT ![a] = "remove"] /\ terminated' = terminated
  BY DEF Construct, Goto
<1>3. DOMAIN new = Actors /\ DOMAIN pc = Actors
  BY DEF HandlerInv, TypeOK
<1> QED BY <1>1, <1>2, <1>3, AppendProperties DEF NoPage

LEMMA SerialConstruct ==
    ASSUME HandlerInv, SerialInv, NEW t \in KeyThreads,
           CancelScan(t) \/ (SelectTab(t) /\ pages[page[t]].index = 0)
    PROVE  SerialInv'
<1>1. /\ TypeOK /\ ThreadInv(t) /\ EventInv(t) /\ TabInv /\ pc[t] = "handle"
  BY DEF HandlerInv, SerialInv, CancelScan, SelectTab
<1>2. t \in Actors /\ t # Main /\ KeyThreads \subseteq Actors /\ Main \in Actors
  BY NavigationAssumption DEF Actors
<1>3. /\ Quiet /\ plugs = 1 /\ pc[Main] = "idle" /\ root # NoPage /\ page[t] = root
      /\ todo[t] = << >> /\ children = <<root>> /\ handler = HandlerOf(root)
  BY <1>1, Alone DEF ThreadInv
<1>4. root \in 1 .. Len(pages) /\ Len(pages) \in Nat
  BY <1>1, <1>3, PagesAre DEF TypeOK, NoPage
<1>5. PICK kind \in {"dashboard", "confirm"} :
        /\ Construct(t, kind)
        /\ kind # pages[root].kind /\ pages[root].kind \in {"dashboard", "confirm"}
        /\ IsKind(root, "dashboard") => pages[root].index = 0
  BY <1>3 DEF CancelScan, SelectTab, IsKind
<1>6. /\ UNCHANGED <<children, root, hasInput, key, todo, page, seen, ending, handled, plugs>>
  BY DEF CancelScan, SelectTab
<1>7. /\ new'[t] = Len(pages) + 1 /\ new'[t] # NoPage
      /\ handler' = IF kind = "dashboard" THEN new'[t] ELSE handler
      /\ pages'[new'[t]] = NewPage(kind)
      /\ \A p \in 1 .. Len(pages) : pages'[p] = pages[p]
      /\ terminated' = terminated
      /\ pc'[t] = "remove" /\ \A b \in Actors \ {t} : pc'[b] = pc[b]
  <2>1. kind = "dashboard" => handler = NoPage
    BY <1>3, <1>5 DEF HandlerOf, IsKind
  <2> QED BY <2>1, <1>2, <1>5, Constructed
<1>8. pages'[root] = pages[root] /\ new'[t] # root
  BY <1>4, <1>7
<1>9. \A u \in KeyThreads \ {t} : pc[u] = "idle" /\ pc'[u] = "idle"
  BY <1>1, <1>2, <1>7 DEF SerialInv, OneKeyThread
<1>10. OneKeyThread' /\ TabInv'
  BY <1>1, <1>6, <1>8, <1>9 DEF OneKeyThread, TabInv
<1>11. MainInv'
  <2>1. ~Quiet'
    BY <1>2, <1>7 DEF Quiet, InSetRoot
  <2> QED BY <2>1, <1>2, <1>3, <1>6, <1>7 DEF MainInv
<1>12. \A a \in Actors : InSetRoot(a)' => InstallInv(a)'
  <2> SUFFICES ASSUME NEW a \in Actors, InSetRoot(a)' PROVE InstallInv(a)'
    OBVIOUS
  <2>1. a = t
    BY <1>3, <1>7 DEF Quiet, InSetRoot
  <2>2. pages'[new'[t]].kind = kind /\ pages'[new'[t]].index = 0 /\ pages'[new'[t]].label = 0
    BY <1>7 DEF NewPage
  <2>3. handler' = IF kind = "dashboard" THEN new'[t] ELSE root
    BY <1>3, <1>5, <1>7 DEF HandlerOf, IsKind
  <2> QED BY <2>1, <2>2, <2>3, <1>2, <1>3, <1>5, <1>6, <1>7, <1>8 DEF InstallInv, IsKind
<1>13. ThreadInv(t)' /\ EventInv(t)'
  BY <1>1, <1>2, <1>3, <1>6, <1>7 DEF ThreadInv, EventInv
<1>14. \A u \in KeyThreads \ {t} : ThreadInv(u)' /\ EventInv(u)'
  BY <1>6, <1>9 DEF SerialInv, ThreadInv, EventInv
<1> QED BY <1>7, <1>10, <1>11, <1>12, <1>13, <1>14 DEF SerialInv

LEMMA SerialPlug ==
    ASSUME Serial, HandlerInv, SerialInv, Plug
    PROVE  SerialInv'
<1>1. Main \in Actors /\ KeyThreads \subseteq Actors /\ Main \notin KeyThreads
  BY NavigationAssumption DEF Actors
<1>2. /\ plugs = 0 /\ plugs' = 1 /\ Construct(Main, "dashboard")
      /\ pages = << >> /\ children = << >> /\ root = NoPage /\ handler = NoPage
      /\ UNCHANGED <<children, root, hasInput, key, todo, page, seen, ending, handled>>
  <2>1. plugs < MaxPlugs /\ plugs' = plugs + 1
    BY DEF Plug
  <2>2. plugs = 0
    BY <2>1, NavigationAssumption DEF Serial, SerialInv, MainInv
  <2> QED BY <2>1, <2>2 DEF Plug, SerialInv, MainInv
<1>3. /\ new'[Main] # NoPage /\ handler' = new'[Main]
      /\ pages'[new'[Main]] = NewPage("dashboard") /\ terminated' = terminated
      /\ pc'[Main] = "remove" /\ \A b \in Actors \ {Main} : pc'[b] = pc[b]
  BY <1>1, <1>2, Constructed
<1>4. \A t \in KeyThreads : pc'[t] = pc[t]
  BY <1>1, <1>3
<1>5. OneKeyThread' /\ TabInv'
  BY <1>2, <1>4 DEF SerialInv, OneKeyThread, TabInv
<1>6. MainInv'
  <2>1. ~Quiet'
    BY <1>1, <1>3 DEF Quiet, InSetRoot
  <2> QED BY <2>1, <1>2, <1>3 DEF MainInv, InSetRoot
<1>7. \A t \in KeyThreads : ThreadInv(t)' /\ EventInv(t)'
  BY <1>2, <1>4 DEF SerialInv, ThreadInv, EventInv
<1>8. \A a \in Actors : InSetRoot(a)' => InstallInv(a)'
  <2> SUFFICES ASSUME NEW a \in Actors, InSetRoot(a)' PROVE InstallInv(a)'
    OBVIOUS
  <2>1. a = Main
    BY <1>2, <1>4 DEF SerialInv, ThreadInv, InSetRoot, Actors
  <2>2. /\ pages'[new'[Main]].kind = "dashboard" /\ pages'[new'[Main]].index = 0
        /\ pages'[new'[Main]].label = 0
    BY <1>3 DEF NewPage
  <2> QED BY <2>1, <2>2, <1>2, <1>3 DEF InstallInv, IsKind
<1> QED BY <1>3, <1>5, <1>6, <1>7, <1>8 DEF SerialInv

LEMMA SerialSetRoot ==
    ASSUME HandlerInv, SerialInv, NEW a \in Actors, SetRoot(a)
    PROVE  SerialInv'
<1>1. /\ TypeOK /\ pc \in [Actors -> Label] /\ Main \in Actors /\ KeyThreads \subseteq Actors
      /\ Main \notin KeyThreads
  BY NavigationAssumption DEF HandlerInv, TypeOK, Label, Actors
<1>2. /\ UNCHANGED <<pages, hasInput, key, todo, page, seen, new, ending, handled, events, plugs,
                     terminated>>
      /\ InSetRoot(a)
  BY DEF SetRoot, RemoveOldRoot, AssignRoot, AddNewRoot, InSetRoot
<1>3. InstallInv(a) /\ new[a] # NoPage
  BY <1>2 DEF SerialInv, InstallInv
<1>4. PICK l \in {"assign", "add", "idle", "handled"} :
        /\ pc' = [pc EXCEPT ![a] = l]
        /\ l = "assign" => RemoveOldRoot(a)
        /\ l = "add" => AssignRoot(a)
        /\ l \in {"idle", "handled"} => AddNewRoot(a) /\ (l = "idle" <=> a = Main)
  BY DEF SetRoot, RemoveOldRoot, AssignRoot, AddNewRoot, Goto
<1>5. pc'[a] = l /\ \A b \in Actors \ {a} : pc'[b] = pc[b]
  BY <1>1, <1>4
<1>6. \A b \in Actors \ {a} : ~InSetRoot(b) /\ ~InSetRoot(b)'
  BY <1>2, <1>5, Alone DEF InSetRoot
<1>7. a # Main => pc[Main] = "idle" /\ pc'[Main] = "idle" /\ todo[a] = << >>
  BY <1>1, <1>2, <1>5, Alone DEF Actors
<1>8. OneKeyThread'
  BY <1>1, <1>2, <1>5 DEF SerialInv, OneKeyThread, InSetRoot
<1>9. CASE RemoveOldRoot(a)
  <2>1. l = "assign" /\ pc[a] = "remove" /\ root' = root /\ handler' = handler
    BY <1>4, <1>1, <1>9 DEF RemoveOldRoot, Goto
  <2>2. children = IF root = NoPage THEN << >> ELSE <<root>>
    BY <2>1, <1>3 DEF InstallInv
  <2>3. children' = << >>
    <3>1. CASE children = << >>
      BY <3>1, <1>9 DEF RemoveOldRoot
    <3>2. CASE children = <<root>>
      <4>1. DOMAIN children = {1} /\ children[1] = root /\ Len(children) = 1
        BY <3>2
      <4>2. children' = Erase(children, 1)
        BY <4>1, <1>9 DEF RemoveOldRoot
      <4>3. Erase(<<root>>, 1) = << >>
        BY DEF Erase
      <4> QED BY <3>2, <4>2, <4>3
    <3> QED BY <2>2, <3>1, <3>2
  <2>4. InstallInv(a)'
    BY <2>1, <2>3, <1>2, <1>3, <1>5 DEF InstallInv, IsKind
  <2>5. MainInv'
    BY <2>1, <1>1, <1>2, <1>3, <1>5, <1>7 DEF InstallInv, SerialInv, MainInv, Quiet, InSetRoot
  <2>6. TabInv'
    BY <2>1, <1>1, <1>2, <1>5 DEF SerialInv, TabInv
  <2>7. \A t \in KeyThreads : ThreadInv(t)' /\ EventInv(t)'
    BY <2>1, <1>1, <1>2, <1>3, <1>5, <1>7 DEF SerialInv, ThreadInv, EventInv, InstallInv, IsKind, InSetRoot
  <2> QED BY <2>4, <2>5, <2>6, <2>7, <1>2, <1>6, <1>8 DEF SerialInv
<1>10. CASE AssignRoot(a)
  <2>1. /\ l = "add" /\ pc[a] = "assign" /\ root' = new[a] /\ children' = << >>
        /\ handler' = IF handler \in Alive' THEN handler ELSE NoPage
    BY <1>3, <1>4, <1>1, <1>10 DEF AssignRoot, Goto, InstallInv
  <2>2. Alive' = {new[a]}
    <3>1. {b \in Actors : InSetRoot(b)'} = {a}
      BY <2>1, <1>5, <1>6 DEF InSetRoot
    <3> QED BY <2>1, <3>1, <1>2, <1>3 DEF Alive
  <2>3. handler' = HandlerOf(root)'
    BY <2>1, <2>2, <1>2, <1>3 DEF InstallInv, HandlerOf, IsKind
  <2>4. InstallInv(a)'
    BY <2>1, <2>3, <1>2, <1>3, <1>5 DEF InstallInv
  <2>5. MainInv'
    BY <2>1, <1>1, <1>2, <1>3, <1>5, <1>7 DEF InstallInv, SerialInv, MainInv, Quiet, InSetRoot
  <2>6. TabInv'
    BY <2>1, <1>2, <1>3 DEF InstallInv, TabInv, Tabs
  <2>7. \A t \in KeyThreads : ThreadInv(t)' /\ EventInv(t)'
    <3> SUFFICES ASSUME NEW t \in KeyThreads PROVE ThreadInv(t)' /\ EventInv(t)'
      OBVIOUS
    <3>1. CASE t = a
      BY <2>1, <3>1, <1>1, <1>2, <1>3, <1>5, <1>7 DEF SerialInv, ThreadInv, EventInv, InstallInv, InSetRoot
    <3>2. CASE t # a
      <4>1. a = Main \/ pc[t] = "idle"
        BY <3>2, <1>1, <1>2 DEF SerialInv, OneKeyThread, InSetRoot, Actors
      <4>2. pc'[t] = pc[t]
        BY <3>2, <1>1, <1>5
      <4> QED BY <2>1, <4>1, <4>2, <1>2 DEF SerialInv, ThreadInv, EventInv
    <3> QED BY <3>1, <3>2
  <2> QED BY <2>4, <2>5, <2>6, <2>7, <1>2, <1>6, <1>8 DEF SerialInv
<1>11. CASE AddNewRoot(a)
  <2>1. /\ l = (IF a = Main THEN "idle" ELSE "handled") /\ pc[a] = "add" /\ root' = root
        /\ handler' = IF handler \in Alive' THEN handler ELSE NoPage
    BY <1>1, <1>4, <1>11 DEF AddNewRoot, Goto
  <2>2. root = new[a] /\ handler = HandlerOf(root) /\ children = << >>
    BY <2>1, <1>3 DEF InstallInv
  <2>3. children' = <<root>>
    BY <2>2, <1>11 DEF AddNewRoot
  <2>4. handler' = HandlerOf(root)'
    <3>1. root \in Alive'
      <4>1. children'[1] = root /\ 1 \in DOMAIN children'
        BY <2>3
      <4> QED BY <4>1 DEF Alive
    <3> QED BY <2>1, <2>2, <3>1, <1>2 DEF HandlerOf, IsKind
  <2>5. \A b \in Actors : ~InSetRoot(b)'
    BY <2>1, <1>5, <1>6 DEF InSetRoot
  <2>6. MainInv'
    BY <2>1, <2>2, <2>3, <2>4, <1>1, <1>2, <1>3, <1>5, <1>7 DEF InstallInv, MainInv
  <2>7. TabInv'
    BY <2>1, <2>2, <1>2, <1>3 DEF InstallInv, TabInv, Tabs
  <2>8. \A t \in KeyThreads : ThreadInv(t)' /\ EventInv(t)'
    <3> SUFFICES ASSUME NEW t \in KeyThreads PROVE ThreadInv(t)' /\ EventInv(t)'
      OBVIOUS
    <3>1. CASE t = a
      BY <2>1, <3>1, <1>1, <1>2, <1>3, <1>5, <1>7 DEF SerialInv, ThreadInv, EventInv, InstallInv, InSetRoot
    <3>2. CASE t # a
      <4>1. a = Main \/ pc[t] = "idle"
        BY <3>2, <1>1, <1>2 DEF SerialInv, OneKeyThread, InSetRoot, Actors
      <4>2. pc'[t] = pc[t]
        BY <3>2, <1>1, <1>5
      <4> QED BY <2>1, <4>1, <4>2, <1>2 DEF SerialInv, ThreadInv, EventInv, InSetRoot
    <3> QED BY <3>1, <3>2
  <2> QED BY <2>5, <2>6, <2>7, <2>8, <1>2, <1>8 DEF SerialInv
<1> QED BY <1>9, <1>10, <1>11 DEF SetRoot


LEMMA SerialStep ==
    ASSUME Serial, HandlerInv, SerialInv, [Next]_vars
    PROVE  SerialInv'
<1>1. KeyThreads \subseteq Actors /\ Main \in Actors
  BY DEF Actors
<1>2. CASE \E t \in KeyThreads : Report(t) \/ Runs(t)
  <2>1. PICK t \in KeyThreads : Report(t) \/ Runs(t)
    BY <1>2
  <2>2. CASE Report(t) \/ Broadcast(t)
    BY <2>2, SerialBroadcast
  <2>3. CASE SetRoot(t)
    BY <1>1, <2>3, SerialSetRoot
  <2> QED BY <2>1, <2>2, <2>3, SerialInputEvent, SerialConstruct DEF Runs, InputEvent
<1>3. CASE SetRoot(Main)
  BY <1>1, <1>3, SerialSetRoot
<1>4. CASE UNCHANGED vars
  BY <1>4 DEF vars, viewport, threads, SerialInv, OneKeyThread, MainInv, TabInv, InSetRoot,
     InstallInv, HandlerOf, IsKind, ThreadInv, EventInv, Quiet
<1> QED BY <1>2, <1>3, <1>4, SerialPlug DEF Next

\* With one key thread at a time, the place each thread has reached in set_root
\* and in the broadcast tells what root, the tree and the handlers hold
\* (viewport.cpp:73-79, application.cpp).
THEOREM SerialInvariant ==
    ASSUME Serial
    PROVE  Spec => []SerialInv
<1>1. HandlerInv /\ SerialInv /\ [Next]_vars => SerialInv'
  BY SerialStep
<1> QED BY <1>1, SerialInitially, HandlerInvariant, PTL DEF Spec

-----------------------------------------------------------------------------
(* What it means *)

\* While key threads do not overlap and the display has appeared once, the viewport
\* holds its root and nothing else between two calls of set_root, and a dashboard
\* that is shown receives its messages (viewport.cpp 73-79).
THEOREM RootIsThePageInvariant ==
    ASSUME Serial
    PROVE  Spec => []RootIsThePage
<1>1. SerialInv => RootIsThePage
  <2> SUFFICES ASSUME SerialInv, Quiet
               PROVE  /\ children = IF root = NoPage THEN << >> ELSE <<root>>
                      /\ root # NoPage /\ IsKind(root, "dashboard") => handler = root
    BY DEF RootIsThePage
  <2> QED BY DEF SerialInv, MainInv, HandlerOf
<1> QED BY <1>1, SerialInvariant, PTL

\* ... a key thread works on pages that are alive only, although a page may replace
\* itself in its own input_event (component.cpp 194-221) ...
THEOREM CallsLivePagesInvariant ==
    ASSUME Serial
    PROVE  Spec => []CallsLivePages
<1>1. SerialInv => CallsLivePages
  <2> SUFFICES ASSUME SerialInv, NEW t \in KeyThreads,
                      pc[t] \in {"handle", "load", "store", "label"}
               PROVE  page[t] \in Alive
    BY DEF CallsLivePages
  <2>1. page[t] = root /\ root # NoPage
    BY Alone DEF SerialInv, ThreadInv
  <2> QED BY <2>1 DEF Alive
<1> QED BY <1>1, SerialInvariant, PTL

\* ... the index stays within the tabs and the text shows it (dashboard_page.cpp
\* 95-135) ...
THEOREM TabIsShownInvariant ==
    ASSUME Serial
    PROVE  Spec => []TabIsShown
<1>1. HandlerInv /\ SerialInv => TabIsShown
  <2> SUFFICES ASSUME HandlerInv, SerialInv, NEW p \in Alive
               PROVE  /\ pages[p].index \in 0 .. Tabs - 1
                      /\ (\A t \in KeyThreads : pc[t] # "label") => pages[p].label = pages[p].index
    BY DEF TabIsShown
  <2>1. CASE p = root /\ root # NoPage
    BY <2>1 DEF SerialInv, TabInv
  <2>2. CASE \E a \in Actors : InSetRoot(a) /\ p = new[a]
    BY <2>2 DEF SerialInv, InstallInv, Tabs
  <2>3. CASE \E i \in DOMAIN children : children[i] = p
    <3>1. children = << >> \/ (root # NoPage /\ children = <<root>>)
      <4>1. CASE Quiet
        BY <4>1 DEF SerialInv, MainInv
      <4>2. CASE ~Quiet
        BY <4>2 DEF SerialInv, Quiet, InstallInv, InSetRoot
      <4> QED BY <4>1, <4>2
    <3> QED BY <2>1, <2>3, <3>1
  <2> QED BY <2>1, <2>2, <2>3 DEF Alive
<1> QED BY <1>1, SerialInvariant, HandlerInvariant, PTL

\* ... the broadcast stops because a page has taken the event of this very thread,
\* and nobody else is called then (application.cpp 139-151) ...
THEOREM StopsWhenProcessedInvariant ==
    ASSUME Serial
    PROVE  Spec => []StopsWhenProcessed
<1>1. SerialInv => StopsWhenProcessed
  BY DEF SerialInv, EventInv, StopsWhenProcessed
<1> QED BY <1>1, SerialInvariant, PTL

\* ... and the program does not end: register_message throws in nobody.
THEOREM PlugAnytimeOnce ==
    ASSUME Serial
    PROVE  Spec => []PlugAnytime
<1>1. SerialInv => PlugAnytime
  BY DEF SerialInv, PlugAnytime
<1> QED BY <1>1, SerialInvariant, PTL

\* Each step is a step of the navigation or none.
LEMMA NavigationStep ==
    ASSUME Serial, HandlerInv, SerialInv, [Next]_vars
    PROVE  [Navigation!Next]_(Navigation!vars)
<1> USE DEF Navigation!vars
<1>1. TypeOK /\ root \in 0 .. Len(pages) /\ Len(pages) \in Nat
  BY DEF HandlerInv, TypeOK
<1>2. (root # NoPage => root \in 1 .. Len(pages)) /\ KeyThreads \subseteq Actors
  BY <1>1 DEF NoPage, Actors
<1>3. ASSUME root' = root,
             root # NoPage => /\ pages'[root].kind = pages[root].kind
                              /\ pages'[root].index = pages[root].index
      PROVE  UNCHANGED Navigation!vars
  BY <1>3
<1>4. ASSUME NEW a \in Actors, NEW kind \in {"dashboard", "confirm"}, Construct(a, kind), root' = root,
             kind = "dashboard" => handler = NoPage
      PROVE  UNCHANGED Navigation!vars
  <2>1. \A p \in 1 .. Len(pages) : pages'[p] = pages[p]
    BY <1>4, Constructed
  <2> QED BY <2>1, <1>2, <1>3, <1>4
<1>5. ASSUME NEW a \in Actors, SetRoot(a)
      PROVE  [Navigation!Next]_(Navigation!vars)
  <2>1. CASE RemoveOldRoot(a) \/ AddNewRoot(a)
    BY <2>1, <1>3 DEF RemoveOldRoot, AddNewRoot
  <2>2. CASE AssignRoot(a)
    <3>1. InstallInv(a) /\ pc[a] = "assign" /\ root' = new[a] /\ pages' = pages
      BY <2>2 DEF AssignRoot, SerialInv, InSetRoot
    <3>2. new[a] \in 1 .. Len(pages) /\ pages[new[a]].kind \in {"dashboard", "confirm"}
      <4>1. new[a] \in 1 .. Len(pages)
        BY <3>1, <1>1 DEF InstallInv, TypeOK, NoPage
      <4> QED BY <4>1, <1>1, PagesAre DEF Page
    <3>3. root # NoPage => pages[root].kind \in {"dashboard", "confirm"}
      BY <1>1, <1>2, PagesAre DEF Page
    <3>4. CASE root = NoPage
      BY <3>1, <3>2, <3>4 DEF InstallInv, IsKind, Navigation!Next, Navigation!Show
    <3>5. CASE root # NoPage /\ IsKind(root, "dashboard")
      BY <3>1, <3>2, <3>5 DEF InstallInv, IsKind, Navigation!Next, Navigation!Confirm
    <3>6. CASE root # NoPage /\ ~IsKind(root, "dashboard")
      BY <3>1, <3>2, <3>3, <3>6 DEF InstallInv, IsKind, Navigation!Next, Navigation!Cancel
    <3> QED BY <3>4, <3>5, <3>6
  <2> QED BY <1>5, <2>1, <2>2 DEF SetRoot
<1>6. ASSUME NEW t \in KeyThreads, StoreIndex(t)
      PROVE  [Navigation!Next]_(Navigation!vars)
  <2>1. /\ IsKind(root, "dashboard") /\ seen[t] = pages[root].index /\ page[t] = root
        /\ \/ key[t] = "DOWN" /\ seen[t] < Tabs - 1
           \/ key[t] = "UP" /\ seen[t] > 0
        /\ root # NoPage
    BY <1>6, Alone DEF StoreIndex, SerialInv, ThreadInv
  <2>2. root' = root /\ pages' = [pages EXCEPT ![root].index =
                                     IF key[t] = "DOWN" THEN seen[t] + 1 ELSE seen[t] - 1]
    BY <2>1, <1>6 DEF StoreIndex
  <2>3. root \in DOMAIN pages /\ pages[root] \in Page
    BY <2>1, <1>1, <1>2, PagesAre
  <2>4. /\ pages'[root].kind = pages[root].kind
        /\ pages'[root].index = IF key[t] = "DOWN" THEN seen[t] + 1 ELSE seen[t] - 1
    <3>1. pages'[root] = [pages[root] EXCEPT !.index = IF key[t] = "DOWN" THEN seen[t] + 1 ELSE seen[t] - 1]
      BY <2>2, <2>3
    <3> QED BY <3>1, <2>3 DEF Page
  <2>5. CASE key[t] = "DOWN"
    BY <2>1, <2>2, <2>4, <2>5 DEF IsKind, Navigation!Next, Navigation!Down
  <2>6. CASE key[t] # "DOWN"
    BY <2>1, <2>2, <2>4, <2>6 DEF IsKind, Navigation!Next, Navigation!Up
  <2> QED BY <2>5, <2>6
<1>7. ASSUME NEW t \in KeyThreads, ShowTab(t)
      PROVE  UNCHANGED Navigation!vars
  <2>1. root # NoPage /\ page[t] = root /\ pages[root] \in Page /\ root \in DOMAIN pages
    BY <1>1, <1>2, <1>7, Alone, PagesAre DEF ShowTab, SerialInv, ThreadInv
  <2>2. root' = root /\ pages' = [pages EXCEPT ![root].label = pages[root].index]
    BY <2>1, <1>7 DEF ShowTab
  <2>3. pages'[root].kind = pages[root].kind /\ pages'[root].index = pages[root].index
    <3>1. pages'[root] = [pages[root] EXCEPT !.label = pages[root].index]
      BY <2>1, <2>2
    <3> QED BY <3>1, <2>1 DEF Page
  <2> QED BY <2>2, <2>3, <1>3
<1>8. ASSUME NEW t \in KeyThreads, Report(t) \/ Runs(t)
      PROVE  [Navigation!Next]_(Navigation!vars)
  <2>1. CASE \/ Report(t) \/ Broadcast(t) \/ TestBound(t) \/ LoadIndex(t) \/ ConfirmScan(t) \/ Ignore(t)
             \/ SelectTab(t) /\ pages[page[t]].index # 0
    <3>1. root' = root /\ pages' = pages
      BY <2>1 DEF viewport, Report, Broadcast, ParseInputEvent, Collect, Visit, SetInputAsHandled,
         TestBound, LoadIndex, ConfirmScan, Ignore, SelectTab
    <3> QED BY <3>1, <1>3
  <2>2. CASE CancelScan(t)
    <3>1. page[t] = root /\ handler = HandlerOf(root)
      BY <2>2, Alone DEF CancelScan, SerialInv, ThreadInv
    <3>2. handler = NoPage
      BY <2>2, <3>1 DEF CancelScan, HandlerOf, IsKind
    <3> QED BY <2>2, <3>2, <1>2, <1>4 DEF CancelScan
  <2>3. CASE SelectTab(t) /\ pages[page[t]].index = 0
    BY <2>3, <1>2, <1>4 DEF SelectTab
  <2>4. CASE SetRoot(t)
    BY <2>4, <1>2, <1>5
  <2> QED BY <2>1, <2>2, <2>3, <2>4, <1>6, <1>7, <1>8 DEF Runs, InputEvent
<1>9. ASSUME Plug
      PROVE  UNCHANGED Navigation!vars
  <2>1. Main \in Actors /\ plugs = 0
    BY <1>9, NavigationAssumption DEF Actors, Plug, Serial, SerialInv, MainInv
  <2> QED BY <2>1, <1>4, <1>9 DEF Plug, SerialInv, MainInv
<1>10. Main \in Actors
  BY DEF Actors
<1>11. CASE UNCHANGED vars
  BY <1>11, <1>3 DEF vars, viewport
<1> QED BY <1>5, <1>8, <1>9, <1>10, <1>11 DEF Next

\* Every key press is a step of the navigation that the display shows, or does
\* nothing, if one key comes at a time.
THEOREM PagesImplementNavigation ==
    ASSUME Serial
    PROVE  Spec => ImplementsNavigation
<1>1. Init => Navigation!Init
  BY DEF Init, Navigation!Init
<1>2. HandlerInv /\ SerialInv /\ [Next]_vars => [Navigation!Next]_(Navigation!vars)
  BY NavigationStep
<1> QED BY <1>1, <1>2, SerialInvariant, HandlerInvariant, PTL
        DEF Spec, ImplementsNavigation, Navigation!Spec

=============================================================================
