-------------------------- MODULE ComponentProofs ---------------------------
(***************************************************************************)
(* The components of the display server, for pages, containers, screens,   *)
(* texts and progress bars of any size: every walk of the tree is of live  *)
(* components, a container shares its space out, nothing is drawn outside  *)
(* the screen, and a frame without a key is true.                          *)
(***************************************************************************)
EXTENDS TreeWalk, BoxLayout, DashboardView,
        FiniteSetTheorems, SequenceTheorems, WellFoundedInduction, TLAPS

-----------------------------------------------------------------------------
(* Numbers *)

LEMMA DivisionBounds ==
    ASSUME NEW n \in Nat, NEW d \in Nat \ {0}
    PROVE  /\ n \div d \in Nat
           /\ d * (n \div d) <= n
           /\ n < d * (n \div d) + d
OBVIOUS

\* A product of numbers grows with each of them.
LEMMA ProductGrows ==
    ASSUME NEW a \in Nat, NEW b \in Nat, NEW c \in Nat, a <= b
    PROVE  a * c <= b * c /\ c * a <= c * b /\ a * c \in Nat
OBVIOUS

LEMMA DivisionSplits ==
    ASSUME NEW n \in Nat, NEW w \in Nat \ {0}
    PROVE  /\ n \div w \in Nat /\ n % w \in 0 .. w - 1
           /\ n = w * (n \div w) + (n % w)
OBVIOUS

-----------------------------------------------------------------------------
(* The walk through the tree *)

Component == [page : Nat, part : Nat]

\* A component the walk may hold: it lives, or it was lost in this frame.
Known(c) ==
    c = Viewport \/ (c.page \in 1 .. Len(built) /\ (c.page \in LivePages \/ c.page \in lost))

TreeType ==
    /\ built \in Seq(Nat)
    /\ root \in 1 .. Len(built) /\ new \in 1 .. Len(built)
    /\ turn \in {"idle", "erase", "assign", "push", "build"}
    /\ step \in {"begin", "visit", "fetch"}
    /\ stack \in Seq(Component) /\ current \in Component

\* The viewport shows the root and nothing else, except within set_root.
RootIsShown ==
    /\ children = IF turn \in {"assign", "push"} THEN << >> ELSE <<root>>
    /\ turn \notin {"erase", "assign"} => new = root
    /\ turn = "idle" => IsBuilt(root)

\* What the walk holds, and what a frame without set_root may rely on.
WalkInv ==
    /\ \A i \in DOMAIN stack : Known(stack[i])
    /\ step = "fetch" => Known(current)
    /\ calm => turn = "idle" /\ lost = {}
    /\ crashed => ~calm

TreeInv == TreeType /\ RootIsShown /\ WalkInv

\* The viewport is a component, of no page.
LEMMA ViewportTyped == Viewport \in Component /\ Viewport.page = 0 /\ Viewport.part = 0
BY DEF Viewport, Part, Component

\* A whole page has a column and its rows.
LEMMA RowsTyped == Rows \in Nat /\ Rows # 0 /\ Rows + 1 \in Nat /\ Rows + 1 > 1
BY TreeAssumption

\* The pages that live, in each state of set_root.
LEMMA LivePagesAre ==
    ASSUME RootIsShown
    PROVE  LivePages = {root, new}
<1>1. CASE children = << >>
  BY <1>1 DEF LivePages
<1>2. CASE children = <<root>>
  <2>1. DOMAIN children = {1} /\ children[1] = root
    BY <1>2
  <2> QED BY <2>1 DEF LivePages
<1> QED BY <1>1, <1>2 DEF RootIsShown

\* When a key thread is not in set_root, what is known is live, whole and at rest.
LEMMA CalmIsSafe ==
    ASSUME TreeInv, turn = "idle", lost = {}, NEW c \in Component, Known(c)
    PROVE  ~IsDead(c) /\ ~LacksArrows(c) /\ ~IsChanging(c)
<1>1. LivePages = {root, new} /\ new = root /\ IsBuilt(root)
  BY LivePagesAre DEF TreeInv, RootIsShown
<1>2. c = Viewport \/ c.page = root
  BY <1>1 DEF Known
<1>3. ~IsDead(c) /\ ~LacksArrows(c)
  BY <1>1, <1>2 DEF IsDead, LacksArrows
<1>4. ~IsChanging(c)
  BY DEF IsChanging
<1> QED BY <1>3, <1>4

\* The components of a component are known when it is.
LEMMA ComponentsKnown ==
    ASSUME TreeInv, NEW c \in Component, Known(c)
    PROVE  /\ Components(c) \in Seq(Component)
           /\ \A i \in DOMAIN Components(c) : Known(Components(c)[i])
<1>1. CASE c = Viewport
  <2>1. Components(c) = [i \in DOMAIN children |-> Part(children[i], 0)]
    BY <1>1 DEF Components
  <2>2. children = << >> \/ children = <<root>>
    BY DEF TreeInv, RootIsShown
  <2>3. CASE children = << >>
    <3>1. DOMAIN children = 1 .. 0
      BY <2>3
    <3>2. Components(c) \in [1 .. 0 -> Component] /\ DOMAIN Components(c) = 1 .. 0
      BY <2>1, <3>1
    <3> QED BY <3>2
  <2>4. CASE children = <<root>>
    <3>1. DOMAIN children = 1 .. 1 /\ children[1] = root /\ root \in 1 .. Len(built)
          /\ Len(built) \in Nat
      BY <2>4 DEF TreeInv, TreeType
    <3>2. Part(root, 0) \in Component /\ Part(root, 0).page = root
      BY <3>1 DEF Part, Component
    <3>3. /\ Components(c) \in [1 .. 1 -> Component] /\ DOMAIN Components(c) = 1 .. 1
          /\ Components(c)[1] = Part(root, 0)
      BY <2>1, <3>1, <3>2
    <3>4. Known(Part(root, 0))
      BY <3>1, <3>2 DEF Known, LivePages
    <3>5. Components(c) \in Seq(Component)
      <4>1. PICK n \in Nat : n = 1
        OBVIOUS
      <4>2. Components(c) \in [1 .. n -> Component]
        BY <3>3, <4>1
      <4> QED BY <4>2
    <3>6. \A i \in DOMAIN Components(c) : Components(c)[i] = Part(root, 0)
      BY <3>3
    <3> QED BY <3>4, <3>5, <3>6
  <2> QED BY <2>2, <2>3, <2>4
<1>2. CASE c # Viewport
  <2>1. /\ c.page \in 1 .. Len(built) /\ (c.page \in LivePages \/ c.page \in lost)
        /\ Len(built) \in Nat /\ c.page \in Nat
    BY <1>2 DEF Known, TreeInv, TreeType
  <2>2. built[c.page] \in Nat
    BY <2>1 DEF TreeInv, TreeType
  <2>3. ASSUME NEW n \in Nat
        PROVE  Part(c.page, n) \in Component /\ Known(Part(c.page, n))
    BY <2>1 DEF Part, Component, Known
  <2>4. CASE c.part = 0
    <3>1. PICK k \in Nat : k = IF built[c.page] > 0 THEN 1 ELSE 0
      OBVIOUS
    <3>2. Components(c) = [i \in 1 .. k |-> Part(c.page, 1)]
      BY <1>2, <2>4, <3>1 DEF Components
    <3>3. /\ Components(c) \in [1 .. k -> Component] /\ DOMAIN Components(c) = 1 .. k
          /\ \A i \in 1 .. k : Components(c)[i] = Part(c.page, 1)
      BY <2>3, <3>2
    <3>4. Components(c) \in Seq(Component)
      BY <3>3
    <3>5. Known(Part(c.page, 1))
      BY <2>3
    <3>6. \A i \in DOMAIN Components(c) : Components(c)[i] = Part(c.page, 1)
      BY <3>3
    <3>7. \A i \in DOMAIN Components(c) : Known(Components(c)[i])
      BY <3>5, <3>6
    <3> QED BY <3>4, <3>7
  <2>5. CASE c.part = 1
    <3>1. PICK k \in Nat : 1 .. k = 1 .. built[c.page] - 1
      <4>1. CASE built[c.page] = 0
        <5>1. 1 .. 0 = 1 .. built[c.page] - 1
          BY <4>1
        <5> QED BY <5>1
      <4>2. CASE built[c.page] # 0
        <5>1. built[c.page] - 1 \in Nat
          BY <2>2, <4>2
        <5> QED BY <5>1
      <4> QED BY <4>1, <4>2
    <3>2. Components(c) = [i \in 1 .. k |-> Part(c.page, i + 1)]
      BY <1>2, <2>5, <3>1 DEF Components
    <3>3. \A i \in 1 .. k : i + 1 \in Nat
      OBVIOUS
    <3>4. /\ Components(c) \in [1 .. k -> Component] /\ DOMAIN Components(c) = 1 .. k
          /\ \A i \in 1 .. k : Components(c)[i] = Part(c.page, i + 1)
      BY <2>3, <3>2, <3>3
    <3> QED BY <2>3, <3>3, <3>4
  <2>6. CASE c.part \notin {0, 1}
    <3>1. Components(c) = << >>
      BY <1>2, <2>6 DEF Components
    <3> QED BY <3>1
  <2> QED BY <2>4, <2>5, <2>6
<1> QED BY <1>1, <1>2

\* A step of the key thread, or none: what was known stays known.
LEMMA KnownStays ==
    ASSUME TreeType, Len(built') >= Len(built), Len(built') \in Nat,
           \A p \in 1 .. Len(built) : p \in LivePages \/ p \in lost =>
               p \in LivePages' \/ p \in lost',
           NEW c, Known(c)
    PROVE  Known(c)'
<1>1. Viewport' = Viewport
  BY DEF Viewport, Part
<1>2. Len(built) \in Nat
  BY DEF TreeType
<1> QED BY <1>1, <1>2 DEF Known

\* The same for all that a walk that does not move holds.
LEMMA WalkHolds ==
    ASSUME TreeType, UNCHANGED <<stack, current, step, crashed>>, ~crashed,
           Len(built') >= Len(built), Len(built') \in Nat,
           \A p \in 1 .. Len(built) : p \in LivePages \/ p \in lost =>
               p \in LivePages' \/ p \in lost',
           WalkInv, calm' => turn' = "idle" /\ lost' = {}
    PROVE  WalkInv'
<1>1. \A c : Known(c) => Known(c)'
  BY KnownStays
<1>2. \A i \in DOMAIN stack' : Known(stack[i])'
  BY <1>1 DEF WalkInv
<1>3. step' = "fetch" => Known(current)'
  BY <1>1 DEF WalkInv
<1> QED BY <1>2, <1>3 DEF WalkInv

\* A step of the main thread.
LEMMA WalkStep ==
    ASSUME TreeInv, Walk
    PROVE  TreeInv'
<1>1. UNCHANGED <<children, root, new, built, turn>> /\ ~crashed
  BY DEF Walk, BeginFrame, Visit, Fetch, EndFrame, tree
<1>2. LivePages' = LivePages /\ Len(built') = Len(built)
  BY <1>1 DEF LivePages
<1>3. RootIsShown'
  BY <1>1 DEF TreeInv, RootIsShown, IsBuilt
<1>4. CASE BeginFrame
  <2>1. /\ stack' = <<Viewport>> /\ step' = "visit" /\ lost' = {} /\ calm' = (turn = "idle")
        /\ current' = current /\ crashed' = crashed
    BY <1>4 DEF BeginFrame
  <2>2. stack' \in Seq(Component) /\ \A i \in DOMAIN stack' : stack'[i] = Viewport
    BY <2>1, ViewportTyped
  <2>3. TreeType'
    BY <1>1, <2>1, <2>2 DEF TreeInv, TreeType
  <2>4. WalkInv'
    BY <1>1, <2>1, <2>2 DEF WalkInv, Known
  <2> QED BY <1>3, <2>3, <2>4 DEF TreeInv
<1>5. CASE Visit
  <2>1. /\ stack # << >> /\ current' = Head(stack) /\ stack' = Tail(stack)
        /\ step' = "fetch" /\ lost' = lost /\ calm' = calm
        /\ \/ ~LacksArrows(current') /\ crashed' = FALSE
           \/ (LacksArrows(current') \/ IsDead(current')) /\ crashed' = TRUE
    BY <1>5 DEF Visit
  <2>2. /\ 1 \in DOMAIN stack /\ Head(stack) = stack[1] /\ Head(stack) \in Component
        /\ Tail(stack) \in Seq(Component)
        /\ \A i \in DOMAIN Tail(stack) : i + 1 \in DOMAIN stack
                                         /\ Tail(stack)[i] = stack[i + 1]
    BY <2>1 DEF TreeInv, TreeType
  <2>3. TreeType'
    BY <1>1, <2>1, <2>2 DEF TreeInv, TreeType
  <2>4. \A c : Known(c) => Known(c)'
    BY <1>2, <2>1 DEF Known, Viewport, Part
  <2>5. Known(current') /\ \A i \in DOMAIN stack' : Known(stack'[i])
    BY <2>1, <2>2 DEF TreeInv, WalkInv
  <2>6. crashed' => ~calm'
    <3>1. ASSUME calm PROVE ~LacksArrows(current') /\ ~IsDead(current')
      BY <2>1, <2>2, <2>5, <3>1, CalmIsSafe DEF TreeInv, WalkInv
    <3> QED BY <2>1, <3>1
  <2>7. WalkInv'
    <3>1. \A i \in DOMAIN stack' : Known(stack[i])'
      BY <2>4, <2>5
    <3>2. Known(current)'
      BY <2>4, <2>5
    <3> QED BY <1>1, <2>1, <2>6, <3>1, <3>2 DEF TreeInv, WalkInv
  <2> QED BY <1>3, <2>3, <2>7 DEF TreeInv
<1>6. CASE Fetch
  <2>1. /\ step = "fetch" /\ stack' = Components(current) \o stack
        /\ step' = "visit" /\ lost' = lost /\ calm' = calm /\ current' = current
        /\ \/ crashed' = FALSE
           \/ (IsDead(current) \/ IsChanging(current)) /\ crashed' = TRUE
    BY <1>6 DEF Fetch
  <2>2. /\ Known(current) /\ current \in Component
        /\ stack \in Seq(Component) /\ \A i \in DOMAIN stack : Known(stack[i])
    BY <2>1 DEF TreeInv, TreeType, WalkInv
  <2>3. /\ Components(current) \in Seq(Component)
        /\ \A i \in DOMAIN Components(current) : Known(Components(current)[i])
    BY <2>2, ComponentsKnown
  <2>4. PICK top : top = Components(current)
    OBVIOUS
  <2>5. stack' \in Seq(Component) /\ \A i \in DOMAIN stack' : Known(stack'[i])
    <3>1. /\ top \in Seq(Component) /\ \A i \in DOMAIN top : Known(top[i])
          /\ stack' = top \o stack
      BY <2>1, <2>3, <2>4
    <3>2. /\ stack' \in Seq(Component) /\ DOMAIN stack' = 1 .. Len(top) + Len(stack)
          /\ \A i \in 1 .. Len(top) + Len(stack) :
                stack'[i] = IF i <= Len(top) THEN top[i] ELSE stack[i - Len(top)]
      BY <2>2, <3>1, ConcatProperties
    <3>3. ASSUME NEW i \in DOMAIN stack' PROVE Known(stack'[i])
      <4>1. CASE i <= Len(top)
        <5>1. i \in DOMAIN top /\ stack'[i] = top[i]
          BY <3>1, <3>2, <4>1
        <5> QED BY <3>1, <5>1
      <4>2. CASE ~(i <= Len(top))
        <5>1. i - Len(top) \in DOMAIN stack /\ stack'[i] = stack[i - Len(top)]
          BY <2>2, <3>1, <3>2, <4>2
        <5> QED BY <2>2, <5>1
      <4> QED BY <4>1, <4>2
    <3> QED BY <3>2, <3>3
  <2>6. TreeType'
    BY <1>1, <2>1, <2>5 DEF TreeInv, TreeType
  <2>7. \A c : Known(c) => Known(c)'
    BY <1>2, <2>1 DEF Known, Viewport, Part
  <2>8. crashed' => ~calm'
    <3>1. ASSUME calm PROVE ~IsDead(current) /\ ~IsChanging(current)
      BY <2>2, <3>1, CalmIsSafe DEF TreeInv, WalkInv
    <3> QED BY <2>1, <3>1
  <2>9. WalkInv'
    <3>1. \A i \in DOMAIN stack' : Known(stack[i])'
      BY <2>5, <2>7
    <3> QED BY <1>1, <2>1, <2>8, <3>1 DEF TreeInv, WalkInv
  <2> QED BY <1>3, <2>6, <2>9 DEF TreeInv
<1>7. CASE EndFrame
  <2>1. UNCHANGED <<stack, current, lost, calm, crashed>> /\ step' = "begin"
    BY <1>7 DEF EndFrame
  <2>2. TreeType'
    BY <1>1, <2>1 DEF TreeInv, TreeType
  <2>3. \A c : Known(c) => Known(c)'
    BY <1>2, <2>1 DEF Known, Viewport, Part
  <2>4. \A i \in DOMAIN stack' : Known(stack[i])'
    BY <2>1, <2>3 DEF TreeInv, WalkInv
  <2>5. WalkInv'
    BY <1>1, <2>1, <2>4 DEF TreeInv, WalkInv
  <2> QED BY <1>3, <2>2, <2>5 DEF TreeInv
<1> QED BY <1>4, <1>5, <1>6, <1>7 DEF Walk

\* A key makes a page.
LEMMA MakePageStep ==
    ASSUME TreeInv, ~crashed, MakePage
    PROVE  TreeInv'
<1>1. /\ built' = Append(built, 0) /\ new' = Len(built') /\ turn = "idle"
      /\ turn' = "erase" /\ calm' = FALSE
      /\ UNCHANGED <<children, root, stack, current, step, lost, crashed>>
  BY DEF MakePage, walk
<1>2. /\ built' \in Seq(Nat) /\ Len(built') = Len(built) + 1 /\ Len(built) \in Nat
      /\ \A p \in 1 .. Len(built) : built'[p] = built[p]
  BY <1>1 DEF TreeInv, TreeType
<1>3. TreeType'
  BY <1>1, <1>2 DEF TreeInv, TreeType
<1>4. RootIsShown'
  BY <1>1 DEF TreeInv, RootIsShown
<1>5. \A p \in LivePages : p \in LivePages'
  <2>1. LivePages = {root, new} /\ new = root
    BY <1>1, LivePagesAre DEF TreeInv, RootIsShown
  <2> QED BY <1>1, <2>1 DEF LivePages
<1>6. WalkInv'
  BY <1>1, <1>2, <1>5, WalkHolds DEF TreeInv
<1> QED BY <1>3, <1>4, <1>6 DEF TreeInv

\* The only component of the viewport is found and taken out.
LEMMA EraseOnly ==
    ASSUME NEW e PROVE Erase(<<e>>, e) = << >>
<1> DEFINE First(i) == <<e>>[i] = e /\ \A j \in 1 .. i - 1 : <<e>>[j] # e
<1>1. PICK k : k = CHOOSE i \in DOMAIN <<e>> : First(i)
  OBVIOUS
<1>2. DOMAIN <<e>> = {1} /\ First(1)
  OBVIOUS
<1> HIDE DEF First
<1>3. k = 1
  BY <1>1, <1>2
<1>4. Erase(<<e>>, e) = SubSeq(<<e>>, 1, k - 1) \o SubSeq(<<e>>, k + 1, Len(<<e>>))
  BY <1>1 DEF Erase, First
<1>5. SubSeq(<<e>>, 1, 0) = << >> /\ SubSeq(<<e>>, 2, 1) = << >> /\ Len(<<e>>) = 1
  OBVIOUS
<1>6. << >> \o << >> = << >>
  OBVIOUS
<1> QED BY <1>3, <1>4, <1>5, <1>6

\* A step of set_root.
LEMMA SetRootStep ==
    ASSUME TreeInv, SetRoot
    PROVE  TreeInv'
<1>1. /\ UNCHANGED <<new, stack, current, step, calm, crashed>> /\ ~crashed
      /\ turn # "idle"
  BY DEF SetRoot, EraseRoot, AssignNewRoot, PushRoot, Build, walk
<1>2. ~calm /\ Len(built) \in Nat
  BY <1>1 DEF TreeInv, WalkInv, TreeType
<1>3. LivePages = {root, new}
  BY LivePagesAre DEF TreeInv
<1>4. CASE EraseRoot
  <2>1. /\ UNCHANGED <<root, built, lost>> /\ turn = "erase" /\ turn' = "assign"
        /\ children' = IF \E i \in DOMAIN children : children[i] = root
                       THEN Erase(children, root) ELSE children
    BY <1>4 DEF EraseRoot
  <2>2. children = <<root>>
    BY <2>1 DEF TreeInv, RootIsShown
  <2>3. children' = << >>
    <3>1. 1 \in DOMAIN children /\ children[1] = root
      BY <2>2
    <3> QED BY <2>1, <2>2, <3>1, EraseOnly
  <2>4. TreeType' /\ RootIsShown'
    BY <1>1, <2>1, <2>3 DEF TreeInv, TreeType, RootIsShown
  <2>5. LivePages' = {root, new}
    BY <1>1, <2>1, <2>4, LivePagesAre, <2>3 DEF LivePages
  <2>6. WalkInv'
    BY <1>1, <1>2, <1>3, <2>1, <2>5, WalkHolds DEF TreeInv
  <2> QED BY <2>4, <2>6 DEF TreeInv
<1>5. CASE AssignNewRoot
  <2>1. /\ UNCHANGED <<children, built>> /\ root' = new
        /\ turn = "assign" /\ turn' = "push"
        /\ lost' = lost \cup ((1 .. Len(built)) \ LivePages')
    BY <1>5 DEF AssignNewRoot
  <2>2. TreeType' /\ RootIsShown'
    BY <1>1, <2>1 DEF TreeInv, TreeType, RootIsShown
  <2>3. \A p \in 1 .. Len(built) : p \in LivePages \/ p \in lost =>
            p \in LivePages' \/ p \in lost'
    BY <2>1
  <2>4. WalkInv'
    BY <1>1, <1>2, <2>1, <2>3, WalkHolds DEF TreeInv
  <2> QED BY <2>2, <2>4 DEF TreeInv
<1>6. CASE PushRoot
  <2>1. /\ UNCHANGED <<root, built, lost>> /\ turn = "push" /\ turn' = "build"
        /\ children' = Append(children, root)
    BY <1>6 DEF PushRoot
  <2>2. children' = <<root>> /\ new = root
    <3>1. children = << >> /\ new = root
      BY <2>1 DEF TreeInv, RootIsShown
    <3>2. Append(<< >>, root) = <<root>>
      OBVIOUS
    <3> QED BY <2>1, <3>1, <3>2
  <2>3. TreeType' /\ RootIsShown'
    BY <1>1, <2>1, <2>2 DEF TreeInv, TreeType, RootIsShown
  <2>4. \A p \in LivePages : p \in LivePages'
    BY <1>1, <1>3, <2>1 DEF LivePages
  <2>5. WalkInv'
    BY <1>1, <1>2, <2>1, <2>4, WalkHolds DEF TreeInv
  <2> QED BY <2>3, <2>5 DEF TreeInv
<1>7. CASE Build
  <2>1. /\ UNCHANGED <<children, root, lost>> /\ turn = "build"
        /\ built' = [built EXCEPT ![root] = @ + 1]
        /\ turn' = IF built'[root] = Rows + 1 THEN "idle" ELSE "build"
    BY <1>7 DEF Build
  <2>2. built' \in Seq(Nat) /\ Len(built') = Len(built)
    BY <2>1 DEF TreeInv, TreeType
  <2>3. TreeType'
    BY <1>1, <2>1, <2>2 DEF TreeInv, TreeType
  <2>4. RootIsShown'
    BY <1>1, <2>1 DEF TreeInv, RootIsShown, IsBuilt
  <2>5. LivePages' = LivePages
    BY <1>1, <2>1 DEF LivePages
  <2>6. WalkInv'
    BY <1>1, <1>2, <2>1, <2>2, <2>5, WalkHolds DEF TreeInv
  <2> QED BY <2>3, <2>4, <2>6 DEF TreeInv
<1> QED BY <1>4, <1>5, <1>6, <1>7 DEF SetRoot

\* The invariant of the walk: the viewport shows the root alone except within
\* set_root, and what the walk holds lives or died in this frame.
THEOREM TreeInvariant == TreeSpec => []TreeInv
<1>1. TreeInit => TreeInv
  <2> SUFFICES ASSUME TreeInit PROVE TreeInv
    OBVIOUS
  <2>1. /\ children = <<1>> /\ root = 1 /\ new = 1 /\ built = <<Rows + 1>>
        /\ turn = "idle" /\ stack = << >> /\ current = Viewport /\ step = "begin"
        /\ lost = {} /\ calm = TRUE /\ crashed = FALSE
    BY DEF TreeInit
  <2>2. built \in Seq(Nat) /\ Len(built) = 1 /\ built[1] = Rows + 1
    BY <2>1, RowsTyped
  <2>3. TreeType
    BY <2>1, <2>2, ViewportTyped DEF TreeType
  <2>4. RootIsShown
    BY <2>1, <2>2 DEF RootIsShown, IsBuilt
  <2>5. WalkInv
    BY <2>1 DEF WalkInv
  <2> QED BY <2>3, <2>4, <2>5 DEF TreeInv
<1>2. TreeInv /\ [TreeNext]_treeVars => TreeInv'
  <2> SUFFICES ASSUME TreeInv, [TreeNext]_treeVars PROVE TreeInv'
    OBVIOUS
  <2>1. CASE UNCHANGED treeVars
    BY <2>1 DEF treeVars, tree, walk, TreeInv, TreeType, RootIsShown, WalkInv, Known,
                LivePages, IsBuilt
  <2> QED BY <2>1, WalkStep, SetRootStep, MakePageStep DEF TreeNext
<1> QED BY <1>1, <1>2, PTL DEF TreeSpec

\* The walk meets a dead page only when set_root replaced it within this frame,
\* and a frame without set_root never fails, for pages of any number of rows and
\* any number of replacements (component.cpp:36-58 and 173-192, viewport.cpp:73-79).
THEOREM WalkMeetsLiveInvariant == TreeSpec => []WalkMeetsLive
<1>1. TreeInv => WalkMeetsLive
  BY DEF TreeInv, WalkInv, WalkMeetsLive, Known, IsDead
<1> QED BY <1>1, TreeInvariant, PTL

-----------------------------------------------------------------------------
(* The space of a container *)

\* A set of numbers that is not empty has a least one.
LEMMA LeastNumber ==
    ASSUME NEW S \in SUBSET Nat, S # {}
    PROVE  \E k \in S : \A m \in S : k <= m
<1> DEFINE less == OpToRel(<, Nat)
<1>1. IsWellFoundedOn(less, Nat)
  BY NatLessThanWellFounded
<1>2. PICK k \in S : \A m \in S : <<m, k>> \notin less
  <2> HIDE DEF less
  <2> QED BY <1>1, WFMin
<1>3. \A m \in Nat : m < k => <<m, k>> \in less
  BY DEF OpToRel
<1> HIDE DEF less
<1>4. \A m \in S : ~ (m < k)
  BY <1>2, <1>3
<1> QED BY <1>4

LEMMA LeastIsMin ==
    ASSUME NEW S \in SUBSET Nat, S # {}
    PROVE  Min(S) \in S
BY LeastNumber DEF Min

-----------------------------------------------------------------------------

-----------------------------------------------------------------------------
(* Sums *)

\* The pixels of one child.
LEMMA OneChild ==
    ASSUME NEW i, NEW m \in Nat
    PROVE  IsFiniteSet({i} \X (1 .. m)) /\ Cardinality({i} \X (1 .. m)) = m
<1> DEFINE T == {i} \X (1 .. m)
           g == [k \in 1 .. m |-> <<i, k>>]
<1>1. IsFiniteSet(1 .. m) /\ Cardinality(1 .. m) = m
  BY FS_Interval
<1>2. g \in Bijection(1 .. m, T)
  <2>1. g \in [1 .. m -> T]
    OBVIOUS
  <2>2. \A k, l \in 1 .. m : g[k] = g[l] => k = l
    OBVIOUS
  <2>3. \A t \in T : \E k \in 1 .. m : g[k] = t
    OBVIOUS
  <2> HIDE DEF g, T
  <2> QED BY <2>1, <2>2, <2>3 DEF Bijection, Injection, Surjection, IsInjective
<1>3. ExistsBijection(1 .. m, T)
  BY <1>2 DEF ExistsBijection
<1> QED BY <1>1, <1>3, FS_Bijection

LEMMA PixelsFinite ==
    ASSUME NEW n \in Nat, NEW f \in [1 .. n -> Nat], NEW I \in SUBSET (1 .. n)
    PROVE  IsFiniteSet(I) /\ IsFiniteSet(Pixels(f, I)) /\ Total(f, I) \in Nat
<1>1. IsFiniteSet(I)
  <2>1. IsFiniteSet(1 .. n)
    BY FS_Interval
  <2> QED BY <2>1, FS_Subset
<1> DEFINE T == {{i} \X (1 .. f[i]) : i \in I}
           g == [i \in I |-> {i} \X (1 .. f[i])]
<1>2. g \in Surjection(I, T)
  BY DEF Surjection
<1>3. IsFiniteSet(T)
  BY <1>1, <1>2, FS_Surjection
<1>4. \A U \in T : IsFiniteSet(U)
  <2> SUFFICES ASSUME NEW U \in T PROVE IsFiniteSet(U)
    OBVIOUS
  <2>1. PICK i \in I : U = {i} \X (1 .. f[i])
    OBVIOUS
  <2>2. f[i] \in Nat
    OBVIOUS
  <2> QED BY <2>1, <2>2, OneChild
<1>5. IsFiniteSet(UNION T)
  BY <1>3, <1>4, FS_UNION
<1>6. IsFiniteSet(Pixels(f, I))
  BY <1>5 DEF Pixels
<1> QED BY <1>1, <1>6, FS_CardinalityType DEF Total

LEMMA TotalOfNone ==
    ASSUME NEW f PROVE Total(f, {}) = 0
<1>1. Pixels(f, {}) = {}
  BY DEF Pixels
<1> QED BY <1>1, FS_EmptySet DEF Total

LEMMA TotalOfOne ==
    ASSUME NEW n \in Nat, NEW f \in [1 .. n -> Nat], NEW i \in 1 .. n
    PROVE  Total(f, {i}) = f[i]
<1>1. Pixels(f, {i}) = {i} \X (1 .. f[i])
  BY DEF Pixels
<1> QED BY <1>1, OneChild DEF Total

LEMMA TotalOfBoth ==
    ASSUME NEW n \in Nat, NEW f \in [1 .. n -> Nat],
           NEW I \in SUBSET (1 .. n), NEW J \in SUBSET (1 .. n), I \cap J = {}
    PROVE  Total(f, I \cup J) = Total(f, I) + Total(f, J)
<1>1. Pixels(f, I \cup J) = Pixels(f, I) \cup Pixels(f, J)
  BY DEF Pixels
<1>2. Pixels(f, I) \cap Pixels(f, J) = {}
  <2>1. \A K : \A p \in Pixels(f, K) : p[1] \in K
    BY DEF Pixels
  <2> QED BY <2>1
<1>3. IsFiniteSet(Pixels(f, I)) /\ IsFiniteSet(Pixels(f, J))
  BY PixelsFinite
<1>4. Total(f, I) \in Nat /\ Total(f, J) \in Nat
  BY PixelsFinite
<1>5. Cardinality(Pixels(f, I) \cup Pixels(f, J))
        = Cardinality(Pixels(f, I)) + Cardinality(Pixels(f, J)) - Cardinality({})
  BY <1>2, <1>3, FS_Union
<1>6. Cardinality({}) = 0
  BY FS_EmptySet
<1>7. Total(f, I \cup J) = Total(f, I) + Total(f, J) - Cardinality({})
  BY <1>1, <1>5 DEF Total
<1> QED BY <1>4, <1>6, <1>7

LEMMA TotalWith ==
    ASSUME NEW n \in Nat, NEW f \in [1 .. n -> Nat],
           NEW I \in SUBSET (1 .. n), NEW i \in 1 .. n, i \notin I
    PROVE  Total(f, I \cup {i}) = Total(f, I) + f[i]
<1>1. {i} \in SUBSET (1 .. n) /\ I \cap {i} = {}
  OBVIOUS
<1>2. Total(f, I \cup {i}) = Total(f, I) + Total(f, {i})
  BY <1>1, TotalOfBoth
<1> QED BY <1>2, TotalOfOne

LEMMA TotalGrows ==
    ASSUME NEW n \in Nat, NEW f \in [1 .. n -> Nat],
           NEW J \in SUBSET (1 .. n), NEW I \in SUBSET J
    PROVE  Total(f, I) <= Total(f, J)
<1>1. Pixels(f, I) \in SUBSET Pixels(f, J)
  BY DEF Pixels
<1> QED BY <1>1, PixelsFinite, FS_Subset DEF Total

LEMMA TotalOfSame ==
    ASSUME NEW f, NEW g, NEW I, \A i \in I : f[i] = g[i]
    PROVE  Total(f, I) = Total(g, I)
<1>1. Pixels(f, I) = Pixels(g, I)
  BY DEF Pixels
<1> QED BY <1>1 DEF Total

\* One child less.
LEMMA TotalWithout ==
    ASSUME NEW n \in Nat, NEW f \in [1 .. n -> Nat],
           NEW I \in SUBSET (1 .. n), NEW i \in I
    PROVE  Total(f, I) = Total(f, I \ {i}) + f[i]
<1>1. I = (I \ {i}) \cup {i} /\ i \notin I \ {i}
  OBVIOUS
<1>2. I \ {i} \in SUBSET (1 .. n) /\ i \in 1 .. n
  OBVIOUS
<1>3. Total(f, (I \ {i}) \cup {i}) = Total(f, I \ {i}) + f[i]
  BY <1>1, <1>2, TotalWith
<1> QED BY <1>1, <1>3

-----------------------------------------------------------------------------
(* Shares *)

\* The members of S up to j.
Upto(S, j) == {i \in S : i <= j}

LEMMA UptoBounds ==
    ASSUME NEW n \in Nat, NEW S \in SUBSET (1 .. n), NEW j \in 0 .. n
    PROVE  /\ Upto(S, j) \in SUBSET (1 .. n)
           /\ IsFiniteSet(Upto(S, j)) /\ Cardinality(Upto(S, j)) \in 0 .. j
<1>1. IsFiniteSet(1 .. j) /\ Cardinality(1 .. j) = j
  BY FS_Interval
<1>2. Upto(S, j) \in SUBSET (1 .. j) /\ Upto(S, j) \in SUBSET (1 .. n)
  <2>1. \A i \in 1 .. n : i <= j => i \in 1 .. j
    OBVIOUS
  <2> QED BY <2>1 DEF Upto
<1>3. IsFiniteSet(Upto(S, j)) /\ Cardinality(Upto(S, j)) <= j
  BY <1>1, <1>2, FS_Subset
<1>4. Cardinality(Upto(S, j)) \in Nat
  BY <1>3, FS_CardinalityType
<1> QED BY <1>2, <1>3, <1>4

LEMMA UptoEnds ==
    ASSUME NEW n \in Nat, NEW S \in SUBSET (1 .. n)
    PROVE  Upto(S, 0) = {} /\ Upto(S, n) = S
<1>1. \A i \in 1 .. n : ~ (i <= 0) /\ i <= n
  OBVIOUS
<1> QED BY <1>1 DEF Upto

\* From the members up to j to those up to j + 1.
Grown(S, j) ==
    /\ j + 1 \in S => /\ Upto(S, j + 1) = Upto(S, j) \cup {j + 1}
                      /\ j + 1 \notin Upto(S, j)
                      /\ Cardinality(Upto(S, j + 1)) = Cardinality(Upto(S, j)) + 1
    /\ j + 1 \notin S => Upto(S, j + 1) = Upto(S, j)

LEMMA UptoNext ==
    ASSUME NEW n \in Nat, NEW S \in SUBSET (1 .. n), NEW j \in 0 .. n - 1
    PROVE  Grown(S, j)
<1>1. /\ \A i \in S : i \in Nat /\ 1 <= i /\ i <= n
      /\ j \in Nat /\ j \in 0 .. n
  OBVIOUS
<1>2. \A i \in Nat : i <= j + 1 <=> i <= j \/ i = j + 1
  BY <1>1
<1>3. ~ (j + 1 <= j)
  BY <1>1
<1>4. ASSUME j + 1 \in S
      PROVE  /\ Upto(S, j + 1) = Upto(S, j) \cup {j + 1}
             /\ j + 1 \notin Upto(S, j)
             /\ Cardinality(Upto(S, j + 1)) = Cardinality(Upto(S, j)) + 1
  <2>1. /\ Upto(S, j + 1) = Upto(S, j) \cup {j + 1}
        /\ j + 1 \notin Upto(S, j)
    BY <1>1, <1>2, <1>3, <1>4 DEF Upto
  <2>2. IsFiniteSet(Upto(S, j))
    BY <1>1, UptoBounds
  <2> QED BY <2>1, <2>2, FS_AddElement
<1>5. ASSUME j + 1 \notin S PROVE Upto(S, j + 1) = Upto(S, j)
  BY <1>1, <1>2, <1>5 DEF Upto
<1> QED BY <1>4, <1>5 DEF Grown

\* Sizes that are a share and the difference of what was carried after and
\* before.
SharedOut(f, S, share, carry) ==
    \A i \in S : f[i] = share + carry[Cardinality(Upto(S, i))]
                              - carry[Cardinality(Upto(S, i)) - 1]

\* The carries cancel, but for the last.
LEMMA CarriesCancel ==
    ASSUME NEW n \in Nat, NEW f \in [1 .. n -> Nat], NEW S \in SUBSET (1 .. n),
           NEW share \in Nat, NEW carry \in [0 .. n -> Nat], carry[0] = 0,
           SharedOut(f, S, share, carry)
    PROVE  Total(f, S) = Cardinality(S) * share + carry[Cardinality(S)]
<1> DEFINE Rk(j) == Cardinality(Upto(S, j))
           Holds(j) == Total(f, Upto(S, j)) = Rk(j) * share + carry[Rk(j)]
           Wrong == {j \in 0 .. n : ~Holds(j)}
<1>1. Holds(0)
  <2>1. Upto(S, 0) = {}
    BY UptoEnds
  <2>2. Rk(0) = 0 /\ Total(f, Upto(S, 0)) = 0
    BY <2>1, TotalOfNone, FS_EmptySet
  <2> QED BY <2>2
<1>2. ASSUME NEW j \in 0 .. n - 1, Holds(j)
      PROVE  Holds(j + 1)
  <2>0. j \in Nat /\ j \in 0 .. n /\ j + 1 \in 1 .. n
    OBVIOUS
  <2>1. Rk(j) \in 0 .. j /\ Upto(S, j) \in SUBSET (1 .. n)
    BY <2>0, UptoBounds
  <2>4. Grown(S, j)
    BY UptoNext
  <2>2. CASE j + 1 \in S
    <3>1. /\ Upto(S, j + 1) = Upto(S, j) \cup {j + 1}
          /\ Rk(j + 1) = Rk(j) + 1
      BY <2>2, <2>4 DEF Grown
    <3>2. j + 1 \notin Upto(S, j)
      BY <2>2, <2>4 DEF Grown
    <3>3. Total(f, Upto(S, j) \cup {j + 1}) = Total(f, Upto(S, j)) + f[j + 1]
      BY <2>0, <2>1, <3>2, TotalWith
    <3>4. f[j + 1] \in Nat
      BY <2>0
    <3>5. f[j + 1] = share + carry[Rk(j) + 1] - carry[Rk(j)]
      <4>1. f[j + 1] = share + carry[Rk(j + 1)] - carry[Rk(j + 1) - 1]
        BY <2>2 DEF SharedOut
      <4>2. Rk(j + 1) - 1 = Rk(j)
        BY <2>0, <2>1, <3>1
      <4> QED BY <3>1, <4>1, <4>2
    <3>6. carry[Rk(j)] \in Nat /\ carry[Rk(j) + 1] \in Nat
      BY <2>0, <2>1
    <3>7. Rk(j) \in Nat /\ Rk(j) * share \in Nat /\ (Rk(j) + 1) * share = Rk(j) * share + share
      BY <2>0, <2>1
    <3>8. Total(f, Upto(S, j)) = Rk(j) * share + carry[Rk(j)]
      BY <1>2
    <3>9. Total(f, Upto(S, j + 1)) = (Rk(j) + 1) * share + carry[Rk(j) + 1]
      <4>1. Total(f, Upto(S, j + 1)) = (Rk(j) * share + carry[Rk(j)]) + f[j + 1]
        BY <3>1, <3>3, <3>4, <3>8
      <4> DEFINE r == Rk(j)  t == Rk(j) * share
      <4>2. r \in Nat /\ t \in Nat /\ (r + 1) * share = t + share /\ f[j + 1] \in Nat
        BY <3>4, <3>7
      <4>3. f[j + 1] = share + carry[r + 1] - carry[r]
        BY <3>5
      <4>4. carry[r] \in Nat /\ carry[r + 1] \in Nat
        BY <3>6
      <4>5. Total(f, Upto(S, j + 1)) = (t + carry[r]) + f[j + 1]
        BY <4>1
      <4> DEFINE before == carry[r]  after == carry[r + 1]  last == f[j + 1]
                 more == (r + 1) * share  all == Total(f, Upto(S, j + 1))
      <4>6. /\ t \in Nat /\ more = t + share /\ before \in Nat /\ after \in Nat
            /\ last = share + after - before /\ all = (t + before) + last
        BY <4>2, <4>3, <4>4, <4>5
      <4> HIDE DEF r, t, Rk, before, after, last, more, all
      <4>7. all = more + after
        BY <4>6
      <4> QED BY <4>7 DEF all, more, after, r
    <3> QED BY <3>1, <3>9
  <2>3. CASE j + 1 \notin S
    <3>1. Upto(S, j + 1) = Upto(S, j)
      BY <2>3, <2>4 DEF Grown
    <3> QED BY <1>2, <3>1
  <2> QED BY <2>2, <2>3
<1>3. Wrong = {}
  <2> SUFFICES ASSUME Wrong # {} PROVE FALSE
    OBVIOUS
  <2>1. Wrong \in SUBSET Nat
    OBVIOUS
  <2>2. PICK k \in Wrong : \A m \in Wrong : k <= m
    <3> HIDE DEF Wrong
    <3> QED BY <2>1, LeastNumber
  <2>3. k \in 0 .. n /\ ~Holds(k)
    OBVIOUS
  <2> HIDE DEF Holds
  <2>4. k # 0
    BY <1>1, <2>3
  <2>5. k - 1 \in 0 .. n - 1 /\ k - 1 \in 0 .. n /\ (k - 1) + 1 = k /\ ~ (k <= k - 1)
    BY <2>3, <2>4 DEF Grown
  <2>6. Holds(k - 1)
    BY <2>2, <2>5
  <2>7. Holds((k - 1) + 1)
    BY <1>2, <2>5, <2>6
  <2> QED BY <2>3, <2>5, <2>7
<1>4. Holds(n)
  <2> HIDE DEF Holds
  <2>1. n \in 0 .. n /\ n \notin Wrong
    BY <1>3
  <2> QED BY <2>1
<1>5. Upto(S, n) = S
  BY UptoEnds
<1> QED BY <1>4, <1>5

\* Two numbers at most a divisor apart: the quotients are at most one apart.
LEMMA QuotientStep ==
    ASSUME NEW n \in Nat \ {0}, NEW lo \in Nat, NEW hi \in Nat, lo <= hi, hi <= lo + n
    PROVE  (hi \div n) - (lo \div n) \in {0, 1}
<1> DEFINE p == lo \div n
           q == hi \div n
<1>1. p \in Nat /\ n * p <= lo /\ lo < n * p + n
  BY DivisionBounds
<1>2. q \in Nat /\ n * q <= hi /\ hi < n * q + n
  BY DivisionBounds
<1> HIDE DEF p, q
<1>3. p <= q
  <2> SUFFICES ASSUME q + 1 <= p PROVE FALSE
    BY <1>1, <1>2
  <2>1. n * (q + 1) <= n * p /\ n * p \in Nat
    BY <1>1, <1>2, ProductGrows
  <2>2. n * (q + 1) = n * q + n /\ n * q \in Nat
    BY <1>2
  <2> QED BY <1>1, <1>2, <2>1, <2>2
<1>4. q <= p + 1
  <2> SUFFICES ASSUME p + 2 <= q PROVE FALSE
    BY <1>1, <1>2
  <2>1. n * (p + 2) <= n * q /\ n * q \in Nat
    BY <1>1, <1>2, ProductGrows
  <2>2. n * (p + 2) = n * p + n + n /\ n * p \in Nat
    BY <1>1
  <2> QED BY <1>1, <1>2, <2>1, <2>2
<1>5. q - p \in {0, 1}
  BY <1>1, <1>2, <1>3, <1>4
<1> QED BY <1>5 DEF p, q

-----------------------------------------------------------------------------
(* The invariant *)

Expanding == {i \in Indices : box.children[i].expand}
Mins      == [i \in Indices |-> MinSize(i)]

BoxTypeOK ==
    /\ box \in Boxes
    /\ phase \in {"measure", "refit", "place", "done"}
    /\ stretching \in SUBSET Expanding
    /\ avail \in Nat
    /\ final \in [Indices -> Nat]

\* While the loop runs everybody has the minimum, and what may be given out is
\* enough for the minimum of those who stretch and is what the others leave.
Refitting ==
    phase = "refit" =>
        /\ final = Mins
        /\ avail >= MinTotal(stretching)
        /\ avail + MinTotal(Indices \ stretching) = MinTotal(Indices) + Spare

\* Whoever was taken out would not fit a share now either, and the loop never
\* takes out the last.
Removed ==
    phase # "measure" =>
        /\ \A j \in Expanding \ stretching : avail < MinSize(j) * Cardinality(stretching)
        /\ HasStretched => stretching # {}

\* What the boxes are laid out from.
Shared ==
    phase \in {"place", "done"} =>
        /\ \A i \in Indices : final[i] >= MinSize(i)
        /\ Total(final, Indices) <= MinTotal(Indices) + Spare
        /\ ~HasStretched => Total(final, Indices) = MinTotal(Indices)
        /\ SpaceUsed
        /\ SharesAreFair

BoxInvariant == /\ BoxTypeOK /\ Refitting /\ Removed /\ Shared
                /\ Laid => BoxesApart

-----------------------------------------------------------------------------
(* What is carried *)

\* The fractions of one more share amount to one pixel or none.
LEMMA CarryStep ==
    ASSUME NEW n \in Nat \ {0}, NEW rest \in 1 .. n - 1, NEW k \in 1 .. n,
           NEW a \in {0, 1}, NEW b \in {0, 1}, k = 1 => b = 0
    PROVE  /\ (k * rest - a) \div n \in Nat
           /\ ((k - 1) * rest - b) \div n \in Nat
           /\ ((k * rest - a) \div n) - (((k - 1) * rest - b) \div n) \in {0, 1}
<1> DEFINE m  == (k - 1) * rest
           lo == m - b
           hi == k * rest - a
<1>1. k \in Nat /\ rest \in Nat /\ k - 1 \in Nat /\ rest >= 1 /\ rest <= n - 1 /\ n \in Nat
  OBVIOUS
<1>2. m \in Nat /\ k * rest = m + rest
  <2>1. (k - 1) * rest \in Nat /\ k * rest = (k - 1) * rest + rest
    BY <1>1
  <2> QED BY <2>1
<1>3. k # 1 => m >= rest
  <2>1. k # 1 => 1 <= k - 1
    BY <1>1
  <2>2. k # 1 => 1 * rest <= (k - 1) * rest
    BY <1>1, <2>1, ProductGrows
  <2> QED BY <1>1, <2>2
<1>4. hi = m + rest - a
  BY <1>2
<1> HIDE DEF m
<1>5. a \in Nat /\ a <= 1 /\ b \in Nat /\ b <= 1
  OBVIOUS
<1>6. lo \in Nat
  <2>1. CASE k = 1
    BY <1>2, <2>1
  <2>2. CASE k # 1
    BY <1>1, <1>2, <1>3, <1>5, <2>2
  <2> QED BY <2>1, <2>2
<1>7. hi \in Nat /\ lo <= hi /\ hi <= lo + n
  <2> HIDE DEF hi
  <2> QED BY <1>1, <1>2, <1>4, <1>5
<1> HIDE DEF lo, hi
<1>8. lo \div n \in Nat /\ hi \div n \in Nat /\ (hi \div n) - (lo \div n) \in {0, 1}
  BY <1>6, <1>7, DivisionBounds, QuotientStep
<1> QED BY <1>8 DEF m, lo, hi

\* All the fractions together are the rest, or one pixel less where the last
\* falls short.
LEMMA CarryEnd ==
    ASSUME NEW n \in Nat \ {0}, NEW rest \in 1 .. n - 1
    PROVE  /\ (n * rest) \div n = rest
           /\ (n * rest - 1) \div n = rest - 1
<1>1. n \in Nat /\ rest \in Nat /\ rest - 1 \in Nat /\ n * rest \in Nat /\ n >= 1 /\ n - 1 \in Nat
  OBVIOUS
<1>2. n * rest = n * (rest - 1) + n /\ n * (rest - 1) \in Nat
  BY <1>1
<1>3. ASSUME NEW p \in Nat, NEW r \in 0 .. n - 1
      PROVE  (n * p + r) \div n = p
  <2> DEFINE t == n * p + r  q == t \div n
  <2>1. n * p \in Nat /\ n * q = n * q
    OBVIOUS
  <2>2. t \in Nat
    BY <2>1
  <2>3. q \in Nat /\ n * q <= t /\ t < n * q + n
    <3> HIDE DEF t
    <3> QED BY <2>2, DivisionBounds
  <2> HIDE DEF q
  <2>4. q <= p
    <3> SUFFICES ASSUME p + 1 <= q PROVE FALSE
      BY <2>3
    <3>1. n * (p + 1) <= n * q /\ n * q \in Nat
      BY <1>1, <2>3, ProductGrows
    <3>2. n * (p + 1) = n * p + n
      OBVIOUS
    <3> QED BY <2>1, <2>3, <3>1, <3>2
  <2>5. p <= q
    <3> SUFFICES ASSUME q + 1 <= p PROVE FALSE
      BY <2>3
    <3>1. n * (q + 1) <= n * p /\ n * q \in Nat
      BY <1>1, <2>3, ProductGrows
    <3>2. n * (q + 1) = n * q + n
      BY <2>3
    <3> QED BY <2>1, <2>3, <3>1, <3>2
  <2>6. q = p
    BY <2>3, <2>4, <2>5
  <2> QED BY <2>6 DEF q
<1>4. (n * rest + 0) \div n = rest
  BY <1>1, <1>3
<1>5. (n * (rest - 1) + (n - 1)) \div n = rest - 1
  BY <1>1, <1>3
<1>6. n * rest + 0 = n * rest /\ n * (rest - 1) + (n - 1) = n * rest - 1
  BY <1>1, <1>2
<1> QED BY <1>4, <1>5, <1>6

LEMMA CarriedFacts ==
    ASSUME NEW n \in Nat \ {0}, n = Cardinality(stretching), avail \in Nat,
           NEW missed \in SUBSET (1 .. n)
    PROVE  /\ Carried(0, missed) = 0
           /\ \A k \in 0 .. n : Carried(k, missed) \in Nat
           /\ \A k \in 1 .. n : Carried(k, missed) - Carried(k - 1, missed) \in {0, 1}
           /\ n * (avail \div n) + Carried(n, missed) \in {avail - 1, avail}
           /\ missed = {} => n * (avail \div n) + Carried(n, missed) = avail
<1> DEFINE rest == avail % n
           short(k) == IF k \in missed THEN 1 ELSE 0
<1>1. /\ avail \div n \in Nat /\ rest \in 0 .. n - 1
      /\ avail = n * (avail \div n) + rest
  BY DivisionSplits
<1>2. \A k : short(k) \in {0, 1}
  OBVIOUS
<1>3. Carried(0, missed) = 0
  BY DEF Carried
<1>4. CASE rest = 0
  <2>1. \A k : Carried(k, missed) = 0
    BY <1>4 DEF Carried
  <2> HIDE DEF rest
  <2>2. n * (avail \div n) \in Nat
    <3> DEFINE q == avail \div n
    <3>1. q \in Nat
      BY <1>1
    <3> HIDE DEF q
    <3>2. n * q \in Nat
      BY <3>1
    <3> QED BY <3>2 DEF q
  <2>3. n * (avail \div n) = avail
    BY <1>1, <1>4, <2>2
  <2> QED BY <1>3, <2>1, <2>3
<1>5. CASE rest # 0
  <2>1. rest \in 1 .. n - 1
    <3> HIDE DEF rest
    <3> QED BY <1>1, <1>5
  <2>2. \A k \in 1 .. n : Carried(k, missed) = (k * rest - short(k)) \div n
    BY <1>5 DEF Carried
  <2>3. ASSUME NEW k \in 1 .. n
        PROVE  Carried(k, missed) \in Nat /\ Carried(k, missed) - Carried(k - 1, missed) \in {0, 1}
    <3> HIDE DEF rest, short
    <3> DEFINE b == IF k = 1 THEN 0 ELSE short(k - 1)
    <3>1. b \in {0, 1} /\ short(k) \in {0, 1} /\ (k = 1 => b = 0)
      BY <1>2
    <3>2. Carried(k - 1, missed) = ((k - 1) * rest - b) \div n
      <4>1. CASE k = 1
        <5>1. (k - 1) * rest - b = 0 /\ 0 \div n = 0
          BY <2>1, <4>1
        <5>2. k - 1 = 0
          BY <4>1
        <5> QED BY <1>3, <5>1, <5>2
      <4>2. CASE k # 1
        <5>1. k - 1 \in 1 .. n
          BY <4>2
        <5> QED BY <2>2, <4>2, <5>1
      <4> QED BY <4>1, <4>2
    <3>3. Carried(k, missed) = (k * rest - short(k)) \div n
      BY <2>2
    <3> HIDE DEF b
    <3>4. /\ (k * rest - short(k)) \div n \in Nat
          /\ ((k * rest - short(k)) \div n) - (((k - 1) * rest - b) \div n) \in {0, 1}
      BY <2>1, <3>1, CarryStep
    <3> QED BY <3>2, <3>3, <3>4
  <2>4. n \in 1 .. n /\ short(n) \in {0, 1} /\ (missed = {} => short(n) = 0)
    OBVIOUS
  <2> HIDE DEF rest, short
  <2>5. /\ Carried(n, missed) \in {rest - 1, rest}
        /\ missed = {} => Carried(n, missed) = rest
    <3>1. Carried(n, missed) = (n * rest - short(n)) \div n
      BY <2>2, <2>4
    <3>2. (n * rest) \div n = rest /\ (n * rest - 1) \div n = rest - 1
      BY <2>1, CarryEnd
    <3>3. n * rest - 0 = n * rest
      BY <2>1
    <3> QED BY <2>4, <3>1, <3>2, <3>3
  <2>6. /\ n * (avail \div n) + Carried(n, missed) \in {avail - 1, avail}
        /\ missed = {} => n * (avail \div n) + Carried(n, missed) = avail
    <3> DEFINE t == n * (avail \div n)
    <3>1. t \in Nat /\ avail = t + rest /\ rest \in Nat
      BY <1>1, <2>1
    <3> HIDE DEF t
    <3>2. /\ t + Carried(n, missed) \in {avail - 1, avail}
          /\ missed = {} => t + Carried(n, missed) = avail
      BY <2>5, <3>1
    <3> QED BY <3>2 DEF t
  <2>7. \A k \in 0 .. n : Carried(k, missed) \in Nat
    <3>1. \A k \in 0 .. n : k = 0 \/ k \in 1 .. n
      OBVIOUS
    <3> QED BY <1>3, <2>3, <3>1
  <2> QED BY <1>3, <2>3, <2>6, <2>7
<1> QED BY <1>4, <1>5

-----------------------------------------------------------------------------
(* The steps *)

LEMMA BoxShape ==
    ASSUME BoxTypeOK
    PROVE  \E n \in Nat : /\ Indices = 1 .. n
                          /\ Mins \in [1 .. n -> Nat]
                          /\ \A i \in 1 .. n : MinSize(i) \in Nat /\ Mins[i] = MinSize(i)
                          /\ final \in [1 .. n -> Nat]
                          /\ Expanding \in SUBSET (1 .. n)
                          /\ stretching \in SUBSET (1 .. n)
<1>1. PICK n \in 0 .. MaxChildren : box.children \in [1 .. n -> Child]
  <2>1. box.children \in UNION {[1 .. n -> Child] : n \in 0 .. MaxChildren}
    BY DEF BoxTypeOK, Boxes
  <2> QED BY <2>1
<1>2. n \in Nat /\ Indices = 1 .. n
  BY <1>1, BoxAssumption DEF Indices
<1>3. \A i \in 1 .. n : MinSize(i) \in Nat
  <2> SUFFICES ASSUME NEW i \in 1 .. n PROVE MinSize(i) \in Nat
    OBVIOUS
  <2>1. box.children[i] \in Child
    BY <1>1
  <2>2. box.children[i].min \in MinSizes
    BY <2>1 DEF Child
  <2> QED BY <2>2, BoxAssumption DEF MinSize
<1>4. Mins \in [1 .. n -> Nat] /\ \A i \in 1 .. n : Mins[i] = MinSize(i)
  BY <1>2, <1>3 DEF Mins
<1>5. final \in [1 .. n -> Nat] /\ Expanding \in SUBSET (1 .. n) /\ stretching \in SUBSET (1 .. n)
  BY <1>2 DEF BoxTypeOK, Expanding
<1> QED BY <1>2, <1>3, <1>4, <1>5

LEMMA MinTotalIs == \A I : MinTotal(I) = Total(Mins, I)
BY DEF MinTotal, Mins

LEMMA Lengths ==
    ASSUME BoxTypeOK
    PROVE  /\ MinTotal(Indices) \in Nat /\ Length \in Nat /\ Spare \in Nat
           /\ HasRoom => Length = MinTotal(Indices) + Spare
           /\ ~HasRoom => Spare = 0
<1>1. PICK n \in Nat : Indices = 1 .. n /\ Mins \in [1 .. n -> Nat]
  BY BoxShape
<1>2. MinTotal(Indices) \in Nat
  <2>1. Indices \in SUBSET (1 .. n)
    BY <1>1
  <2> QED BY <1>1, <2>1, PixelsFinite, MinTotalIs
<1>3. Length \in Nat
  <2>1. box.set \in Nat
    BY BoxAssumption DEF BoxTypeOK, Boxes
  <2> QED BY <1>2, <2>1 DEF Length
<1> QED BY <1>2, <1>3 DEF Spare, HasRoom

LEMMA MeasureStep ==
    ASSUME BoxInvariant, Measure
    PROVE  BoxTypeOK' /\ Refitting' /\ Removed'
<1>1. /\ BoxTypeOK /\ phase' = "refit" /\ box' = box
      /\ stretching' = Expanding /\ final' = Mins
  BY DEF BoxInvariant, Measure, Expanding, Mins
<1>2. avail' = MinTotal(Expanding) + Spare
  BY DEF Measure, Expanding
<1>3. /\ Indices' = Indices /\ Mins' = Mins /\ Expanding' = Expanding
      /\ Spare' = Spare /\ HasStretched' = HasStretched
      /\ \A I : MinTotal(I)' = MinTotal(I)
  BY <1>1 DEF Indices, Mins, Expanding, Spare, Length, MinTotal, HasStretched, MinSize
<1>4. PICK n \in Nat : /\ Indices = 1 .. n /\ Mins \in [1 .. n -> Nat]
                       /\ Expanding \in SUBSET (1 .. n)
  BY <1>1, BoxShape
<1>5. /\ MinTotal(Expanding) \in Nat /\ MinTotal(Indices \ Expanding) \in Nat
      /\ MinTotal(Indices) = MinTotal(Expanding) + MinTotal(Indices \ Expanding)
  <2> DEFINE J == Indices \ Expanding
  <2>1. J \in SUBSET (1 .. n) /\ Expanding \cap J = {} /\ Expanding \cup J = Indices
    BY <1>4
  <2> HIDE DEF J
  <2>2. Total(Mins, Expanding \cup J) = Total(Mins, Expanding) + Total(Mins, J)
    BY <1>4, <2>1, TotalOfBoth
  <2>3. Total(Mins, Expanding) \in Nat /\ Total(Mins, J) \in Nat
    BY <1>4, <2>1, PixelsFinite
  <2> QED BY <2>1, <2>2, <2>3, MinTotalIs DEF J
<1>6. Spare \in Nat
  BY <1>1, Lengths
<1>7. BoxTypeOK'
  <2>1. box' \in Boxes
    BY <1>1 DEF BoxTypeOK
  <2>2. final' \in [Indices' -> Nat]
    BY <1>1, <1>3, <1>4
  <2>3. avail' \in Nat
    BY <1>2, <1>5, <1>6
  <2> QED BY <1>1, <1>3, <2>1, <2>2, <2>3 DEF BoxTypeOK
<1>8. Refitting'
  BY <1>1, <1>2, <1>3, <1>5, <1>6 DEF Refitting
<1>9. Removed'
  BY <1>1, <1>3 DEF Removed, Expanding, HasStretched
<1> QED BY <1>7, <1>8, <1>9

\* What was too little for j among m, and for the one taken out, is too little for
\* j among the others.
LEMMA StillTooLittle ==
    ASSUME NEW a \in Nat, NEW m \in Nat \ {0}, NEW p \in Nat, NEW q \in Nat,
           a < p * m, a < q * m
    PROVE  a - p < q * (m - 1)
<1>1. /\ m - 1 \in Nat /\ p * m = p * (m - 1) + p /\ q * m = q * (m - 1) + q
      /\ p * (m - 1) \in Nat /\ q * (m - 1) \in Nat
  OBVIOUS
<1>2. CASE q <= p
  BY <1>1, <1>2
<1>3. CASE p <= q
  <2>1. p * (m - 1) <= q * (m - 1)
    BY <1>1, <1>3, ProductGrows
  <2> QED BY <1>1, <2>1
<1> QED BY <1>2, <1>3

LEMMA RefitStep ==
    ASSUME BoxInvariant, Refit
    PROVE  BoxTypeOK' /\ Refitting' /\ Removed'
<1> DEFINE k == Cardinality(stretching)
<1>1. /\ BoxTypeOK /\ phase = "refit" /\ phase' = "refit" /\ box' = box
      /\ final = Mins /\ avail \in Nat
      /\ avail >= MinTotal(stretching)
      /\ avail + MinTotal(Indices \ stretching) = MinTotal(Indices) + Spare
      /\ \A j \in Expanding \ stretching : avail < MinSize(j) * k
  BY DEF BoxInvariant, Refit, BoxTypeOK, Refitting, Removed
<1>2. PICK n \in Nat : /\ Indices = 1 .. n /\ Mins \in [1 .. n -> Nat]
                       /\ \A i \in 1 .. n : MinSize(i) \in Nat /\ Mins[i] = MinSize(i)
                       /\ Expanding \in SUBSET (1 .. n)
                       /\ stretching \in SUBSET (1 .. n)
  BY <1>1, BoxShape
<1>3. PICK i \in stretching :
        /\ avail < MinSize(i) * k
        /\ stretching' = stretching \ {i}
        /\ avail' = avail - MinSize(i)
        /\ final' = [final EXCEPT ![i] = MinSize(i)]
  <2>1. TooBig # {}
    BY DEF Refit
  <2>2. TooBig \in SUBSET Nat
    <3>1. stretching \in SUBSET Nat
      BY <1>2
    <3> QED BY <3>1 DEF TooBig
  <2>3. Min(TooBig) \in TooBig
    BY <2>1, <2>2, LeastIsMin
  <2>4. \A i \in TooBig : i \in stretching /\ MinSize(i) * k > avail
    BY DEF TooBig
  <2>5. /\ Min(TooBig) \in stretching
        /\ MinSize(Min(TooBig)) * k > avail
    BY <2>3, <2>4
  <2>6. k \in Nat /\ MinSize(Min(TooBig)) \in Nat
    BY <1>2, <2>5, PixelsFinite, FS_CardinalityType
  <2>7. avail < MinSize(Min(TooBig)) * k
    <3> DEFINE t == MinSize(Min(TooBig)) * k
    <3>1. t \in Nat /\ t > avail
      BY <2>5, <2>6
    <3> HIDE DEF t
    <3>2. avail < t
      BY <1>1, <3>1
    <3> QED BY <3>2 DEF t
  <2> QED BY <2>5, <2>7 DEF Refit
<1>4. /\ Indices' = Indices /\ Mins' = Mins /\ Expanding' = Expanding
      /\ Spare' = Spare /\ HasStretched' = HasStretched
      /\ \A I : MinTotal(I)' = MinTotal(I)
      /\ \A j : MinSize(j)' = MinSize(j)
  BY <1>1 DEF Indices, Mins, Expanding, Spare, Length, MinTotal, HasStretched, MinSize
<1>5. IsFiniteSet(stretching) /\ k \in Nat /\ k # 0 /\ k - 1 \in Nat
      /\ Cardinality(stretching') = k - 1
  <2>1. IsFiniteSet(stretching) /\ k \in Nat
    BY <1>2, PixelsFinite, FS_CardinalityType
  <2>2. k # 0
    BY <1>3, <2>1, FS_EmptySet
  <2>3. Cardinality(stretching') = k - 1
    BY <1>3, <2>1, FS_RemoveElement
  <2> QED BY <2>1, <2>2, <2>3
<1>6. i \in 1 .. n /\ MinSize(i) \in Nat /\ Mins[i] = MinSize(i)
  BY <1>2, <1>3
<1>7. /\ MinTotal(stretching) = MinTotal(stretching') + MinSize(i)
      /\ MinTotal(stretching') \in Nat
  <2>1. Total(Mins, stretching) = Total(Mins, stretching \ {i}) + Mins[i]
    BY <1>2, <1>3, TotalWithout
  <2>2. Total(Mins, stretching \ {i}) \in Nat
    <3>1. stretching \ {i} \in SUBSET (1 .. n)
      BY <1>2
    <3> QED BY <1>2, <3>1, PixelsFinite
  <2> QED BY <1>3, <1>6, <2>1, <2>2, MinTotalIs
<1>8. /\ MinTotal(Indices \ stretching') = MinTotal(Indices \ stretching) + MinSize(i)
      /\ MinTotal(Indices \ stretching) \in Nat
  <2> DEFINE J == Indices \ stretching
  <2>1. J \in SUBSET (1 .. n) /\ i \notin J /\ Indices \ stretching' = J \cup {i}
    BY <1>2, <1>3
  <2> HIDE DEF J
  <2>2. Total(Mins, J \cup {i}) = Total(Mins, J) + Mins[i]
    BY <1>2, <1>6, <2>1, TotalWith
  <2>3. Total(Mins, J) \in Nat
    BY <1>2, <2>1, PixelsFinite
  <2> QED BY <1>6, <2>1, <2>2, <2>3, MinTotalIs DEF J
<1>9. avail' \in Nat /\ avail' >= MinTotal(stretching')
  BY <1>1, <1>3, <1>6, <1>7
<1>10. final' = Mins
  <2>1. final \in [1 .. n -> Nat] /\ MinSize(i) = final[i]
    BY <1>1, <1>2, <1>6
  <2>2. [final EXCEPT ![i] = final[i]] = final
    BY <2>1
  <2> QED BY <1>1, <1>3, <2>1, <2>2
<1>11. BoxTypeOK'
  <2>1. box' \in Boxes /\ stretching' \in SUBSET Expanding
    BY <1>1, <1>3 DEF BoxTypeOK
  <2>2. final' \in [Indices' -> Nat]
    BY <1>2, <1>4, <1>10
  <2> QED BY <1>1, <1>4, <1>9, <2>1, <2>2 DEF BoxTypeOK
<1>12. Refitting'
  <2>1. MinTotal(Indices) \in Nat /\ Spare \in Nat
    BY <1>1, Lengths
  <2>2. avail' + MinTotal(Indices \ stretching') = MinTotal(Indices) + Spare
    BY <1>1, <1>3, <1>6, <1>8, <2>1
  <2> QED BY <1>4, <1>9, <1>10, <2>2 DEF Refitting
<1>13. \A j \in Expanding \ stretching' : avail' < MinSize(j) * (k - 1)
  <2> SUFFICES ASSUME NEW j \in Expanding \ stretching'
               PROVE  avail - MinSize(i) < MinSize(j) * (k - 1)
    BY <1>3
  <2>1. MinSize(j) \in Nat /\ avail < MinSize(j) * k
    BY <1>1, <1>2, <1>3
  <2> QED BY <1>1, <1>3, <1>5, <1>6, <2>1, StillTooLittle
<1>14. stretching' # {}
  <2> SUFFICES ASSUME stretching' = {} PROVE FALSE
    OBVIOUS
  <2>1. k = 1
    BY <1>5, FS_EmptySet
  <2>2. MinTotal(stretching') = 0
    BY TotalOfNone, MinTotalIs
  <2>3. avail < MinSize(i)
    <3> HIDE DEF k
    <3>1. MinSize(i) * 1 = MinSize(i)
      BY <1>6
    <3> QED BY <1>3, <2>1, <3>1
  <2> QED BY <1>1, <1>6, <1>7, <2>2, <2>3
<1>15. Removed'
  BY <1>4, <1>5, <1>13, <1>14 DEF Removed
<1> QED BY <1>11, <1>12, <1>15

\* A quotient and what fits a share.
LEMMA ShareBounds ==
    ASSUME NEW a \in Nat, NEW m \in Nat \ {0}, NEW p \in Nat
    PROVE  /\ ~ (p * m > a) => p <= a \div m
           /\ a < p * m => (a \div m) + 1 <= p
<1> DEFINE q == a \div m
<1>1. q \in Nat /\ m * q <= a /\ a < m * q + m
  BY DivisionBounds
<1> HIDE DEF q
<1>2. m * q \in Nat /\ m * (q + 1) = m * q + m /\ m * p \in Nat /\ p * m = m * p
  BY <1>1
<1>3. ASSUME ~ (p * m > a), q + 1 <= p PROVE FALSE
  <2>1. m * (q + 1) <= m * p
    BY <1>1, <1>3, ProductGrows
  <2>2. m * p <= a
    BY <1>2, <1>3
  <2> QED BY <1>1, <1>2, <2>1, <2>2
<1>4. ASSUME a < p * m, p <= q PROVE FALSE
  <2>1. m * p <= m * q
    BY <1>1, <1>4, ProductGrows
  <2>2. a < m * p
    BY <1>2, <1>4
  <2> QED BY <1>1, <1>2, <2>1, <2>2
<1>5. /\ ~ (p * m > a) => p <= q
      /\ a < p * m => q + 1 <= p
  BY <1>1, <1>3, <1>4
<1> QED BY <1>5 DEF q

\* The size a pass that succeeds gives to a child.
Settled(missed) ==
    [i \in Indices |->
       IF i \in stretching
       THEN avail \div Cardinality(stretching)
            + Carried(Rank(i), missed) - Carried(Rank(i) - 1, missed)
       ELSE final[i]]

LEMMA RankBounds ==
    ASSUME BoxTypeOK, NEW i \in stretching
    PROVE  /\ Rank(i) = Cardinality(Upto(stretching, i))
           /\ Rank(i) \in 1 .. Cardinality(stretching)
<1>1. PICK n \in Nat : Indices = 1 .. n /\ stretching \in SUBSET (1 .. n)
  BY BoxShape
<1>2. IsFiniteSet(stretching) /\ Cardinality(stretching) \in Nat
  BY <1>1, PixelsFinite, BoxShape, FS_CardinalityType
<1>3. Rank(i) = Cardinality(Upto(stretching, i))
  BY DEF Rank, Upto
<1>4. Upto(stretching, i) \in SUBSET stretching /\ i \in Upto(stretching, i)
  BY <1>1 DEF Upto
<1>5. IsFiniteSet(Upto(stretching, i)) /\ Rank(i) <= Cardinality(stretching)
  BY <1>2, <1>3, <1>4, FS_Subset
<1>6. Rank(i) \in Nat /\ Rank(i) # 0
  BY <1>3, <1>4, <1>5, FS_CardinalityType, FS_EmptySet
<1> QED BY <1>2, <1>3, <1>5, <1>6

LEMMA SharesSettle ==
    ASSUME BoxTypeOK, Refitting, phase = "refit", stretching # {},
           NEW missed \in SUBSET (1 .. Cardinality(stretching))
    PROVE  LET share == avail \div Cardinality(stretching) IN
           /\ share \in Nat
           /\ Settled(missed) \in [Indices -> Nat]
           /\ \A i \in stretching : Settled(missed)[i] \in {share, share + 1}
           /\ \A i \in Indices \ stretching : Settled(missed)[i] = MinSize(i)
           /\ Total(Settled(missed), stretching) \in {avail - 1, avail}
           /\ missed = {} => Total(Settled(missed), stretching) = avail
<1> DEFINE S     == stretching
           k     == Cardinality(S)
           share == avail \div k
           f     == Settled(missed)
<1>1. PICK n \in Nat : /\ Indices = 1 .. n
                       /\ \A i \in 1 .. n : MinSize(i) \in Nat /\ Mins[i] = MinSize(i)
                       /\ S \in SUBSET (1 .. n)
                       /\ final \in [1 .. n -> Nat]
  BY BoxShape
<1>2. IsFiniteSet(S) /\ k \in Nat \ {0} /\ k <= n
  <2>1. IsFiniteSet(1 .. n) /\ Cardinality(1 .. n) = n
    BY FS_Interval
  <2>2. IsFiniteSet(S) /\ k <= n
    BY <1>1, <2>1, FS_Subset
  <2> QED BY <2>2, FS_CardinalityType, FS_EmptySet
<1>3. avail \in Nat /\ final = Mins
  BY DEF BoxTypeOK, Refitting
<1>4. /\ Carried(0, missed) = 0
      /\ \A j \in 0 .. k : Carried(j, missed) \in Nat
      /\ \A j \in 1 .. k : Carried(j, missed) - Carried(j - 1, missed) \in {0, 1}
      /\ k * share + Carried(k, missed) \in {avail - 1, avail}
      /\ missed = {} => k * share + Carried(k, missed) = avail
  BY <1>2, <1>3, CarriedFacts
<1>5. share \in Nat
  BY <1>2, <1>3, DivisionBounds
<1>6. \A i \in S : f[i] = share + Carried(Rank(i), missed) - Carried(Rank(i) - 1, missed)
  BY <1>1 DEF Settled
<1>7. \A i \in Indices \ S : f[i] = MinSize(i)
  BY <1>1, <1>3 DEF Settled
<1> HIDE DEF share
<1>8. \A i \in S : f[i] \in {share, share + 1}
  <2> SUFFICES ASSUME NEW i \in S PROVE f[i] \in {share, share + 1}
    OBVIOUS
  <2> DEFINE after == Carried(Rank(i), missed)
             before == Carried(Rank(i) - 1, missed)
  <2>1. Rank(i) \in 1 .. k
    BY RankBounds
  <2>2. Rank(i) \in 0 .. k /\ Rank(i) - 1 \in 0 .. k
    BY <1>2, <2>1
  <2>3. after \in Nat /\ before \in Nat /\ after - before \in {0, 1}
    BY <1>4, <2>1, <2>2
  <2>4. f[i] = share + after - before
    BY <1>6
  <2> HIDE DEF after, before, f
  <2> QED BY <1>5, <2>3, <2>4
<1>9. f \in [1 .. n -> Nat]
  <2>1. f = [i \in 1 .. n |-> f[i]]
    BY <1>1 DEF Settled
  <2>2. \A i \in 1 .. n : f[i] \in Nat
    <3> HIDE DEF f
    <3> QED BY <1>1, <1>5, <1>7, <1>8
  <2> HIDE DEF f
  <2> QED BY <2>1, <2>2
<1>10. Total(f, S) = k * share + Carried(k, missed)
  <2> DEFINE carry == [j \in 0 .. n |-> IF j <= k THEN Carried(j, missed) ELSE 0]
  <2>1. carry \in [0 .. n -> Nat]
    <3>1. \A j \in 0 .. n : j <= k => j \in 0 .. k
      BY <1>2
    <3> QED BY <1>4, <3>1
  <2>2. \A j \in 0 .. k : carry[j] = Carried(j, missed)
    BY <1>2
  <2>3. carry[0] = 0
    BY <1>2, <1>4, <2>2
  <2>4. SharedOut(f, S, share, carry)
    <3> SUFFICES ASSUME NEW i \in S
                 PROVE  f[i] = share + carry[Cardinality(Upto(S, i))]
                                     - carry[Cardinality(Upto(S, i)) - 1]
      BY DEF SharedOut
    <3>1. Rank(i) = Cardinality(Upto(S, i)) /\ Rank(i) \in 1 .. k
      BY RankBounds
    <3>2. Rank(i) \in 0 .. k /\ Rank(i) - 1 \in 0 .. k
      BY <1>2, <3>1
    <3> HIDE DEF carry, f
    <3> QED BY <1>6, <2>2, <3>1, <3>2
  <2> HIDE DEF carry, f
  <2>5. Total(f, S) = k * share + carry[k]
    BY <1>1, <1>5, <1>9, <2>1, <2>3, <2>4, CarriesCancel
  <2>6. k \in 0 .. k
    BY <1>2
  <2> QED BY <2>2, <2>5, <2>6
<1> HIDE DEF f
<1>11. /\ Total(f, S) \in {avail - 1, avail}
       /\ missed = {} => Total(f, S) = avail
  BY <1>4, <1>10
<1>12. f \in [Indices -> Nat]
  BY <1>1, <1>9
<1> QED BY <1>5, <1>7, <1>8, <1>11, <1>12 DEF share, f

LEMMA SettleStep ==
    ASSUME BoxInvariant, Settle
    PROVE  BoxTypeOK' /\ Removed' /\ Shared'
<1> DEFINE k     == Cardinality(stretching)
           share == avail \div k
<1>1. /\ BoxTypeOK /\ Refitting /\ Removed /\ phase = "refit" /\ TooBig = {}
      /\ phase' = "place" /\ box' = box /\ stretching' = stretching /\ avail' = avail
  BY DEF BoxInvariant, Settle
<1>2. PICK n \in Nat : /\ Indices = 1 .. n
                       /\ Mins \in [1 .. n -> Nat]
                       /\ \A i \in 1 .. n : MinSize(i) \in Nat /\ Mins[i] = MinSize(i)
                       /\ final \in [1 .. n -> Nat]
                       /\ Expanding \in SUBSET (1 .. n)
                       /\ stretching \in SUBSET (1 .. n)
  BY <1>1, BoxShape
<1>3. PICK missed \in SUBSET (1 .. k) :
        /\ Exact(k) => missed = {}
        /\ final' = Settled(missed)
  BY DEF Settle, Settled
<1>4. /\ Indices' = Indices /\ Expanding' = Expanding
      /\ Spare' = Spare /\ HasStretched' = HasStretched /\ Length' = Length
      /\ HasRoom' = HasRoom
      /\ \A I : MinTotal(I)' = MinTotal(I)
      /\ \A j : MinSize(j)' = MinSize(j)
  BY <1>1 DEF Indices, Expanding, Spare, Length, MinTotal, HasStretched, MinSize, HasRoom
<1>5. /\ final = Mins /\ avail \in Nat /\ avail >= MinTotal(stretching)
      /\ avail + MinTotal(Indices \ stretching) = MinTotal(Indices) + Spare
      /\ \A j \in Expanding \ stretching : avail < MinSize(j) * k
      /\ HasStretched => stretching # {}
  BY <1>1 DEF BoxTypeOK, Refitting, Removed
<1>6. /\ MinTotal(Indices) \in Nat /\ Length \in Nat /\ Spare \in Nat
      /\ HasRoom => Length = MinTotal(Indices) + Spare
  BY <1>1, Lengths
<1>7. Removed'
  BY <1>1, <1>4, <1>5 DEF Removed
<1>8. CASE ~HasStretched
  <2>1. Expanding = {} /\ stretching = {}
    BY <1>1, <1>8 DEF HasStretched, Expanding, BoxTypeOK
  <2>2. final' = Mins
    <3>1. Settled(missed) = [i \in Indices |-> final[i]]
      BY <2>1 DEF Settled
    <3> QED BY <1>2, <1>3, <1>5, <3>1
  <2>3. Total(final', Indices) = MinTotal(Indices)
    BY <2>2, MinTotalIs
  <2>4. BoxTypeOK'
    BY <1>1, <1>2, <1>4, <2>2 DEF BoxTypeOK
  <2>5. \A i \in Indices : final'[i] >= MinSize(i)
    BY <1>2, <2>2
  <2>6. (Total(final, Indices))' = MinTotal(Indices)
    <3>1. (Total(final, Indices))' = Total(final', Indices)
      BY <1>4 DEF Total, Pixels
    <3> QED BY <2>3, <3>1
  <2>7. SpaceUsed'
    BY <1>4, <1>8 DEF SpaceUsed
  <2>8. SharesAreFair'
    BY <1>1, <2>1 DEF SharesAreFair
  <2>9. Shared'
    BY <1>4, <1>6, <2>5, <2>6, <2>7, <2>8 DEF Shared
  <2> QED BY <1>7, <2>4, <2>9
<1>9. CASE HasStretched
  <2>1. stretching # {}
    BY <1>5, <1>9
  <2>2. /\ share \in Nat
        /\ final' \in [Indices -> Nat]
        /\ \A i \in stretching : final'[i] \in {share, share + 1}
        /\ \A i \in Indices \ stretching : final'[i] = MinSize(i)
        /\ Total(final', stretching) \in {avail - 1, avail}
        /\ Exact(k) => Total(final', stretching) = avail
    BY <1>1, <1>3, <2>1, SharesSettle
  <2>3. BoxTypeOK'
    BY <1>1, <1>4, <2>2 DEF BoxTypeOK
  <2>4. k \in Nat \ {0}
    BY <1>2, <2>1, PixelsFinite, FS_CardinalityType, FS_EmptySet
  <2>5. \A i \in stretching : MinSize(i) <= share
    <3> SUFFICES ASSUME NEW i \in stretching PROVE MinSize(i) <= share
      OBVIOUS
    <3>1. ~ (MinSize(i) * k > avail)
      BY <1>1 DEF TooBig
    <3>2. MinSize(i) \in Nat
      BY <1>2
    <3> QED BY <1>5, <2>4, <3>1, <3>2, ShareBounds
  <2>6. \A j \in Expanding \ stretching : share + 1 <= MinSize(j)
    <3> SUFFICES ASSUME NEW j \in Expanding \ stretching PROVE share + 1 <= MinSize(j)
      OBVIOUS
    <3>1. avail < MinSize(j) * k /\ MinSize(j) \in Nat
      BY <1>2, <1>5
    <3> QED BY <1>5, <2>4, <3>1, ShareBounds
  <2> HIDE DEF share
  <2>7. \A i \in Indices : final'[i] >= MinSize(i)
    <3> SUFFICES ASSUME NEW i \in Indices PROVE final'[i] >= MinSize(i)
      OBVIOUS
    <3>1. MinSize(i) \in Nat
      BY <1>2
    <3>2. CASE i \in stretching
      <4>1. final'[i] \in {share, share + 1} /\ MinSize(i) <= share
        BY <2>2, <2>5, <3>2
      <4> QED BY <2>2, <3>1, <4>1
    <3>3. CASE i \notin stretching
      BY <2>2, <3>1, <3>3
    <3> QED BY <3>2, <3>3
  <2>8. SharesAreFair'
    <3> SUFFICES ASSUME NEW i \in stretching
                 PROVE  /\ final'[i] >= MinSize(i)
                        /\ \A j \in stretching : final'[i] <= final'[j] + 1
                        /\ \A j \in Indices \ stretching :
                             j \in Expanding => final'[j] = MinSize(j) /\ final'[i] <= final'[j]
      BY <1>1, <1>4 DEF SharesAreFair, Expanding
    <3>1. final'[i] \in {share, share + 1} /\ final'[i] \in Nat
      BY <2>2
    <3>2. \A j \in stretching : final'[i] <= final'[j] + 1
      BY <2>2, <3>1
    <3>3. \A j \in Indices \ stretching :
             j \in Expanding => final'[j] = MinSize(j) /\ final'[i] <= final'[j]
      <4> SUFFICES ASSUME NEW j \in Indices \ stretching, j \in Expanding
                   PROVE  final'[j] = MinSize(j) /\ final'[i] <= final'[j]
        OBVIOUS
      <4>1. share + 1 <= MinSize(j) /\ MinSize(j) \in Nat /\ final'[j] = MinSize(j)
        BY <1>2, <2>2, <2>6
      <4> QED BY <2>2, <3>1, <4>1
    <3>4. final'[i] >= MinSize(i)
      BY <1>2, <2>7
    <3> QED BY <3>2, <3>3, <3>4
  <2>9. /\ Total(final', Indices) \in {MinTotal(Indices) + Spare - 1, MinTotal(Indices) + Spare}
        /\ Exact(k) => Total(final', Indices) = MinTotal(Indices) + Spare
    <3> DEFINE J == Indices \ stretching
    <3>1. J \in SUBSET (1 .. n) /\ stretching \cap J = {} /\ stretching \cup J = Indices
      BY <1>2
    <3>2. final' \in [1 .. n -> Nat]
      BY <1>2, <2>2
    <3>3. Total(final', J) = MinTotal(J)
      <4>1. \A i \in J : final'[i] = Mins[i]
        BY <1>2, <2>2
      <4> QED BY <4>1, TotalOfSame, MinTotalIs
    <3>4. avail + MinTotal(J) = MinTotal(Indices) + Spare
      BY <1>5
    <3> HIDE DEF J
    <3>5. Total(final', stretching \cup J) = Total(final', stretching) + Total(final', J)
      <4>1. PICK g \in [1 .. n -> Nat] : g = final'
        BY <3>2
      <4>2. stretching \in SUBSET (1 .. n)
        BY <1>2
      <4>3. Total(g, stretching \cup J) = Total(g, stretching) + Total(g, J)
        BY <3>1, <4>2, TotalOfBoth
      <4> QED BY <4>1, <4>3
    <3>6. Total(final', stretching) \in Nat /\ Total(final', J) \in Nat
      BY <1>2, <3>1, <3>2, PixelsFinite
    <3>7. /\ Total(final', Indices) = Total(final', stretching) + Total(final', J)
          /\ Total(final', stretching) \in {avail - 1, avail}
          /\ Exact(k) => Total(final', stretching) = avail
      BY <2>2, <3>1, <3>5
    <3> HIDE DEF k
    <3> QED BY <1>5, <1>6, <3>3, <3>4, <3>6, <3>7
  <2>10. (Total(final, Indices))' = Total(final', Indices)
    BY <1>4 DEF Total, Pixels
  <2>11. Total(final', Indices) <= MinTotal(Indices) + Spare
    BY <1>6, <2>9
  <2>12. SpaceUsed'
    <3> SUFFICES ASSUME HasRoom
                 PROVE  /\ stretching # {}
                        /\ Total(final', Indices) \in {Length - 1, Length}
                        /\ Exact(Cardinality(stretching)) => Total(final', Indices) = Length
      BY <1>1, <1>4, <2>10 DEF SpaceUsed, Exact
    <3> QED BY <1>6, <2>1, <2>9
  <2>13. Shared'
    BY <1>4, <1>9, <2>7, <2>8, <2>10, <2>11, <2>12 DEF Shared
  <2> QED BY <1>7, <2>3, <2>13
<1> QED BY <1>8, <1>9

\* A child that is fitted begins where its share begins or later and ends where
\* it ends or earlier.
LEMMA FitStaysInside ==
    ASSUME box \in Boxes, NEW min \in Nat, NEW from \in Nat, NEW size \in Nat, size >= min
    PROVE  LET fit == Fit(min, from, size) IN
           /\ fit.from \in Nat /\ fit.size \in Nat
           /\ from <= fit.from /\ fit.from + fit.size <= from + size
<1>1. box.mode \in SizeModes
  BY DEF Boxes
<1>2. CASE box.mode = "fill"
  BY <1>2 DEF Fit
<1>3. CASE box.mode # "fill"
  <2> DEFINE shift == CASE box.mode = "begin"  -> 0
                        [] box.mode = "center" -> (size - min) \div 2
                        [] box.mode = "end"    -> size - min
  <2>1. shift \in Nat /\ shift + min <= size
    <3>1. size - min \in Nat
      OBVIOUS
    <3>2. (size - min) \div 2 \in Nat /\ (size - min) \div 2 <= size - min
      BY <3>1
    <3>3. CASE box.mode = "begin"
      BY <3>3
    <3>4. CASE box.mode = "center"
      BY <3>2, <3>4
    <3>5. CASE box.mode = "end"
      BY <3>1, <3>5
    <3> QED BY <1>1, <1>3, <3>3, <3>4, <3>5 DEF SizeModes
  <2>2. Fit(min, from, size) = [from |-> from + shift, size |-> min]
    BY <1>3 DEF Fit
  <2> HIDE DEF shift
  <2> QED BY <2>1, <2>2
<1> QED BY <1>2, <1>3

LEMMA PlaceStep ==
    ASSUME BoxInvariant, Place
    PROVE  BoxTypeOK' /\ Removed' /\ Shared' /\ BoxesApart'
<1> DEFINE From(i) == Offset + Total(final, {j \in Indices : j < i})
<1>1. /\ BoxTypeOK /\ Removed /\ Shared /\ phase = "place" /\ phase' = "done"
      /\ box' = box /\ stretching' = stretching /\ avail' = avail /\ final' = final
  BY DEF BoxInvariant, Place
<1>2. PICK n \in Nat : /\ Indices = 1 .. n
                       /\ \A i \in 1 .. n : MinSize(i) \in Nat
                       /\ final \in [1 .. n -> Nat]
  BY <1>1, BoxShape
<1>3. /\ Indices' = Indices /\ Expanding' = Expanding
      /\ Spare' = Spare /\ HasStretched' = HasStretched /\ Length' = Length
      /\ HasRoom' = HasRoom
      /\ \A I : MinTotal(I)' = MinTotal(I)
      /\ \A j : MinSize(j)' = MinSize(j)
  BY <1>1 DEF Indices, Expanding, Spare, Length, MinTotal, HasStretched, MinSize, HasRoom
<1>4. BoxTypeOK'
  BY <1>1, <1>3 DEF BoxTypeOK
<1>5. Removed'
  BY <1>1, <1>3 DEF Removed
<1>6. Shared'
  <2>1. (Total(final, Indices))' = Total(final, Indices)
    BY <1>1, <1>3 DEF Total, Pixels
  <2>2. SpaceUsed' /\ SharesAreFair'
    <3>1. SpaceUsed /\ SharesAreFair
      BY <1>1 DEF Shared
    <3>2. SpaceUsed'
      BY <1>1, <1>3, <2>1, <3>1 DEF SpaceUsed, Exact
    <3>3. SharesAreFair'
      BY <1>1, <1>3, <3>1 DEF SharesAreFair
    <3> QED BY <3>2, <3>3
  <2> QED BY <1>1, <1>3, <2>1, <2>2 DEF Shared
<1>7. placed' = [i \in Indices |-> Fit(MinSize(i), From(i), final[i])]
  BY DEF Place
<1>8. /\ \A i \in Indices : final[i] >= MinSize(i)
      /\ Total(final, Indices) <= MinTotal(Indices) + Spare
      /\ ~HasStretched => Total(final, Indices) = MinTotal(Indices)
  BY <1>1 DEF Shared
<1>9. /\ MinTotal(Indices) \in Nat /\ Spare \in Nat
      /\ HasRoom => Length = MinTotal(Indices) + Spare
  BY <1>1, Lengths
<1>10. /\ Offset \in Nat
       /\ Offset + Total(final, Indices) <= MinTotal(Indices) + Spare
  <2>1. box.alignment \in Alignments
    BY <1>1 DEF BoxTypeOK, Boxes
  <2>2. Total(final, Indices) \in Nat
    <3>1. Indices \in SUBSET (1 .. n)
      BY <1>2
    <3> QED BY <1>2, <3>1, PixelsFinite
  <2>3. Offset \in Nat /\ Offset <= Spare /\ (HasStretched => Offset = 0)
    <3>1. Spare \div 2 \in Nat /\ Spare \div 2 <= Spare
      BY <1>9
    <3> QED BY <1>9, <2>1, <3>1 DEF Offset, Alignments
  <2> QED BY <1>8, <1>9, <2>2, <2>3
<1> HIDE DEF From
<1>11. ASSUME NEW i \in Indices
       PROVE  /\ From(i) \in Nat
              /\ From(i) + final[i] <= Offset + Total(final, Indices)
              /\ \A j \in Indices : i < j => From(i) + final[i] <= From(j)
  <2> DEFINE I == {j \in Indices : j < i}
  <2>1. I \in SUBSET (1 .. n) /\ i \in 1 .. n /\ i \notin I
    BY <1>2
  <2>2. Total(final, I) \in Nat /\ From(i) = Offset + Total(final, I)
    BY <1>2, <2>1, PixelsFinite DEF From
  <2>3. \A j \in Indices : i < j => I \cup {i} \in SUBSET {m \in Indices : m < j}
    BY <1>2
  <2>4. I \cup {i} \in SUBSET Indices
    OBVIOUS
  <2> HIDE DEF I
  <2>5. Total(final, I \cup {i}) = Total(final, I) + final[i] /\ final[i] \in Nat
    BY <1>2, <2>1, TotalWith
  <2>6. Total(final, I \cup {i}) <= Total(final, Indices) /\ Total(final, Indices) \in Nat
    <3>1. Indices \in SUBSET (1 .. n)
      BY <1>2
    <3> QED BY <1>2, <2>4, <3>1, TotalGrows, PixelsFinite
  <2>7. ASSUME NEW j \in Indices, i < j
        PROVE  From(i) + final[i] <= From(j)
    <3> DEFINE J == {m \in Indices : m < j}
    <3>1. J \in SUBSET (1 .. n) /\ I \cup {i} \in SUBSET J
      BY <1>2, <2>3, <2>7
    <3>2. From(j) = Offset + Total(final, J)
      BY DEF From
    <3> HIDE DEF J
    <3>3. Total(final, I \cup {i}) <= Total(final, J) /\ Total(final, J) \in Nat
      BY <1>2, <3>1, TotalGrows, PixelsFinite
    <3> QED BY <1>10, <2>2, <2>5, <3>2, <3>3
  <2> QED BY <1>10, <2>2, <2>5, <2>6, <2>7
<1>12. ASSUME NEW i \in Indices
       PROVE  /\ placed'[i].from \in Nat /\ placed'[i].size \in Nat
              /\ From(i) <= placed'[i].from
              /\ placed'[i].from + placed'[i].size <= From(i) + final[i]
  <2>1. /\ box \in Boxes /\ MinSize(i) \in Nat /\ From(i) \in Nat /\ final[i] \in Nat
        /\ final[i] >= MinSize(i)
    BY <1>1, <1>2, <1>8, <1>11 DEF BoxTypeOK
  <2>2. placed'[i] = Fit(MinSize(i), From(i), final[i])
    BY <1>7
  <2> QED BY <2>1, <2>2, FitStaysInside
<1>13. ASSUME NEW i \in Indices, NEW j \in Indices, i < j
       PROVE  placed'[i].from + placed'[i].size <= placed'[j].from
  <2>1. /\ From(i) \in Nat /\ From(j) \in Nat /\ final[i] \in Nat
        /\ From(i) + final[i] <= From(j)
    BY <1>2, <1>11, <1>13
  <2> QED BY <1>12, <2>1
<1>14. ASSUME HasRoom, NEW i \in Indices
       PROVE  placed'[i].from >= 0 /\ placed'[i].from + placed'[i].size <= Length
  <2>1. /\ From(i) \in Nat /\ final[i] \in Nat
        /\ From(i) + final[i] <= Offset + Total(final, Indices)
    BY <1>2, <1>11
  <2>2. Total(final, Indices) \in Nat
    <3>1. Indices \in SUBSET (1 .. n)
      BY <1>2
    <3> QED BY <1>2, <3>1, PixelsFinite
  <2>3. /\ placed'[i].from \in Nat /\ placed'[i].size \in Nat
        /\ placed'[i].from + placed'[i].size <= From(i) + final[i]
    BY <1>12
  <2> QED BY <1>9, <1>10, <1>14, <2>1, <2>2, <2>3
<1>15. BoxesApart'
  BY <1>3, <1>13, <1>14 DEF BoxesApart, End
<1> QED BY <1>4, <1>5, <1>6, <1>15

LEMMA BoxInvariantHolds == BoxSpec => []BoxInvariant
<1>1. BoxInit => BoxInvariant
  <2> SUFFICES ASSUME BoxInit PROVE BoxInvariant
    OBVIOUS
  <2>1. final \in [Indices -> Nat]
    BY DEF BoxInit
  <2>2. BoxTypeOK
    BY <2>1 DEF BoxInit, BoxTypeOK
  <2> QED BY <2>2 DEF BoxInit, BoxInvariant, Refitting, Removed, Shared, Laid
<1>2. BoxInvariant /\ [BoxNext]_boxVars => BoxInvariant'
  <2> SUFFICES ASSUME BoxInvariant, [BoxNext]_boxVars PROVE BoxInvariant'
    OBVIOUS
  <2>1. CASE Measure
    <3>1. phase' = "refit"
      BY <2>1 DEF Measure
    <3> QED BY <2>1, <3>1, MeasureStep DEF BoxInvariant, Shared, Laid
  <2>2. CASE Refit
    <3>1. phase' = "refit"
      BY <2>2 DEF Refit
    <3> QED BY <2>2, <3>1, RefitStep DEF BoxInvariant, Shared, Laid
  <2>3. CASE Settle
    <3>1. phase' = "place"
      BY <2>3 DEF Settle
    <3> QED BY <2>3, <3>1, SettleStep DEF BoxInvariant, Refitting, Laid
  <2>4. CASE Place
    <3>1. phase' = "done"
      BY <2>4 DEF Place
    <3> QED BY <2>4, <3>1, PlaceStep DEF BoxInvariant, Refitting
  <2>5. CASE UNCHANGED boxVars
    <3>1. /\ box' = box /\ stretching' = stretching /\ avail' = avail
          /\ final' = final /\ placed' = placed /\ phase' = phase
      BY <2>5 DEF boxVars
    <3>2. /\ Indices' = Indices /\ Expanding' = Expanding /\ Mins' = Mins
          /\ Spare' = Spare /\ HasStretched' = HasStretched /\ Length' = Length
          /\ HasRoom' = HasRoom
          /\ \A I : MinTotal(I)' = MinTotal(I)
          /\ \A j : MinSize(j)' = MinSize(j)
      BY <3>1 DEF Indices, Expanding, Mins, Spare, Length, MinTotal, HasStretched, MinSize, HasRoom
    <3>3. (Total(final, Indices))' = Total(final, Indices)
      BY <3>1, <3>2 DEF Total, Pixels
    <3>4. BoxTypeOK' = BoxTypeOK /\ Refitting' = Refitting /\ Removed' = Removed
      BY <3>1, <3>2 DEF BoxTypeOK, Refitting, Removed
    <3>5. SpaceUsed' = SpaceUsed
      BY <3>1, <3>2, <3>3 DEF SpaceUsed, Exact
    <3>6. SharesAreFair' = SharesAreFair
      BY <3>1, <3>2 DEF SharesAreFair
    <3>7. Shared' = Shared
      BY <3>1, <3>2, <3>3, <3>5, <3>6 DEF Shared
    <3>8. (Laid => BoxesApart)' = (Laid => BoxesApart)
      BY <3>1, <3>2 DEF Laid, BoxesApart, End
    <3> QED BY <3>4, <3>7, <3>8 DEF BoxInvariant
  <2> QED BY <2>1, <2>2, <2>3, <2>4, <2>5 DEF BoxNext
<1> QED BY <1>1, <1>2, PTL DEF BoxSpec

\* However many children of whatever sizes, and wherever the fractions fall
\* short: BoxContainer::resort gives out all of the space, fairly, in boxes that
\* do not overlap.
THEOREM SpaceIsSharedHolds == BoxSpec => []SpaceIsShared
<1>1. BoxInvariant => SpaceIsShared
  BY DEF BoxInvariant, SpaceIsShared, Laid, Shared
<1> QED BY <1>1, BoxInvariantHolds, PTL

-----------------------------------------------------------------------------
(* The dashboard *)

\* Each text is no wider than the page it is centred on.
TextsFit == \A w \in LabelWidths : w <= Screen

-----------------------------------------------------------------------------
(* The progress bar *)

LEMMA ModuloAtMost ==
    ASSUME NEW n \in Nat, NEW w \in Nat \ {0}
    PROVE  n % w \in Nat /\ n % w <= n
OBVIOUS

\* Quotient and remainder are determined.
LEMMA RemainderIs ==
    ASSUME NEW w \in Nat \ {0}, NEW p \in Nat, NEW q \in Nat,
           NEW r \in 0 .. w - 1, NEW s \in 0 .. w - 1, w * p + r = w * q + s
    PROVE  r = s
<1>1. CASE p < q
  <2>1. w * (p + 1) <= w * q
    BY <1>1, ProductGrows
  <2>2. w * (p + 1) = w * p + w /\ w * p \in Nat /\ w * q \in Nat
    OBVIOUS
  <2> QED BY <2>1, <2>2
<1>2. CASE q < p
  <2>1. w * (q + 1) <= w * p
    BY <1>2, ProductGrows
  <2>2. w * (q + 1) = w * q + w /\ w * p \in Nat /\ w * q \in Nat
    OBVIOUS
  <2> QED BY <2>1, <2>2
<1>3. CASE p = q
  <2>1. w * p \in Nat
    OBVIOUS
  <2> QED BY <1>3, <2>1
<1> QED BY <1>1, <1>2, <1>3

LEMMA WholeTurn ==
    ASSUME NEW n \in Nat, NEW w \in Nat \ {0}
    PROVE  (n + w) % w = n % w
<1>1. PICK q \in Nat, r \in 0 .. w - 1 : n = w * q + r /\ r = n % w
  BY DivisionSplits
<1>2. PICK p \in Nat, s \in 0 .. w - 1 : n + w = w * p + s /\ s = (n + w) % w
  <2>1. n + w \in Nat
    OBVIOUS
  <2> QED BY <2>1, DivisionSplits
<1>3. w * (q + 1) + r = w * p + s
  <2>1. w * (q + 1) = w * q + w /\ w * q \in Nat /\ w * p \in Nat
    OBVIOUS
  <2> QED BY <1>1, <1>2, <2>1
<1>4. r = s
  <2>1. q + 1 \in Nat
    OBVIOUS
  <2> QED BY <1>3, <2>1, RemainderIs
<1> QED BY <1>1, <1>2, <1>4

\* What wraps below zero wraps back.
LEMMA WrapsBack ==
    ASSUME NEW a \in Nat \ {0}, NEW s \in Nat, NEW w \in Nat \ {0}
    PROVE  /\ (a + ((s - 1) % w)) % w \in Nat
           /\ (a + ((s - 1) % w)) % w <= a + s - 1
<1>1. CASE s # 0
  <2>1. (s - 1) % w \in Nat /\ (s - 1) % w <= s - 1
    BY <1>1, ModuloAtMost
  <2>2. a + ((s - 1) % w) \in Nat
    BY <2>1
  <2>3. /\ (a + ((s - 1) % w)) % w \in Nat
        /\ (a + ((s - 1) % w)) % w <= a + ((s - 1) % w)
    BY <2>2, ModuloAtMost
  <2> QED BY <2>1, <2>3
<1>2. CASE s = 0
  <2>1. (s - 1) % w = w - 1
    BY <1>2
  <2>2. a + (w - 1) = (a - 1) + w /\ a - 1 \in Nat
    OBVIOUS
  <2>3. ((a - 1) + w) % w = (a - 1) % w
    BY <2>2, WholeTurn
  <2>4. (a - 1) % w \in Nat /\ (a - 1) % w <= a - 1
    BY <2>2, ModuloAtMost
  <2> QED BY <1>2, <2>1, <2>2, <2>3, <2>4
<1> QED BY <1>1, <1>2

LEMMA StepFits == Step \in Nat /\ Step <= ShapeWidth + MinSpace
<1> DEFINE wide  == Shapes * ShapeWidth
           ratio == BarWidth \div wide
           s     == ratio \div Shapes
<1>1. /\ Shapes \in Nat \ {0} /\ ShapeWidth \in Nat \ {0} /\ MinSpace \in Nat \ {0}
      /\ Word \in Nat \ {0} /\ Shapes - 1 \in Nat
  BY ViewAssumption
<1>2. wide \in Nat \ {0} /\ Shapes <= wide
  BY <1>1
<1>3. BarWidth = wide + (Shapes - 1) * MinSpace /\ BarWidth \in Nat
  BY <1>1, <1>2 DEF BarWidth
<1>4. (Shapes - 1) * MinSpace <= wide * MinSpace
  BY <1>1, <1>2, ProductGrows
<1> HIDE DEF wide
<1>5. ratio \in Nat /\ wide * ratio <= BarWidth
  BY <1>2, <1>3, DivisionBounds
<1>6. ratio <= 1 + MinSpace
  <2>1. wide * ratio <= wide * (1 + MinSpace)
    BY <1>1, <1>2, <1>3, <1>4, <1>5
  <2> QED BY <1>1, <1>2, <1>5, <2>1
<1> HIDE DEF ratio
<1>7. s \in Nat /\ s <= ratio
  <2>1. s \in Nat /\ Shapes * s <= ratio
    BY <1>1, <1>5, DivisionBounds
  <2>2. 1 * s <= Shapes * s
    BY <1>1, <2>1, ProductGrows
  <2> QED BY <1>1, <1>5, <2>1, <2>2
<1>8. Step = (ShapeWidth + ((s - 1) % Word)) % Word
  BY DEF Step, ratio, wide
<1> HIDE DEF s
<1>9. Step \in Nat /\ Step <= ShapeWidth + s - 1
  BY <1>1, <1>7, <1>8, WrapsBack
<1> QED BY <1>1, <1>5, <1>6, <1>7, <1>9

LEMMA BarFits ==
    ASSUME NEW b \in 0 .. Shapes - 1
    PROVE  b * Step + ShapeWidth \in Nat /\ b * Step + ShapeWidth <= BarWidth
<1>1. /\ Shapes \in Nat \ {0} /\ ShapeWidth \in Nat /\ MinSpace \in Nat
      /\ b \in Nat /\ Shapes - 1 \in Nat /\ b <= Shapes - 1
  BY ViewAssumption
<1>2. Step \in Nat /\ Step <= ShapeWidth + MinSpace
  BY StepFits
<1>3. b * Step <= (Shapes - 1) * Step /\ b * Step \in Nat
  BY <1>1, <1>2, ProductGrows
<1>4. (Shapes - 1) * Step <= (Shapes - 1) * (ShapeWidth + MinSpace)
  BY <1>1, <1>2, ProductGrows
<1>5. (Shapes - 1) * (ShapeWidth + MinSpace) + ShapeWidth = BarWidth
  BY <1>1 DEF BarWidth
<1>6. (Shapes - 1) * Step \in Nat /\ (Shapes - 1) * (ShapeWidth + MinSpace) \in Nat
  BY <1>1, <1>2
<1> QED BY <1>1, <1>3, <1>4, <1>5, <1>6

-----------------------------------------------------------------------------
(* One frame *)

Picture == [up : BOOLEAN, down : BOOLEAN, text : 0 .. Mix, left : Int, right : Int,
            bar : Int]

ViewType ==
    /\ index \in 0 .. Tabs - 1 /\ text \in 0 .. Tabs - 1
    /\ key \in {"idle", "label", "copying"}
    /\ pc \in {"page", "column", "up", "bar", "centre", "text", "down", "flush",
               "terminated"}
    /\ up \in BOOLEAN /\ down \in BOOLEAN /\ quiet \in BOOLEAN
    /\ bar \in 0 .. Shapes - 1
    /\ picture \in Picture

\* Where a label is drawn that was centred by a text of width w.
CentredBy(w) == Half(Screen - w)

\* What holds of every frame.
FrameInv ==
    /\ width = Screen
    /\ pc = "text" => \E w \in LabelWidths : x = CentredBy(w)
    /\ DrawnOnScreen
    /\ up \/ down
    /\ key = "idle" => text = index

\* What holds of a frame without a key, as far as it is drawn.
QuietInv ==
    quiet =>
        /\ key = "idle"
        /\ pc # "page" => (index = 0 => ~up) /\ (index = Tabs - 1 => ~down)
        /\ pc \in {"bar", "centre", "text", "down", "flush"} => picture.up = up
        /\ pc = "text" => x = CentredBy(TextWidth[index])
        /\ pc \in {"down", "flush"} =>
              /\ picture.text = index
              /\ picture.left = CentredBy(TextWidth[index])
              /\ picture.right = picture.left + TextWidth[index]
        /\ pc = "flush" => picture.down = down

ViewInv == ViewType /\ FrameInv /\ QuietInv

LEMMA WidthsTyped ==
    ASSUME TextsFit
    PROVE  /\ Screen \in Nat
           /\ \A w \in LabelWidths : w \in Nat /\ w <= Screen
           /\ \A t \in 0 .. Tabs - 1 : TextWidth[t] \in LabelWidths
<1>1. Screen \in Nat
  BY ViewAssumption
<1>2. \A w \in LabelWidths : w \in Nat
  BY ViewAssumption DEF LabelWidths
<1>3. \A w \in LabelWidths : w <= Screen
  BY DEF TextsFit
<1>4. \A t \in 0 .. Tabs - 1 : TextWidth[t] \in LabelWidths
  BY DEF LabelWidths
<1> QED BY <1>1, <1>2, <1>3, <1>4

LEMMA HalfOf ==
    ASSUME NEW n \in Nat
    PROVE  Half(n) \in Nat /\ 2 * Half(n) <= n /\ n <= 2 * Half(n) + 1
<1>1. Half(n) = n \div 2
  BY DEF Half
<1> QED BY <1>1

LEMMA CentredFits ==
    ASSUME TextsFit, NEW v \in LabelWidths, NEW w \in LabelWidths
    PROVE  /\ CentredBy(v) \in Nat /\ CentredBy(v) + w \in Nat
           /\ EndsCentred(CentredBy(v) + w)
           /\ v = w => CentredBy(v) + w <= Screen
<1>1. Screen \in Nat /\ v \in Nat /\ w \in Nat /\ v <= Screen
  BY WidthsTyped
<1>2. Screen - v \in Nat
  BY <1>1
<1>3. CentredBy(v) \in Nat /\ 2 * CentredBy(v) <= Screen - v
  BY <1>2, HalfOf DEF CentredBy
<1>4. PICK c \in Nat : c = CentredBy(v) /\ 2 * c <= Screen - v
  BY <1>3
<1>5. 2 * (c + w) + v <= Screen + 2 * w
  BY <1>1, <1>4
<1>6. EndsCentred(CentredBy(v) + w)
  BY <1>4, <1>5 DEF EndsCentred
<1>7. v = w => c + w <= Screen
  BY <1>1, <1>4
<1> QED BY <1>1, <1>4, <1>6, <1>7

\* Nothing drawn ends on the screen.
LEMMA BlankEnds ==
    ASSUME TextsFit
    PROVE  EndsCentred(0) /\ 0 <= Screen
<1>1. TextWidth[0] \in LabelWidths
  BY DEF LabelWidths, Tabs
<1>2. PICK w \in LabelWidths : w = TextWidth[0]
  BY <1>1
<1>3. Screen \in Nat /\ w \in Nat
  BY WidthsTyped
<1>4. 2 * 0 + w <= Screen + 2 * w
  BY <1>3
<1> QED BY <1>3, <1>4 DEF EndsCentred

\* The text of a tab, centred by its own width, is in the middle.
LEMMA CentredIsMiddle ==
    ASSUME TextsFit, NEW w \in LabelWidths, NEW l, NEW r,
           l = CentredBy(w), r = l + w
    PROVE  (l - (Screen - r)) \in {-1, 0, 1}
<1>1. Screen \in Nat /\ w \in Nat /\ w <= Screen
  BY WidthsTyped
<1>2. Screen - w \in Nat
  BY <1>1
<1>3. /\ CentredBy(w) \in Nat /\ 2 * CentredBy(w) <= Screen - w
      /\ Screen - w <= 2 * CentredBy(w) + 1
  BY <1>2, HalfOf DEF CentredBy
<1>4. PICK h \in Nat : h = CentredBy(w)
  BY <1>3
<1>5. l = h /\ r = h + w /\ 2 * h <= Screen - w /\ Screen - w <= 2 * h + 1
  BY <1>3, <1>4
<1>6. l - (Screen - r) = 2 * h + w - Screen
  BY <1>1, <1>5
<1> QED BY <1>1, <1>5, <1>6

LEMMA ReadingsTyped ==
    ASSUME ViewType, NEW r \in Readings
    PROVE  r.text \in 0 .. Mix /\ r.width \in LabelWidths
<1>1. \A t \in 0 .. Tabs - 1 : TextWidth[t] \in LabelWidths /\ t \in 0 .. Mix
  BY DEF LabelWidths, Mix, Tabs
<1>2. \A w \in MixWidths : w \in LabelWidths
  BY DEF LabelWidths
<1>3. Mix \in 0 .. Mix
  BY DEF Mix, Tabs
<1> QED BY <1>1, <1>2, <1>3 DEF Readings, ViewType

LEMMA QuietReading ==
    ASSUME ViewType, FrameInv, key = "idle", NEW r \in Readings
    PROVE  r.text = index /\ r.width = TextWidth[index]
BY DEF Readings, FrameInv

LEMMA ViewInitially ==
    ASSUME TextsFit, ViewInit PROVE ViewInv
<1>1. Shapes \in Nat \ {0} /\ ShapeWidth \in Nat /\ Screen \in Nat
  BY ViewAssumption
<1>2. Blank \in Picture
  BY DEF Blank, Picture, Mix, Tabs
<1>3. ViewType
  <2>1. index = 0 /\ text = 0 /\ bar = 0 /\ picture = Blank
    BY DEF ViewInit
  <2>2. index \in 0 .. Tabs - 1 /\ text \in 0 .. Tabs - 1 /\ bar \in 0 .. Shapes - 1
    BY <1>1, <2>1 DEF Tabs
  <2>3. up = TRUE /\ down = TRUE /\ quiet = FALSE /\ key = "idle" /\ pc = "page"
    BY DEF ViewInit
  <2>4. up \in BOOLEAN /\ down \in BOOLEAN /\ quiet \in BOOLEAN
    BY <2>3
  <2> QED BY <1>2, <2>1, <2>2, <2>3, <2>4 DEF ViewType
<1>4. 0 <= BarWidth
  <2>1. 0 \in 0 .. Shapes - 1
    BY <1>1
  <2>2. 0 * Step + ShapeWidth \in Nat /\ 0 * Step + ShapeWidth <= BarWidth
    BY <2>1, BarFits
  <2>3. BarWidth \in Int
    BY ViewAssumption DEF BarWidth
  <2> QED BY <2>2, <2>3
<1>5. DrawnOnScreen
  BY <1>4, BlankEnds DEF ViewInit, DrawnOnScreen, Blank
<1>6. FrameInv
  BY <1>5 DEF ViewInit, FrameInv
<1>7. QuietInv
  BY DEF ViewInit, QuietInv
<1> QED BY <1>3, <1>6, <1>7 DEF ViewInv

LEMMA ViewStep ==
    ASSUME TextsFit, ViewInv, [ViewNext]_viewVars PROVE ViewInv'
<1> USE DEF ViewInv
<1>1. CASE UpdatePage
  <2>1. /\ UNCHANGED <<index, text, key, width, x, bar, shown>>
        /\ pc' = "column" /\ picture' = Blank /\ quiet' = (key = "idle")
    BY <1>1 DEF UpdatePage
  <2>2. /\ up' = (CASE index = 0 -> FALSE [] index = Tabs - 1 -> TRUE [] OTHER -> up)
        /\ down' = (CASE index = 0 -> TRUE [] index = Tabs - 1 -> FALSE [] OTHER -> down)
    BY <1>1 DEF UpdatePage
  <2>3. /\ up' \in BOOLEAN /\ down' \in BOOLEAN /\ (up' \/ down')
        /\ (index = 0 => ~up') /\ (index = Tabs - 1 => ~down')
    <3>1. CASE index = 0
      <4>1. 0 # Tabs - 1
        BY DEF Tabs
      <4>2. up' = FALSE /\ down' = TRUE
        BY <2>2, <3>1, <4>1
      <4> QED BY <3>1, <4>1, <4>2
    <3>2. CASE index # 0 /\ index = Tabs - 1
      <4>1. up' = TRUE /\ down' = FALSE
        BY <2>2, <3>2
      <4> QED BY <3>2, <4>1
    <3>3. CASE index # 0 /\ index # Tabs - 1
      <4>1. up' = up /\ down' = down
        BY <2>2, <3>3
      <4>2. up \in BOOLEAN /\ down \in BOOLEAN /\ (up \/ down)
        BY DEF ViewType, FrameInv
      <4> QED BY <3>3, <4>1, <4>2
    <3> QED BY <3>1, <3>2, <3>3
  <2>4. Blank \in Picture
    BY DEF Blank, Picture, Mix, Tabs
  <2>5. ViewType'
    BY <2>1, <2>3, <2>4 DEF ViewType
  <2>6. DrawnOnScreen'
    <3>1. 0 <= Screen /\ 0 <= BarWidth
      <4>1. Shapes \in Nat \ {0} /\ Shapes - 1 \in Nat /\ ShapeWidth \in Nat
            /\ MinSpace \in Nat /\ Screen \in Nat
        BY ViewAssumption
      <4>2. Shapes * ShapeWidth \in Nat /\ (Shapes - 1) * MinSpace \in Nat
        BY <4>1
      <4> QED BY <4>1, <4>2 DEF BarWidth
    <3>2. /\ picture'.left = 0 /\ picture'.right = 0 /\ picture'.bar = 0
      BY <2>1 DEF Blank
    <3> QED BY <3>1, <3>2, BlankEnds DEF DrawnOnScreen, EndsCentred, BarWidth
  <2>7. FrameInv'
    BY <2>1, <2>3, <2>6 DEF FrameInv
  <2>8. QuietInv'
    BY <2>1, <2>3 DEF QuietInv
  <2> QED BY <2>5, <2>7, <2>8
<1>2. CASE LayOut
  <2>1. /\ UNCHANGED <<index, text, key, up, down, x, bar, picture, shown, quiet>>
        /\ pc = "column" /\ pc' = "up"
    BY <1>2 DEF LayOut
  <2>2. PICK r \in Readings : width' = Wider(Screen, r.width)
    BY <1>2 DEF LayOut
  <2>3. Screen \in Nat /\ r.width \in Nat /\ r.width <= Screen
    BY <2>2, ReadingsTyped, WidthsTyped
  <2>4. width' = Screen
    BY <2>2, <2>3 DEF Wider
  <2>5. ViewType'
    BY <2>1 DEF ViewType
  <2>6. FrameInv'
    BY <2>1, <2>4 DEF FrameInv, DrawnOnScreen, EndsCentred
  <2>7. QuietInv'
    BY <2>1 DEF QuietInv
  <2> QED BY <2>5, <2>6, <2>7
<1>3. CASE DrawUp
  <2>1. /\ UNCHANGED <<index, text, key, up, down, width, x, bar, shown, quiet>>
        /\ pc = "up" /\ pc' = "bar" /\ picture' = [picture EXCEPT !.up = up]
    BY <1>3 DEF DrawUp, view
  <2>2. /\ picture' \in Picture /\ picture'.up = up
        /\ picture'.left = picture.left /\ picture'.right = picture.right
        /\ picture'.bar = picture.bar
    BY <2>1 DEF ViewType, Picture
  <2>3. ViewType'
    BY <2>1, <2>2 DEF ViewType
  <2>4. FrameInv'
    BY <2>1, <2>2 DEF FrameInv, DrawnOnScreen, EndsCentred, BarWidth
  <2>5. QuietInv'
    BY <2>1, <2>2 DEF QuietInv
  <2> QED BY <2>3, <2>4, <2>5
<1>4. CASE DrawBar
  <2>1. /\ UNCHANGED <<index, text, key, up, down, width, x, shown, quiet>>
        /\ pc = "bar" /\ pc' = "centre"
        /\ picture' = [picture EXCEPT !.bar = bar' * Step + ShapeWidth]
    BY <1>4 DEF DrawBar
  <2>2. bar' \in 0 .. Shapes - 1
    <3>1. bar' \in {bar, (bar + 1) % Shapes} /\ bar \in 0 .. Shapes - 1
      BY <1>4 DEF DrawBar, ViewType
    <3>2. Shapes \in Nat \ {0}
      BY ViewAssumption
    <3>3. (bar + 1) % Shapes \in 0 .. Shapes - 1
      <4>1. bar + 1 \in Nat
        BY <3>1
      <4> QED BY <3>2, <4>1, DivisionSplits
    <3> QED BY <3>1, <3>3
  <2>3. bar' * Step + ShapeWidth \in Nat /\ bar' * Step + ShapeWidth <= BarWidth
    BY <2>2, BarFits
  <2>4. PICK b \in Nat : b = bar' * Step + ShapeWidth /\ b <= BarWidth
    BY <2>3
  <2>5. /\ picture' \in Picture /\ picture'.up = picture.up
        /\ picture'.left = picture.left /\ picture'.right = picture.right
        /\ picture'.bar = b
    BY <2>1, <2>4 DEF ViewType, Picture
  <2>6. ViewType'
    BY <2>1, <2>2, <2>5 DEF ViewType
  <2>7. FrameInv'
    BY <2>1, <2>4, <2>5 DEF FrameInv, DrawnOnScreen, EndsCentred, BarWidth
  <2>8. QuietInv'
    BY <2>1, <2>5 DEF QuietInv
  <2> QED BY <2>6, <2>7, <2>8
<1>5. CASE Centre
  <2>1. /\ UNCHANGED <<index, text, key, up, down, width, bar, picture, shown, quiet>>
        /\ pc = "centre" /\ pc' = "text"
    BY <1>5 DEF Centre
  <2>2. PICK size \in Readings, min \in Readings :
           x' = Half(Wider(width, size.width) - min.width)
    BY <1>5 DEF Centre
  <2>3. /\ Screen \in Nat /\ size.width \in Nat /\ size.width <= Screen
        /\ min.width \in LabelWidths
    BY ReadingsTyped, WidthsTyped
  <2>4. width = Screen
    BY DEF FrameInv
  <2>5. x' = CentredBy(min.width)
    BY <2>2, <2>3, <2>4 DEF Wider, CentredBy
  <2>6. ViewType'
    BY <2>1 DEF ViewType
  <2>7. FrameInv'
    BY <2>1, <2>3, <2>5 DEF FrameInv, DrawnOnScreen, EndsCentred, CentredBy
  <2>8. ASSUME quiet PROVE x' = CentredBy(TextWidth[index])
    <3>1. min.width = TextWidth[index]
      BY <2>8, QuietReading DEF QuietInv
    <3> QED BY <2>5, <3>1
  <2>9. QuietInv'
    BY <2>1, <2>8 DEF QuietInv, CentredBy
  <2> QED BY <2>6, <2>7, <2>9
<1>6. CASE DrawText
  <2>1. /\ UNCHANGED <<index, text, key, up, down, width, x, bar, shown, quiet>>
        /\ pc = "text" /\ pc' = "down"
    BY <1>6 DEF DrawText, view
  <2>2. PICK r \in Readings :
           picture' = [picture EXCEPT !.text = r.text, !.left = x, !.right = x + r.width]
    BY <1>6 DEF DrawText
  <2>3. r.text \in 0 .. Mix /\ r.width \in LabelWidths /\ r.width \in Nat
    BY <2>2, ReadingsTyped, WidthsTyped
  <2>4. PICK w \in LabelWidths : x = CentredBy(w)
    BY <2>1 DEF FrameInv
  <2>5. x \in Nat /\ x + r.width \in Nat /\ EndsCentred(x + r.width)
    BY <2>3, <2>4, CentredFits
  <2>6. /\ picture' \in Picture /\ picture'.up = picture.up /\ picture'.bar = picture.bar
        /\ picture'.text = r.text /\ picture'.left = x /\ picture'.right = x + r.width
    <3>0. x + r.width \in Int
      BY <2>5
    <3>1. PICK t \in 0 .. Mix, right \in Int :
             /\ t = r.text /\ right = x + r.width
             /\ picture' = [picture EXCEPT !.text = t, !.left = x, !.right = right]
      <4>1. PICK t \in 0 .. Mix : t = r.text
        BY <2>3
      <4>2. PICK right \in Int : right = x + r.width
        BY <3>0
      <4>3. picture' = [picture EXCEPT !.text = t, !.left = x, !.right = right]
        BY <2>2, <4>1, <4>2
      <4> QED BY <4>1, <4>2, <4>3
    <3>2. picture \in Picture /\ x \in Int
      BY <2>5 DEF ViewType
    <3>3. /\ picture' \in Picture /\ picture'.up = picture.up
          /\ picture'.bar = picture.bar
      BY <3>1, <3>2 DEF Picture
    <3>4. picture'.text = t /\ picture'.left = x /\ picture'.right = right
      BY <3>1, <3>2 DEF Picture
    <3> QED BY <3>1, <3>3, <3>4
  <2>7. ViewType'
    BY <2>1, <2>6 DEF ViewType
  <2>8. ASSUME quiet PROVE r.text = index /\ r.width = TextWidth[index]
    BY <2>2, <2>8, QuietReading DEF QuietInv
  <2>9. ASSUME quiet PROVE x + r.width <= Screen
    <3>1. x = CentredBy(r.width)
      BY <2>1, <2>8, <2>9 DEF QuietInv
    <3> QED BY <2>3, <3>1, CentredFits
  <2>10. FrameInv'
    <3>1. DrawnOnScreen'
      BY <2>1, <2>5, <2>6, <2>9 DEF FrameInv, DrawnOnScreen, EndsCentred, BarWidth
    <3> QED BY <2>1, <3>1 DEF FrameInv
  <2>11. QuietInv'
    BY <2>1, <2>6, <2>8 DEF QuietInv, CentredBy
  <2> QED BY <2>7, <2>10, <2>11
<1>7. CASE NoGlyph
  <2>1. /\ UNCHANGED <<index, text, key, up, down, width, x, bar, picture, shown, quiet>>
        /\ key # "idle" /\ pc' = "terminated"
    BY <1>7 DEF NoGlyph, view
  <2>2. ViewType' /\ FrameInv'
    BY <2>1 DEF ViewType, FrameInv, DrawnOnScreen, EndsCentred
  <2>3. QuietInv'
    BY <2>1 DEF QuietInv
  <2> QED BY <2>2, <2>3
<1>8. CASE DrawDown
  <2>1. /\ UNCHANGED <<index, text, key, up, down, width, x, bar, shown, quiet>>
        /\ pc = "down" /\ pc' = "flush" /\ picture' = [picture EXCEPT !.down = down]
    BY <1>8 DEF DrawDown, view
  <2>2. /\ picture' \in Picture /\ picture'.down = down /\ picture'.up = picture.up
        /\ picture'.left = picture.left /\ picture'.right = picture.right
        /\ picture'.bar = picture.bar /\ picture'.text = picture.text
    BY <2>1 DEF ViewType, Picture
  <2>3. ViewType'
    BY <2>1, <2>2 DEF ViewType
  <2>4. FrameInv'
    BY <2>1, <2>2 DEF FrameInv, DrawnOnScreen, EndsCentred, BarWidth
  <2>5. QuietInv'
    BY <2>1, <2>2 DEF QuietInv, CentredBy
  <2> QED BY <2>3, <2>4, <2>5
<1>9. CASE Flush
  <2>1. /\ UNCHANGED <<index, text, key, up, down, width, x, bar, picture, quiet>>
        /\ pc' = "page"
    BY <1>9 DEF Flush, view
  <2>2. ViewType' /\ FrameInv'
    BY <2>1 DEF ViewType, FrameInv, DrawnOnScreen, EndsCentred
  <2>3. QuietInv'
    BY <2>1 DEF QuietInv
  <2> QED BY <2>2, <2>3
<1>10. CASE KeyThread
  <2>1. UNCHANGED <<pc, up, down, width, x, bar, picture, shown>>
    BY <1>10 DEF KeyThread, ChangeIndex, StartLabel, EndLabel, view
  <2>2. index' \in 0 .. Tabs - 1 /\ text' \in 0 .. Tabs - 1
        /\ key' \in {"idle", "label", "copying"} /\ (key' = "idle" => text' = index')
    BY <1>10 DEF KeyThread, ChangeIndex, StartLabel, EndLabel, ViewType, Tabs
  <2>3. quiet' = FALSE
    <3>1. CASE ChangeIndex
      BY <3>1 DEF ChangeIndex
    <3>2. CASE StartLabel \/ EndLabel
      <4>1. key # "idle" /\ quiet' = quiet
        BY <3>2 DEF StartLabel, EndLabel
      <4> QED BY <4>1 DEF QuietInv, ViewType
    <3> QED BY <1>10, <3>1, <3>2 DEF KeyThread
  <2>4. ViewType'
    BY <2>1, <2>2, <2>3 DEF ViewType
  <2>5. FrameInv'
    BY <2>1, <2>2, <2>3 DEF FrameInv, DrawnOnScreen, EndsCentred
  <2>6. QuietInv'
    BY <2>3 DEF QuietInv
  <2> QED BY <2>4, <2>5, <2>6
<1>11. CASE UNCHANGED viewVars
  <2>1. UNCHANGED <<index, text, key, pc, up, down, width, x, bar, picture, shown, quiet>>
    BY <1>11 DEF viewVars, view
  <2> QED BY <2>1 DEF ViewType, FrameInv, DrawnOnScreen, EndsCentred, QuietInv
<1> QED BY <1>1, <1>2, <1>3, <1>4, <1>5, <1>6, <1>7, <1>8, <1>9, <1>10, <1>11
        DEF ViewNext, MainThread

\* Each step of a frame leaves the page measured as the next step needs it, with
\* or without a key (dashboard_page.cpp, update; container.cpp:344-350).
THEOREM ViewInvariant == ASSUME TextsFit PROVE ViewSpec => []ViewInv
<1>1. ViewInit => ViewInv
  BY ViewInitially
<1>2. ViewInv /\ [ViewNext]_viewVars => ViewInv'
  BY ViewStep
<1> QED BY <1>1, <1>2, PTL DEF ViewSpec

\* For texts of which each fits the page on its own (TextsFit) and progress bars
\* of any number of shapes: no shape leaves the bar, no label leaves the screen
\* in a frame without a key, and one centred by one text and drawn with another
\* starts on the screen and ends no further than the difference of the two takes
\* it (container.cpp:344-350, text.cpp:16).
THEOREM DrawnOnScreenInvariant ==
    ASSUME TextsFit PROVE ViewSpec => []DrawnOnScreen
<1>1. ViewInv => DrawnOnScreen
  BY DEF ViewInv, FrameInv
<1> QED BY <1>1, ViewInvariant, PTL

\* A frame in which no key comes shows the selected tab, in the middle, and the
\* arrows that lead somewhere, whatever earlier keys did to earlier frames
\* (dashboard_page.cpp, update; container.cpp:344-350; text.cpp:16).
THEOREM QuietFrameIsTrueInvariant ==
    ASSUME TextsFit PROVE ViewSpec => []QuietFrameIsTrue
<1>1. ViewInv => QuietFrameIsTrue
  <2> SUFFICES ASSUME ViewInv, pc = "flush", quiet
               PROVE  /\ picture.text = index
                      /\ (picture.left - (Screen - picture.right)) \in {-1, 0, 1}
                      /\ picture.up => index > 0
                      /\ picture.down => index < Tabs - 1
                      /\ picture.up \/ picture.down
    BY DEF QuietFrameIsTrue
  <2>1. /\ (index = 0 => ~up) /\ (index = Tabs - 1 => ~down)
        /\ picture.up = up /\ picture.down = down /\ picture.text = index
        /\ picture.left = CentredBy(TextWidth[index])
        /\ picture.right = picture.left + TextWidth[index]
        /\ (up \/ down) /\ index \in 0 .. Tabs - 1
    BY DEF ViewInv, QuietInv, FrameInv, ViewType
  <2>2. TextWidth[index] \in LabelWidths
    BY <2>1, WidthsTyped
  <2>3. (picture.left - (Screen - picture.right)) \in {-1, 0, 1}
    BY <2>1, <2>2, CentredIsMiddle
  <2>4. (index # 0 => index > 0) /\ (index # Tabs - 1 => index < Tabs - 1)
    BY <2>1 DEF Tabs
  <2> QED BY <2>1, <2>3, <2>4
<1> QED BY <1>1, ViewInvariant, PTL

=============================================================================
