------------------------------ MODULE TreeWalk ------------------------------
(***************************************************************************)
(* The main thread walks the tree of components in every frame while a key *)
(* thread replaces the page.  The walk keeps raw pointers on its stack and *)
(* reads the children of a component after it has called it; set_root puts *)
(* a page into the tree before the page has built its own part of it.      *)
(*                                                                         *)
(* A page is a column of rows; a row and the widget in it are one.  Pages  *)
(* with an odd number are dashboards, whose update needs their arrows, the *)
(* others are confirmation pages.  Key threads come one at a time          *)
(* (PageNavigation lets them overlap).  A list that is copied while it is  *)
(* changed gives its old or its new contents or ends the program; so does  *)
(* a component that is used after it was destroyed.                        *)
(***************************************************************************)
EXTENDS Naturals, Sequences

CONSTANTS
    Rows,     \* rows of a page
    MaxTurns  \* bound: pages that key threads open

ASSUME TreeAssumption == Rows \in Nat \ {0} /\ MaxTurns \in Nat

VARIABLES
    children, \* the viewport's components: a sequence of pages
    root,     \* Viewport::root
    new,      \* the page set_root was given
    built,    \* [pages made -> parts of it that are in the tree]
    turn,     \* where the key thread is in set_root
    stack,    \* the walk's stack, the top first
    current,  \* the component the walk is at
    step,     \* where the main thread is: "begin", "visit" or "fetch"
    visited,  \* components this frame has called
    drawn,    \* components the last whole frame has called
    lost,     \* history: pages destroyed since the frame began
    calm,     \* history: no set_root since the frame began
    crashed   \* undefined behaviour has ended the program

tree     == <<children, root, new, built, turn>>
walk     == <<stack, current, step, visited, drawn>>
treeVars == <<tree, walk, lost, calm, crashed>>

-----------------------------------------------------------------------------
\* Part 0 of a page is the page itself, part 1 its column, the others are rows.
Part(p, n) == [page |-> p, part |-> n]
Viewport   == Part(0, 0)
Parts      == Rows + 2
Pages      == DOMAIN built

\* The column and all rows are in the tree.
IsBuilt(p) == built[p] = Rows + 1

IsDashboard(p) == p % 2 = 1

\* A page lives as long as the list, the root or set_root refers to it.
LivePages == {children[i] : i \in DOMAIN children} \cup {root, new}

IsDead(c) == c # Viewport /\ c.page \notin LivePages

\* get_components, of a component that may be dead: then of what is left of it.
Components(c) ==
    IF c = Viewport THEN [i \in DOMAIN children |-> Part(children[i], 0)]
    ELSE CASE c.part = 0 -> [i \in 1 .. (IF built[c.page] > 0 THEN 1 ELSE 0) |-> Part(c.page, 1)]
           [] c.part = 1 -> [i \in 1 .. built[c.page] - 1 |-> Part(c.page, i + 1)]
           [] OTHER      -> << >>

\* The list of components that the key thread is changing.
IsChanging(c) ==
    \/ turn \in {"erase", "push"} /\ c = Viewport
    \/ turn = "build" /\ c = Part(root, IF built[root] = 0 THEN 0 ELSE 1)

\* DashboardPage::update uses its arrows, which are null until it is built.
LacksArrows(c) == c # Viewport /\ c.part = 0 /\ IsDashboard(c.page) /\ ~IsBuilt(c.page)

TreeInit ==
    /\ children = <<1>> /\ root = 1 /\ new = 1 /\ built = <<Rows + 1>> /\ turn = "idle"
    /\ stack = << >> /\ current = Viewport /\ step = "begin"
    /\ visited = << >> /\ drawn = << >>
    /\ lost = {} /\ calm = TRUE /\ crashed = FALSE

-----------------------------------------------------------------------------
(* traverse_depth_first by the main thread, with update as its callback *)

BeginFrame ==
    /\ step = "begin"
    /\ stack' = <<Viewport>> /\ visited' = << >>
    /\ lost' = {} /\ calm' = (turn = "idle")
    /\ step' = "visit"
    /\ UNCHANGED <<tree, current, drawn, crashed>>

\* The top of the stack is taken and called.
Visit ==
    /\ step = "visit" /\ stack # << >>
    /\ current' = Head(stack) /\ stack' = Tail(stack)
    /\ visited' = Append(visited, current')
    /\ step' = "fetch"
    /\ \/ ~LacksArrows(current') /\ crashed' = FALSE
       \/ (LacksArrows(current') \/ IsDead(current')) /\ crashed' = TRUE
    /\ UNCHANGED <<tree, drawn, lost, calm>>

\* Its components, as they are now, are copied and put on the stack, the first
\* one on top.
Fetch ==
    /\ step = "fetch"
    /\ stack' = Components(current) \o stack
    /\ step' = "visit"
    /\ \/ crashed' = FALSE
       \/ (IsDead(current) \/ IsChanging(current)) /\ crashed' = TRUE
    /\ UNCHANGED <<tree, current, visited, drawn, lost, calm>>

EndFrame ==
    /\ step = "visit" /\ stack = << >>
    /\ drawn' = visited
    /\ step' = "begin"
    /\ UNCHANGED <<tree, stack, current, visited, lost, calm, crashed>>

-----------------------------------------------------------------------------
(* set_root by a key thread *)

\* A page on the screen opens another one, dashboard and confirmation in turn.
MakePage ==
    /\ turn = "idle" /\ Len(built) <= MaxTurns
    /\ built' = Append(built, 0)
    /\ new' = Len(built')
    /\ turn' = "erase" /\ calm' = FALSE
    /\ UNCHANGED <<children, root, walk, lost, crashed>>

\* Mutant: the old page stays in the tree.
EraseRootNot ==
    /\ turn = "erase"
    /\ turn' = "assign"
    /\ UNCHANGED <<children, root, new, built, walk, lost, calm, crashed>>

\* What erase of the place where find finds e leaves of a sequence.
Erase(s, e) ==
    LET i == CHOOSE i \in DOMAIN s : s[i] = e /\ \A j \in 1 .. i - 1 : s[j] # e
    IN  SubSeq(s, 1, i - 1) \o SubSeq(s, i + 1, Len(s))

EraseRoot ==
    /\ turn = "erase"
    /\ children' = IF \E i \in DOMAIN children : children[i] = root
                   THEN Erase(children, root) ELSE children
    /\ turn' = "assign"
    /\ UNCHANGED <<root, new, built, walk, lost, calm, crashed>>

\* The last reference to the old page goes, and the page with all below it.
AssignNewRoot ==
    /\ turn = "assign"
    /\ root' = new
    /\ turn' = "push"
    /\ UNCHANGED <<children, new, built, walk, calm, crashed>>
    /\ lost' = lost \cup ((1 .. Len(built)) \ LivePages')

\* Mutant: the page is never initialized.
PushRootOnly ==
    /\ turn = "push"
    /\ children' = Append(children, root)
    /\ turn' = "idle"
    /\ UNCHANGED <<root, new, built, walk, lost, calm, crashed>>

\* add_component: the page is in the tree before it is initialized.
PushRoot ==
    /\ turn = "push"
    /\ children' = Append(children, root)
    /\ turn' = "build"
    /\ UNCHANGED <<root, new, built, walk, lost, calm, crashed>>

\* initialize of the page adds its column and then row after row to it.
Build ==
    /\ turn = "build"
    /\ built' = [built EXCEPT ![root] = @ + 1]
    /\ turn' = IF built'[root] = Rows + 1 THEN "idle" ELSE "build"
    /\ UNCHANGED <<children, root, new, walk, lost, calm, crashed>>

Walk    == ~crashed /\ (BeginFrame \/ Visit \/ Fetch \/ EndFrame)
SetRoot == ~crashed /\ (EraseRoot \/ AssignNewRoot \/ PushRoot \/ Build)

TreeNext == Walk \/ SetRoot \/ (~crashed /\ MakePage)

TreeSpec == TreeInit /\ [][TreeNext]_treeVars /\ WF_treeVars(Walk) /\ WF_treeVars(SetRoot)

-----------------------------------------------------------------------------
(* Properties *)

\* Only a page that was replaced while this very frame was walking can be met
\* dead, and only a frame that a set_root runs into can fail: what earlier
\* frames and earlier key threads left behind is always a whole, live tree
\* (application.cpp:194, component.cpp:36-46, viewport.cpp:73-79).
WalkMeetsLive ==
    /\ \A i \in DOMAIN stack : IsDead(stack[i]) => stack[i].page \in lost
    /\ crashed => ~calm

\* A frame has shown page p: the viewport, the page and all its parts, each
\* once, none before the component it is in.
Parent(c) == CASE c.part = 0 -> Viewport
               [] c.part = 1 -> Part(c.page, 0)
               [] OTHER      -> Part(c.page, 1)

ShowsPage(frames, p) ==
    /\ Len(frames) = Parts + 1 /\ frames[1] = Viewport
    /\ \A n \in 0 .. Parts - 1 :
         \E i \in 2 .. Len(frames) :
            frames[i] = Part(p, n) /\ \E j \in 1 .. i - 1 : frames[j] = Parent(Part(p, n))

\* When keys stop, the frames come to show the root page as a whole and nothing
\* else, unless a replacement has hit a frame badly before.
PageComesToShow ==
    <>[](turn = "idle") => <>[]ShowsPage(drawn, root) \/ <>crashed

=============================================================================
