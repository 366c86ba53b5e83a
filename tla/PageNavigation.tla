--------------------------- MODULE PageNavigation ---------------------------
(***************************************************************************)
(* Key events, the broadcast to the components and the change of pages.    *)
(*                                                                         *)
(* Every key report runs in a detached thread of its own: it puts the      *)
(* event into the Input singleton, collects the components in post-order   *)
(* and calls them one by one until has_input says somebody took the event. *)
(* A page may replace itself (Viewport::set_root); the main thread does so *)
(* when a display appears.  Nothing here is locked, so every access to     *)
(* shared memory is a step.  A page is alive while it is referenced; its   *)
(* destructor takes its web socket handler out of the registry.            *)
(*                                                                         *)
(* The containers and texts inside a page ignore events and are left out.  *)
(* A C++ exception in a thread ends the program.                           *)
(***************************************************************************)
EXTENDS Integers, Sequences, FiniteSets

CONSTANTS
    KeyThreads,   \* detached threads that may exist at a time
    Main,         \* the main thread
    Overlap,      \* may a key thread start while another one runs
    MaxEvents,    \* bound: key reports
    MaxPlugs      \* bound: times the main thread shows the first page

ASSUME NavigationAssumption ==
    /\ Main \notin KeyThreads /\ IsFiniteSet(KeyThreads)
    /\ Overlap \in BOOLEAN
    /\ MaxEvents \in Nat /\ MaxPlugs \in Nat

Actors == KeyThreads \cup {Main}
Tabs   == 3    \* FULL SCAN, QUICK SCAN, SHUTDOWN
NoPage == 0
Keys   == {"DOWN", "UP", "ENTER", "CANCEL", "other"}  \* other: no page uses it

VARIABLES
    pages,     \* all pages ever made: sequence of [kind, index, label]
    children,  \* Viewport's components: sequence of pages
    root,      \* Viewport::root
    handler,   \* the page whose trigger_scan_interface_early is registered
    hasInput,  \* Input::input_event # nullptr
    pc,        \* [Actors -> where the thread is]
    key,       \* [KeyThreads -> the key of its event]
    todo,      \* [KeyThreads -> pages collected and not yet visited]
    page,      \* [KeyThreads -> the page being called]
    seen,      \* [KeyThreads -> value of current_index in a register]
    new,       \* [Actors -> the page a set_root installs]
    ending,    \* [KeyThreads -> how its last broadcast ended]
    handled,   \* [KeyThreads -> did a page take its event]: history
    events,    \* key reports so far
    plugs,     \* first pages shown so far
    terminated \* an exception ended the program

viewport == <<pages, children, root, handler>>
threads  == <<pc, key, todo, page, seen, new, ending, handled>>
vars == <<viewport, hasInput, threads, events, plugs, terminated>>

-----------------------------------------------------------------------------
\* current_index starts at the first tab, and that tab is what is shown.
NewPage(kind) == [kind |-> kind, index |-> 0, label |-> 0]

\* Pages held by Viewport::root, by the component list, or by the argument of
\* a set_root that is under way.  A walk's copy of a list, held for one turn of
\* its loop, is left out.
InSetRoot(a) == pc[a] \in {"remove", "assign", "add"}
Alive == {children[i] : i \in DOMAIN children}
         \cup ({root} \ {NoPage})
         \cup {new[a] : a \in {b \in Actors : InSetRoot(b)}}

IsKind(p, kind) == pages[p].kind = kind

Init ==
    /\ pages = << >> /\ children = << >> /\ root = NoPage /\ handler = NoPage
    /\ hasInput = FALSE
    /\ pc = [a \in Actors |-> "idle"]
    /\ key = [t \in KeyThreads |-> "other"]
    /\ todo = [t \in KeyThreads |-> << >>]
    /\ page = [t \in KeyThreads |-> NoPage]
    /\ seen = [t \in KeyThreads |-> 0]
    /\ new = [a \in Actors |-> NoPage]
    /\ ending = [t \in KeyThreads |-> "none"]
    /\ handled = [t \in KeyThreads |-> FALSE]
    /\ events = 0 /\ plugs = 0 /\ terminated = FALSE

Goto(a, label) == pc' = [pc EXCEPT ![a] = label]

-----------------------------------------------------------------------------
(* The broadcast *)

\* The reader thread starts a key thread.
Report(t) ==
    /\ pc[t] = "idle" /\ events < MaxEvents
    /\ Overlap \/ \A u \in KeyThreads : pc[u] = "idle"
    /\ events' = events + 1
    /\ \E k \in Keys : key' = [key EXCEPT ![t] = k]
    /\ handled' = [handled EXCEPT ![t] = FALSE]
    /\ ending' = [ending EXCEPT ![t] = "none"]
    /\ Goto(t, "parse")
    /\ UNCHANGED <<viewport, hasInput, todo, page, seen, new, plugs, terminated>>

\* parse_input_event stores the event and calls the callback.
ParseInputEvent(t) ==
    /\ pc[t] = "parse"
    /\ hasInput' = TRUE
    /\ Goto(t, "collect")
    /\ UNCHANGED <<viewport, key, todo, page, seen, new, ending, handled,
                   events, plugs, terminated>>

Reversed(s) == [i \in DOMAIN s |-> s[Len(s) + 1 - i]]

\* The first loop of traverse_post_order: children come right-most first, the
\* viewport itself comes last.
Collect(t) ==
    /\ pc[t] = "collect"
    /\ todo' = [todo EXCEPT ![t] = Reversed(children)]
    /\ Goto(t, "visit")
    /\ UNCHANGED <<viewport, hasInput, key, page, seen, new, ending, handled,
                   events, plugs, terminated>>

\* Mutant: a component is called and stays on the stack.
VisitNoPop(t) ==
    /\ pc[t] = "visit"
    /\ \/ /\ ~hasInput
          /\ Goto(t, "idle") /\ ending' = [ending EXCEPT ![t] = "stopped"]
          /\ UNCHANGED page
       \/ /\ hasInput /\ todo[t] # << >>
          /\ Goto(t, "handle") /\ page' = [page EXCEPT ![t] = Head(todo[t])]
          /\ UNCHANGED ending
       \/ /\ hasInput /\ todo[t] = << >>
          /\ Goto(t, "idle") /\ ending' = [ending EXCEPT ![t] = "broadcast"]
          /\ UNCHANGED page
    /\ UNCHANGED <<viewport, hasInput, key, todo, seen, new, handled, events,
                   plugs, terminated>>

\* One turn of its second loop: stop if the event is gone, else call the next
\* component; the viewport, which is the last, only prints.
Visit(t) ==
    /\ pc[t] = "visit"
    /\ \/ /\ ~hasInput
          /\ Goto(t, "idle") /\ ending' = [ending EXCEPT ![t] = "stopped"]
          /\ UNCHANGED <<todo, page>>
       \/ /\ hasInput /\ todo[t] # << >>
          /\ Goto(t, "handle")
          /\ page' = [page EXCEPT ![t] = Head(todo[t])]
          /\ todo' = [todo EXCEPT ![t] = Tail(@)]
          /\ UNCHANGED ending
       \/ /\ hasInput /\ todo[t] = << >>
          /\ Goto(t, "idle") /\ ending' = [ending EXCEPT ![t] = "broadcast"]
          /\ UNCHANGED <<todo, page>>
    /\ UNCHANGED <<viewport, hasInput, key, seen, new, handled, events, plugs,
                   terminated>>

\* Mutant: the event stays in the singleton.
SetInputAsHandledNot(t) ==
    /\ pc[t] = "handled"
    /\ handled' = [handled EXCEPT ![t] = TRUE]
    /\ Goto(t, "visit")
    /\ UNCHANGED <<viewport, hasInput, key, todo, page, seen, new, ending, events,
                   plugs, terminated>>

\* set_input_as_handled; the callee returns to the broadcast.
SetInputAsHandled(t) ==
    /\ pc[t] = "handled"
    /\ hasInput' = FALSE
    /\ handled' = [handled EXCEPT ![t] = TRUE]
    /\ Goto(t, "visit")
    /\ UNCHANGED <<viewport, key, todo, page, seen, new, ending, events, plugs,
                   terminated>>

-----------------------------------------------------------------------------
(* Making a page and set_root, by a key thread or by the main thread *)

\* A page is made before the old one is gone.  A dashboard registers its
\* message, and register_message throws if another one still has it.
Construct(a, kind) ==
    IF kind = "dashboard" /\ handler # NoPage
    THEN /\ terminated' = TRUE
         /\ UNCHANGED <<pages, handler, new, pc>>
    ELSE /\ pages' = Append(pages, NewPage(kind))
         /\ new' = [new EXCEPT ![a] = Len(pages) + 1]
         /\ handler' = IF kind = "dashboard" THEN Len(pages) + 1 ELSE handler
         /\ Goto(a, "remove")
         /\ UNCHANGED terminated

\* Mutant: the old root stays among the components.
RemoveOldRootNot(a) ==
    /\ pc[a] = "remove"
    /\ Goto(a, "assign")
    /\ UNCHANGED <<viewport, hasInput, key, todo, page, seen, new, ending, handled,
                   events, plugs, terminated>>

\* What erase leaves of a sequence.
Erase(s, i) == SubSeq(s, 1, i - 1) \o SubSeq(s, i + 1, Len(s))

\* set_root takes the old root, where it is first found, out of the components ...
RemoveOldRoot(a) ==
    /\ pc[a] = "remove"
    /\ \/ /\ \A i \in DOMAIN children : children[i] # root
          /\ children' = children
       \/ \E i \in DOMAIN children :
            /\ children[i] = root /\ \A j \in 1 .. i - 1 : children[j] # root
            /\ children' = Erase(children, i)
    /\ Goto(a, "assign")
    /\ UNCHANGED <<pages, root, handler, hasInput, key, todo, page, seen, new,
                   ending, handled, events, plugs, terminated>>

\* Mutant: the destructor of a dashboard does not deregister.
AssignRootKeepsHandler(a) ==
    /\ pc[a] = "assign"
    /\ root' = new[a]
    /\ Goto(a, "add")
    /\ UNCHANGED <<pages, children, handler, hasInput, key, todo, page, seen, new,
                   ending, handled, events, plugs, terminated>>

\* ... lets go of it, which runs the destructor of a page nobody else holds ...
AssignRoot(a) ==
    /\ pc[a] = "assign"
    /\ root' = new[a]
    /\ Goto(a, "add")
    /\ children' = children /\ new' = new
    /\ handler' = IF handler \in Alive' THEN handler ELSE NoPage
    /\ UNCHANGED <<pages, hasInput, key, todo, page, seen, ending, handled,
                   events, plugs, terminated>>

\* Mutant: the page that has replaced itself writes its own text again.
AddNewRootRelabels(a) ==
    /\ pc[a] = "add"
    /\ children' = Append(children, root)
    /\ Goto(a, IF a = Main THEN "idle" ELSE "label")
    /\ UNCHANGED <<pages, root, handler, hasInput, key, todo, page, seen, new,
                   ending, handled, events, plugs, terminated>>

\* ... and adds what Viewport::root is now to the components.
AddNewRoot(a) ==
    /\ pc[a] = "add"
    /\ children' = IF \E i \in DOMAIN children : children[i] = root
                   THEN children ELSE Append(children, root)
    /\ Goto(a, IF a = Main THEN "idle" ELSE "handled")
    /\ UNCHANGED <<pages, root, hasInput, key, todo, page, seen, new,
                   ending, handled, events, plugs, terminated>>
    /\ handler' = IF handler \in Alive' THEN handler ELSE NoPage

\* Application::update has found a display again: Viewport::initialize.
Plug ==
    /\ pc[Main] = "idle" /\ plugs < MaxPlugs
    /\ plugs' = plugs + 1
    /\ Construct(Main, "dashboard")
    /\ UNCHANGED <<children, root, hasInput, key, todo, page, seen, ending,
                   handled, events>>

-----------------------------------------------------------------------------
(* input_event of the pages *)

\* Mutant: the bound is off by one.
TestBoundWide(t) ==
    /\ pc[t] = "handle" /\ IsKind(page[t], "dashboard")
    /\ key[t] \in {"DOWN", "UP"}
    /\ LET index == pages[page[t]].index IN
         IF (key[t] = "DOWN" /\ index < Tabs) \/ (key[t] = "UP" /\ index > 0)
         THEN Goto(t, "load") /\ seen' = [seen EXCEPT ![t] = index]
         ELSE Goto(t, "label") /\ UNCHANGED seen
    /\ UNCHANGED <<viewport, hasInput, key, todo, page, new, ending, handled,
                   events, plugs, terminated>>

\* The dashboard, on DOWN or UP: may the index move?
TestBound(t) ==
    /\ pc[t] = "handle" /\ IsKind(page[t], "dashboard")
    /\ key[t] \in {"DOWN", "UP"}
    /\ LET index == pages[page[t]].index IN
         IF (key[t] = "DOWN" /\ index < Tabs - 1) \/ (key[t] = "UP" /\ index > 0)
         THEN Goto(t, "load") /\ seen' = [seen EXCEPT ![t] = index]
         ELSE Goto(t, "label") /\ UNCHANGED seen
    /\ UNCHANGED <<viewport, hasInput, key, todo, page, new, ending, handled,
                   events, plugs, terminated>>

\* The index to change: an optimised build keeps the one it tested, the debug
\* build reads it again.
LoadIndex(t) ==
    /\ pc[t] = "load"
    /\ \/ UNCHANGED seen
       \/ seen' = [seen EXCEPT ![t] = pages[page[t]].index]
    /\ Goto(t, "store")
    /\ UNCHANGED <<viewport, hasInput, key, todo, page, new, ending, handled,
                   events, plugs, terminated>>

StoreIndex(t) ==
    /\ pc[t] = "store"
    /\ pages' = [pages EXCEPT ![page[t]].index =
                    IF key[t] = "DOWN" THEN seen[t] + 1 ELSE seen[t] - 1]
    /\ Goto(t, "label")
    /\ UNCHANGED <<children, root, handler, hasInput, key, todo, page, seen, new,
                   ending, handled, events, plugs, terminated>>

\* The text shows the tab of the index.
ShowTab(t) ==
    /\ pc[t] = "label"
    /\ pages' = [pages EXCEPT ![page[t]].label = pages[page[t]].index]
    /\ Goto(t, "handled")
    /\ UNCHANGED <<children, root, handler, hasInput, key, todo, page, seen, new,
                   ending, handled, events, plugs, terminated>>

\* Mutant: every tab opens the confirmation.
SelectTabAny(t) ==
    /\ pc[t] = "handle" /\ IsKind(page[t], "dashboard") /\ key[t] = "ENTER"
    /\ Construct(t, "confirm")
    /\ UNCHANGED <<children, root, hasInput, key, todo, page, seen, ending,
                   handled, events, plugs>>

\* The dashboard, on ENTER: the first tab opens the confirmation, the others
\* only print.
SelectTab(t) ==
    /\ pc[t] = "handle" /\ IsKind(page[t], "dashboard") /\ key[t] = "ENTER"
    /\ IF pages[page[t]].index = 0
       THEN Construct(t, "confirm")
       ELSE Goto(t, "handled") /\ UNCHANGED <<pages, handler, new, terminated>>
    /\ UNCHANGED <<children, root, hasInput, key, todo, page, seen, ending,
                   handled, events, plugs>>

\* The confirmation: ENTER sends a message to the server, CANCEL goes back.
ConfirmScan(t) ==
    /\ pc[t] = "handle" /\ IsKind(page[t], "confirm") /\ key[t] = "ENTER"
    /\ Goto(t, "handled")
    /\ UNCHANGED <<viewport, hasInput, key, todo, page, seen, new, ending,
                   handled, events, plugs, terminated>>

CancelScan(t) ==
    /\ pc[t] = "handle" /\ IsKind(page[t], "confirm") /\ key[t] = "CANCEL"
    /\ Construct(t, "dashboard")
    /\ UNCHANGED <<children, root, hasInput, key, todo, page, seen, ending,
                   handled, events, plugs>>

\* A page that has no use for the event returns without taking it.
Ignore(t) ==
    /\ pc[t] = "handle"
    /\ \/ key[t] = "other"
       \/ IsKind(page[t], "dashboard") /\ key[t] = "CANCEL"
       \/ IsKind(page[t], "confirm") /\ key[t] \in {"DOWN", "UP"}
    /\ Goto(t, "visit")
    /\ UNCHANGED <<viewport, hasInput, key, todo, page, seen, new, ending,
                   handled, events, plugs, terminated>>

-----------------------------------------------------------------------------
SetRoot(a) == RemoveOldRoot(a) \/ AssignRoot(a) \/ AddNewRoot(a)

InputEvent(t) == \/ TestBound(t) \/ LoadIndex(t) \/ StoreIndex(t) \/ ShowTab(t)
                 \/ SelectTab(t)
                 \/ ConfirmScan(t)
                 \/ CancelScan(t)
                 \/ Ignore(t)

Broadcast(t) == ParseInputEvent(t) \/ Collect(t) \/ Visit(t) \/ SetInputAsHandled(t)

Runs(t) == Broadcast(t) \/ InputEvent(t) \/ SetRoot(t)

Next == /\ ~terminated
        /\ \/ \E t \in KeyThreads : Report(t) \/ Runs(t)
           \/ Plug
           \/ SetRoot(Main)

Spec == Init /\ [][Next]_vars

\* Every started thread gets to run.
FairSpec == /\ Spec
            /\ \A t \in KeyThreads : WF_vars(~terminated /\ Runs(t))
            /\ WF_vars(~terminated /\ SetRoot(Main))

-----------------------------------------------------------------------------
(* Properties *)

\* The values of the variables and the bounds.
TypeOK ==
    /\ pages \in Seq([kind : {"dashboard", "confirm"}, index : Int, label : Int])
    /\ children \in Seq(1 .. Len(pages))
    /\ root \in 0 .. Len(pages) /\ handler \in 0 .. Len(pages)
    /\ hasInput \in BOOLEAN
    /\ pc \in [Actors -> {"idle", "parse", "collect", "visit", "handle", "load",
                          "store", "label", "handled", "remove", "assign", "add"}]
    /\ key \in [KeyThreads -> Keys]
    /\ todo \in [KeyThreads -> Seq(1 .. Len(pages))]
    /\ page \in [KeyThreads -> 0 .. Len(pages)]
    /\ seen \in [KeyThreads -> Int]
    /\ new \in [Actors -> 0 .. Len(pages)]
    /\ ending \in [KeyThreads -> {"none", "stopped", "broadcast"}]
    /\ handled \in [KeyThreads -> BOOLEAN]
    /\ events \in 0 .. MaxEvents /\ plugs \in 0 .. MaxPlugs
    /\ terminated \in BOOLEAN

Quiet == \A a \in Actors : ~InSetRoot(a)

\* Between two calls of set_root the viewport holds its root and nothing else,
\* whichever thread changed the page (viewport.cpp:73-79), and a dashboard that
\* is shown receives its messages, although it registered before the dashboard
\* it replaces deregistered (web_socket_client.cpp:98-113).
RootIsThePage ==
    Quiet => /\ children = IF root = NoPage THEN << >> ELSE <<root>>
             /\ root # NoPage /\ IsKind(root, "dashboard") => handler = root

\* The registered handler belongs to a page that is alive, although the new
\* page is made before the old one is destroyed (dashboard_page.cpp:25-29).
HandlerIsAlive == handler # NoPage => handler \in Alive /\ IsKind(handler, "dashboard")

\* A key thread works on live pages only: the broadcast keeps raw pointers, and
\* a page may destroy itself in its own input_event, but then nothing of it is
\* touched again (component.cpp:194-221, dashboard_page.cpp:104-108).
CallsLivePages ==
    \A t \in KeyThreads :
        pc[t] \in {"handle", "load", "store", "label"} => page[t] \in Alive

\* The index stays within the tabs and the text shows it when nobody is
\* changing it (dashboard_page.cpp:95-135).
TabIsShown ==
    \A p \in Alive :
        /\ pages[p].index \in 0 .. Tabs - 1
        /\ (\A t \in KeyThreads : pc[t] # "label") => pages[p].label = pages[p].index

\* The broadcast stops because a page has taken the very event of the thread:
\* "Input has been processed, stop broadcasting." (application.cpp:143), and an
\* event a page has taken reaches nobody else.
StopsWhenProcessed ==
    \A t \in KeyThreads :
        /\ ending[t] = "stopped" => handled[t]
        /\ handled[t] => ending[t] # "broadcast" /\ pc[t] # "handle"

\* "Devices can be plugged or unplugged anytime" (application.h:36): showing the
\* first page for a display that comes back does not end the program.
PlugAnytime == ~terminated

\* Every key thread ends its broadcast, whatever the others do.
KeyThreadsEnd ==
    \A t \in KeyThreads : pc[t] # "idle" ~> pc[t] = "idle" \/ terminated

-----------------------------------------------------------------------------
Navigation == INSTANCE Navigation WITH
    page <- IF root = NoPage THEN "none" ELSE pages[root].kind,
    tab  <- IF root = NoPage THEN 0 ELSE pages[root].index

\* One key at a time, each key press moves the page or the tab by one step of
\* the navigation the display shows, or does nothing.
ImplementsNavigation == Navigation!Spec

=============================================================================
