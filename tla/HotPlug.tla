------------------------------- MODULE HotPlug -------------------------------
(***************************************************************************)
(* The main loop of the application with devices that come and go.  Every  *)
(* frame clears the display, lists /dev, opens the ports it does not know, *)
(* drops the devices whose port is gone, chooses the main display, draws   *)
(* and flushes.  The environment may plug and unplug between any two steps *)
(* of a frame, so the list of ports is stale when it is used.              *)
(*                                                                         *)
(* A device object is told apart by the port and by the number of the      *)
(* plug-in it was opened at: a replugged device needs a new object.        *)
(*                                                                         *)
(* The channel and the pages have modules of their own (CommandChannel,    *)
(* PackageReader, PageNavigation, TreeWalk) and are coarse here: of them   *)
(* the module keeps what can stop the main thread.  `mishaps' is the       *)
(* history of the causes: an unplugging, a fault of a line, a late answer  *)
(* to the previous process, two threads among the pages at once.           *)
(***************************************************************************)
EXTENDS Naturals

CONSTANTS
    Ports,     \* names ttyACMx
    None,      \* no main display
    MaxPlugs,  \* bound: times a device is plugged in
    MaxKeys    \* bound: key threads that turn a page at the same time

ASSUME HotPlugAssumption == /\ None \notin [port : Ports, plug : Nat]
                            /\ MaxPlugs \in Nat /\ MaxKeys \in Nat

VARIABLES
    plugged,    \* [Ports -> number of the present plug-in, 0 if there is none]
    plugs,      \* plug-ins so far
    mishaps,    \* history: what has happened of "unplug", "line", "stray", "keys"
    pc,         \* where the main thread is in its frame
    after,      \* where it goes on when its command is answered
    listed,     \* com_ports: what `ls /dev' saw
    todo,       \* listed ports not looked at yet
    connected,  \* connected_devices
    main,       \* DisplayServer::main_device
    readers,    \* devices whose reader thread runs
    root,       \* what Viewport::root is: "none", "dashboard" or "page"
    turning     \* [kind of page -> key threads about to put one up]

world == <<plugged, plugs, mishaps>>
frame == <<pc, after, listed, todo>>
pages == <<root, turning>>
vars  == <<world, frame, connected, main, readers, pages>>

-----------------------------------------------------------------------------
Device == [port : Ports, plug : 1 .. MaxPlugs]

Works(d)      == plugged[d.port] = d.plug
HasDevice(p)  == \E d \in connected : d.port = p

\* run_command of `ls /dev'.
Listing == {p \in Ports : plugged[p] # 0}

\* create_device: the object stands for the plug-in it was opened at.
CreateDevice(p) == [port |-> p, plug |-> plugged[p]]

\* The reference to the old display is dropped with the assignment.
SetMainDisplay(device) == main' = device

Objects       == connected \cup ({main} \ {None})

\* The main thread sleeps in receive_message for an answer that cannot come: it
\* was lost, or nobody is there to send it or to read it.
Hangs == \/ pc = "unanswered"
         \/ pc = "waiting" /\ ~(Works(main) /\ main \in readers)
Ended == pc = "terminated" \/ Hangs

\* The main thread puts up a page, or walks the pages and draws them.
AmongPages == \/ pc \in {"show", "draw"}
              \/ pc \in {"waiting", "unanswered"} /\ after = "flush"

PageKinds == {"dashboard", "page"}

\* A key thread has found a page and not yet put up the next.
KeyAmongPages == \E kind \in PageKinds : turning[kind] > 0

Init == /\ plugged = [p \in Ports |-> 0] /\ plugs = 0 /\ mishaps = {}
        /\ pc = "clear" /\ after = "clear" /\ listed = {} /\ todo = {}
        /\ connected = {} /\ main = None /\ readers = {}
        /\ root = "none" /\ turning = [kind \in PageKinds |-> 0]

-----------------------------------------------------------------------------
(* The display server *)

\* A command to the main display: nothing without one; on a port that is gone
\* the write throws, which ends the program; else the thread waits.
Command(next) ==
    /\ pc' = IF main = None THEN next ELSE IF Works(main) THEN "waiting" ELSE "terminated"
    /\ after' = next
    /\ UNCHANGED <<world, listed, todo, connected, main, readers, pages>>

Clear == pc = "clear" /\ Command("list")

\* All that update() of the components draws counts as one command.
Draw == pc = "draw" /\ Command("flush")

Flush == pc = "flush" /\ Command("clear")

\* The answer comes through the reader thread of the main display.
Answered == /\ pc = "waiting" /\ Works(main) /\ main \in readers
            /\ pc' = after
            /\ UNCHANGED <<world, after, listed, todo, connected, main, readers, pages>>

-----------------------------------------------------------------------------
(* detect_device_event *)

\* `ls /dev' is taken down once, and used until the frame is over.
List ==
    /\ pc = "list"
    /\ listed' = Listing
    /\ todo' = listed'
    /\ pc' = "open"
    /\ UNCHANGED <<world, after, connected, main, readers, pages>>

\* Mutant: connected_devices is not looked at.
OpenAgain(p) ==
    /\ pc = "open" /\ p \in todo
    /\ todo' = todo \ {p}
    /\ LET d == CreateDevice(p) IN
         IF plugged[p] = 0 THEN pc' = "terminated" /\ UNCHANGED <<connected, readers>>
         ELSE /\ connected' = connected \cup {d}
              /\ readers' = readers \cup {d}
              /\ UNCHANGED pc
    /\ UNCHANGED <<world, after, listed, main, pages>>

\* A port without a device object is opened and its reader thread started.
\* The constructor throws if the port has gone since it was listed.
Open(p) ==
    /\ pc = "open" /\ p \in todo
    /\ todo' = todo \ {p}
    /\ IF HasDevice(p) THEN UNCHANGED <<pc, connected, readers>>
       ELSE IF plugged[p] = 0
            THEN pc' = "terminated" /\ UNCHANGED <<connected, readers>>
            ELSE LET d == CreateDevice(p) IN
                 /\ connected' = connected \cup {d}
                 /\ readers' = readers \cup {d}
                 /\ UNCHANGED pc
    /\ UNCHANGED <<world, after, listed, main, pages>>

\* Mutant: nothing goes.
DropNone ==
    /\ pc = "open" /\ todo = {}
    /\ pc' = "choose"
    /\ UNCHANGED <<world, after, listed, todo, connected, main, readers, pages>>

\* Devices whose port was not listed are erased.
Drop ==
    /\ pc = "open" /\ todo = {}
    /\ connected' = {d \in connected : d.port \in listed}
    /\ pc' = "choose"
    /\ UNCHANGED <<world, after, listed, todo, main, readers, pages>>

-----------------------------------------------------------------------------
(* update *)

\* Viewport::initialize makes a dashboard; while another one is the root its
\* message is registered twice, which throws.
ShowFirstPage == IF root = "dashboard"
                 THEN pc' = "terminated" /\ root' = root
                 ELSE pc' = "show" /\ root' = "dashboard"

KeepPage == pc' = "draw" /\ root' = root

\* Another thread goes among the pages while a key thread is there.
MeetKey == mishaps' = IF KeyAmongPages THEN mishaps \cup {"keys"} ELSE mishaps

\* Mutant: the main display is chosen anew in every frame.
ChooseAlways ==
    /\ pc = "choose"
    /\ \/ /\ connected # {}
          /\ \E d \in connected : SetMainDisplay(d)
          /\ ShowFirstPage
       \/ /\ connected = {}
          /\ SetMainDisplay(None) /\ KeepPage
    /\ MeetKey
    /\ UNCHANGED <<plugged, plugs, after, listed, todo, connected, readers, turning>>

\* The main display stays while it is connected; else any other one takes its
\* place and gets the first page, or there is none.
Choose ==
    /\ pc = "choose"
    /\ \/ /\ main \in connected
          /\ UNCHANGED main /\ KeepPage
       \/ /\ main \notin connected /\ connected # {}
          /\ \E d \in connected : SetMainDisplay(d)
          /\ ShowFirstPage
       \/ /\ main \notin connected /\ connected = {}
          /\ SetMainDisplay(None) /\ KeepPage
    /\ MeetKey
    /\ UNCHANGED <<plugged, plugs, after, listed, todo, connected, readers, turning>>

\* add_component initializes the page when it is in the tree already.
PageIsUp ==
    /\ pc = "show"
    /\ pc' = "draw"
    /\ UNCHANGED <<world, after, listed, todo, connected, main, readers, pages>>

-----------------------------------------------------------------------------
(* The reader threads, the line and the key threads *)

\* The read of a port that is gone fails, which ends its reader thread.
ReaderEnds(d) ==
    /\ d \in readers /\ ~Works(d)
    /\ readers' = readers \ {d}
    /\ UNCHANGED <<world, frame, connected, main, pages>>

\* A package breaks off among its data bytes: after five seconds that ends the
\* reader too, with the device plugged in.
ReaderTimesOut(d) ==
    /\ d \in readers /\ Works(d)
    /\ readers' = readers \ {d}
    /\ mishaps' = mishaps \cup {"line"}
    /\ UNCHANGED <<plugged, plugs, frame, connected, main, pages>>

\* The command is refused, or it or its answer is damaged and dropped.
AnswerIsLost ==
    /\ pc = "waiting"
    /\ pc' = "unanswered"
    /\ mishaps' = mishaps \cup {"line"}
    /\ UNCHANGED <<plugged, plugs, after, listed, todo, connected, main, readers, pages>>

\* A late answer to the previous process is taken for this one's, so that the
\* assert on its sub-command fails, or stays at the front of the queue.
AnswerIsStray ==
    /\ pc = "waiting"
    /\ pc' \in {"terminated", "unanswered"}
    /\ mishaps' = mishaps \cup {"stray"}
    /\ UNCHANGED <<plugged, plugs, after, listed, todo, connected, main, readers, pages>>

\* A key thread, of any device, meets a page whose key opens the other kind.
KeyMeetsPage(kind) ==
    /\ root # "none" /\ root # kind
    /\ turning["dashboard"] + turning["page"] < MaxKeys
    /\ turning' = [turning EXCEPT ![kind] = @ + 1]
    /\ IF AmongPages THEN mishaps' = mishaps \cup {"keys"} ELSE MeetKey
    /\ UNCHANGED <<plugged, plugs, frame, connected, main, readers, root>>

\* However late, it puts the other page up.  A second dashboard throws when it
\* registers its message, and who works on a page that another thread replaced
\* may crash.
KeyTurnsPage(kind) ==
    /\ turning[kind] > 0
    /\ turning' = [turning EXCEPT ![kind] = @ - 1]
    /\ \/ /\ ~(kind = "dashboard" /\ root = "dashboard")
          /\ root' = kind /\ UNCHANGED pc
       \/ /\ root = kind \/ "keys" \in mishaps
          /\ pc' = "terminated" /\ UNCHANGED root
    /\ UNCHANGED <<world, after, listed, todo, connected, main, readers>>

\* A key that stays on the page, but meets the main thread there: it may find a
\* page that is not initialized, or leave a text without glyphs to be drawn.
KeySpoilsPage ==
    /\ root # "none" /\ AmongPages
    /\ pc' = "terminated"
    /\ mishaps' = mishaps \cup {"keys"}
    /\ UNCHANGED <<plugged, plugs, after, listed, todo, connected, main, readers, pages>>

Plug(p) ==
    /\ plugged[p] = 0 /\ plugs < MaxPlugs
    /\ plugs' = plugs + 1
    /\ plugged' = [plugged EXCEPT ![p] = plugs + 1]
    /\ UNCHANGED <<mishaps, frame, connected, main, readers, pages>>

Unplug(p) ==
    /\ plugged[p] # 0
    /\ plugged' = [plugged EXCEPT ![p] = 0]
    /\ mishaps' = mishaps \cup {"unplug"}
    /\ UNCHANGED <<plugs, frame, connected, main, readers, pages>>

MainThread == \/ Clear \/ Draw \/ Flush \/ Answered
              \/ List \/ Drop \/ Choose \/ PageIsUp
              \/ \E p \in Ports : Open(p)

Environment == \/ \E d \in Device : ReaderEnds(d) \/ ReaderTimesOut(d)
               \/ AnswerIsLost \/ AnswerIsStray \/ KeySpoilsPage
               \/ \E kind \in PageKinds : KeyMeetsPage(kind) \/ KeyTurnsPage(kind)
               \/ \E p \in Ports : Plug(p) \/ Unplug(p)

Next == MainThread \/ (pc # "terminated" /\ Environment)

Spec == Init /\ [][Next]_vars

\* The main thread runs and the device answers; nobody has to plug anything.
FairSpec == Spec /\ WF_vars(MainThread)

-----------------------------------------------------------------------------
(* Properties *)

\* The values of the variables.
TypeOK ==
    /\ plugged \in [Ports -> 0 .. MaxPlugs] /\ plugs \in 0 .. MaxPlugs
    /\ mishaps \subseteq {"unplug", "line", "stray", "keys"}
    /\ pc \in {"clear", "list", "open", "choose", "show", "draw", "flush",
               "waiting", "unanswered", "terminated"}
    /\ after \in {"clear", "list", "flush"}
    /\ listed \subseteq Ports /\ todo \subseteq listed
    /\ connected \subseteq Device /\ main \in Device \cup {None}
    /\ readers \subseteq Device
    /\ root \in {"none"} \cup PageKinds
    /\ turning \in [PageKinds -> Nat]

\* A port is never opened while an object of an earlier plug-in still has it:
\* the map lets go of it and so does the display server, in the same frame,
\* before the next list is made (application.cpp 52, 96, 188).  And although the
\* destructor does not wait for the detached reader (cfa835.cpp:174-179), no
\* object goes whose reader has more than the read under way to do.
ObjectsMatchPorts ==
    /\ \A d, e \in Objects : d.port = e.port => d = e
    /\ \A d \in readers : Works(d) => d \in Objects

\* What can stop the main thread, whatever is plugged in and at which step.  It
\* ends for a device that was unplugged, a late answer to another process, or two
\* threads that met among the pages, never for what the line loses or damages; it
\* sleeps for ever for an unplugging or for the line (cfa835.cpp:417, 452, 479),
\* never for a key.
EndsForCause ==
    /\ pc = "terminated" => mishaps \cap {"unplug", "stray", "keys"} # {}
    /\ Hangs => mishaps \cap {"unplug", "stray", "line"} # {}

\* A device that stays plugged in gets an object, from this plug-in or, if it
\* was replugged between two lists, from an earlier one; the object of a port
\* that stays empty is dropped, unless the main thread has ended or sleeps for
\* ever.
ChangesAreNoticed ==
    \A p \in Ports :
        /\ plugged[p] # 0 ~> HasDevice(p) \/ plugged[p] = 0 \/ Ended
        /\ HasDevice(p) /\ plugged[p] = 0 ~> ~HasDevice(p) \/ plugged[p] # 0 \/ Ended

=============================================================================
