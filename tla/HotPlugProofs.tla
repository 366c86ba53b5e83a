---------------------------- MODULE HotPlugProofs ----------------------------
(***************************************************************************)
(* For any ports, plug-ins and key threads: the objects, the reader        *)
(* threads and the main display match the ports, and the main thread stops *)
(* only for the causes EndsForCause names.                                 *)
(***************************************************************************)
EXTENDS HotPlug, TLAPS

-----------------------------------------------------------------------------
(* The inductive invariant *)

\* Plug-ins are numbered: no object is of a later plug-in than the last one.
Numbered == /\ \A d \in Objects \cup readers : d.plug <= plugs
            /\ \A p \in Ports : plugged[p] <= plugs

\* The main display is a connected one, except between the moment its port is
\* found gone and the choice of another one in the same frame, which may be the last.
MainIsConnected == \/ main = None
                   \/ main \in connected
                   \/ pc \in {"choose", "terminated"} /\ ~Works(main)

\* The list of this frame has the ports of the objects that still work.
ListHasWorking == pc = "open" => \A d \in connected : Works(d) => d.port \in listed

\* As long as nothing is unplugged no step of the frame finds a dead port, and
\* the first page is shown for the first display only.
NothingFails ==
    /\ \A d \in Objects : Works(d)
    /\ \A p \in listed : plugged[p] # 0
    /\ main # None => main \in connected
    /\ main = None => root = "none"

HotPlugInv ==
    /\ TypeOK
    /\ Numbered
    /\ MainIsConnected
    /\ ListHasWorking
    /\ ObjectsMatchPorts
    /\ pc = "waiting" => main # None
    /\ root = "none" => ~KeyAmongPages
    /\ "unplug" \notin mishaps => NothingFails

\* Key threads and the main thread apart: at most one key thread is among the
\* pages, while the main thread is not, and it opens the page that is not shown.
KeysApart ==
    /\ KeyAmongPages => root # "none" /\ ~AmongPages
    /\ \A kind \in PageKinds : turning[kind] > 0 =>
          /\ root # kind /\ turning[kind] = 1
          /\ \A other \in PageKinds : turning[other] > 0 => other = kind

\* Which cause keeps what from going wrong.
CauseInv ==
    /\ pc = "terminated" => mishaps \cap {"unplug", "stray", "keys"} # {}
    /\ pc = "unanswered" => mishaps \cap {"stray", "line"} # {}
    /\ mishaps \cap {"unplug", "line"} = {} => Objects \subseteq readers
    /\ mishaps \cap {"unplug", "keys"} = {} => KeysApart

-----------------------------------------------------------------------------
(* The types *)

LEMMA DeviceFacts ==
    /\ None \notin Device
    /\ \A d \in Device : d.port \in Ports /\ d.plug \in 1 .. MaxPlugs
    /\ \A d, e \in Device : d.port = e.port /\ d.plug = e.plug => d = e
<1>1. Device \subseteq [port : Ports, plug : Nat]
  BY HotPlugAssumption DEF Device
<1> QED BY <1>1, HotPlugAssumption DEF Device

LEMMA TypeInitially ==
    Init => TypeOK
<1>1. 0 \in 0 .. MaxPlugs
  BY HotPlugAssumption
<1> QED BY <1>1 DEF Init, TypeOK

LEMMA TypeStep ==
    ASSUME TypeOK, [Next]_vars
    PROVE  TypeOK'
<1> USE HotPlugAssumption DEF TypeOK, world, frame, pages
<1>1. ASSUME NEW next \in {"clear", "list", "flush"}, Command(next)
      PROVE  TypeOK'
  BY <1>1 DEF Command
<1>2. CASE Clear \/ Draw \/ Flush
  BY <1>1, <1>2 DEF Clear, Draw, Flush
<1>3. CASE Answered
  BY <1>3 DEF Answered
<1>4. CASE List
  BY <1>4 DEF List, Listing
<1>5. ASSUME NEW p \in Ports, Open(p)
      PROVE  TypeOK'
  <2>1. plugged[p] # 0 => CreateDevice(p) \in Device
    BY DEF CreateDevice, Device
  <2> QED BY <1>5, <2>1 DEF Open
<1>6. CASE Drop
  BY <1>6 DEF Drop
<1>7. CASE Choose
  BY <1>7 DEF Choose, ShowFirstPage, KeepPage, MeetKey, SetMainDisplay, PageKinds
<1>8. ASSUME NEW d \in Device, ReaderEnds(d) \/ ReaderTimesOut(d)
      PROVE  TypeOK'
  BY <1>8 DEF ReaderEnds, ReaderTimesOut
<1>9. CASE PageIsUp \/ AnswerIsLost \/ AnswerIsStray \/ KeySpoilsPage
  BY <1>9 DEF PageIsUp, AnswerIsLost, AnswerIsStray, KeySpoilsPage
<1>13. ASSUME NEW kind \in PageKinds, KeyMeetsPage(kind)
       PROVE  TypeOK'
  <2>1. mishaps' \subseteq {"unplug", "line", "stray", "keys"}
    BY <1>13 DEF KeyMeetsPage, MeetKey
  <2>2. turning' \in [PageKinds -> Nat]
    BY <1>13 DEF KeyMeetsPage
  <2> QED BY <1>13, <2>1, <2>2 DEF KeyMeetsPage
<1>14. ASSUME NEW kind \in PageKinds, KeyTurnsPage(kind)
       PROVE  TypeOK'
  <2>1. turning' \in [PageKinds -> Nat]
    BY <1>14 DEF KeyTurnsPage
  <2>2. root' \in {"none"} \cup PageKinds /\ pc' \in {pc, "terminated"}
    BY <1>14 DEF KeyTurnsPage
  <2> QED BY <1>14, <2>1, <2>2 DEF KeyTurnsPage
<1>10. ASSUME NEW p \in Ports, Plug(p)
       PROVE  TypeOK'
  BY <1>10 DEF Plug
<1>11. ASSUME NEW p \in Ports, Unplug(p)
       PROVE  TypeOK'
  BY <1>11 DEF Unplug
<1>12. CASE UNCHANGED vars
  BY <1>12 DEF vars
<1> QED
  BY <1>2, <1>3, <1>4, <1>5, <1>6, <1>7, <1>8, <1>9, <1>10, <1>11, <1>12, <1>13, <1>14
     DEF Next, MainThread, Environment

\* Every variable keeps its type.
THEOREM HotPlugTypeCorrect ==
    Spec => []TypeOK
BY TypeInitially, TypeStep, PTL DEF Spec

-----------------------------------------------------------------------------
(* The invariant *)

LEMMA InvInitially ==
    Init => HotPlugInv
<1> SUFFICES ASSUME Init PROVE HotPlugInv
  OBVIOUS
<1>1. Objects = {} /\ readers = {} /\ listed = {}
  BY DEF Init, Objects
<1> QED
  BY <1>1, TypeInitially DEF HotPlugInv, Init, Numbered, MainIsConnected,
     ListHasWorking, ObjectsMatchPorts, NothingFails, KeyAmongPages

\* Steps that leave the objects alone and only move within the frame.
LEMMA FrameMoves ==
    ASSUME HotPlugInv, TypeOK',
           UNCHANGED <<plugged, plugs, connected, main, listed, root, turning>>,
           mishaps \subseteq mishaps',
           readers' \subseteq readers,
           pc' \notin {"open"} \/ pc = "open",
           pc \notin {"choose", "terminated"} \/ pc' = pc,
           pc' = "waiting" => main # None
    PROVE  HotPlugInv'
<1>1. Objects' = Objects /\ \A d : Works(d)' <=> Works(d)
  BY DEF Objects, Works
<1>2. Numbered' /\ MainIsConnected' /\ ListHasWorking' /\ ObjectsMatchPorts'
  BY <1>1 DEF HotPlugInv, Numbered, MainIsConnected, ListHasWorking, ObjectsMatchPorts
<1>3. "unplug" \notin mishaps' => NothingFails'
  BY <1>1 DEF HotPlugInv, NothingFails
<1> QED BY <1>2, <1>3 DEF HotPlugInv, KeyAmongPages

LEMMA CommandStep ==
    ASSUME HotPlugInv, TypeOK', NEW next, pc \in {"clear", "draw", "flush"},
           next \in {"clear", "list", "flush"}, Command(next)
    PROVE  HotPlugInv'
<1>1. pc' \in {"waiting", "terminated", next} /\ (pc' = "waiting" => main # None)
  BY DEF Command
<1> QED BY <1>1, FrameMoves DEF Command, world, pages

LEMMA ListStep ==
    ASSUME HotPlugInv, TypeOK', List
    PROVE  HotPlugInv'
<1> USE DEF List, world, pages
<1>1. Objects' = Objects /\ \A d : Works(d)' <=> Works(d)
  BY DEF Objects, Works
<1>2. \A d \in connected : Works(d) => d.port \in listed'
  BY DeviceFacts DEF HotPlugInv, TypeOK, Works, Listing
<1>3. "unplug" \notin mishaps' => NothingFails'
  BY <1>1 DEF HotPlugInv, NothingFails, Listing
<1> QED
  BY <1>1, <1>2, <1>3 DEF HotPlugInv, Numbered, MainIsConnected, ListHasWorking,
     ObjectsMatchPorts, KeyAmongPages

LEMMA OpenStep ==
    ASSUME HotPlugInv, TypeOK', NEW p \in Ports, Open(p)
    PROVE  HotPlugInv'
<1> DEFINE d == CreateDevice(p)
<1> USE DEF Open, world, pages
<1>1. CASE HasDevice(p)
  <2>1. UNCHANGED <<world, connected, main, listed, root, turning, readers, pc>>
    BY <1>1
  <2> QED BY <2>1, FrameMoves DEF HotPlugInv, NothingFails
<1>2. CASE ~HasDevice(p) /\ plugged[p] = 0
  <2> QED BY <1>2, FrameMoves
<1>3. CASE ~HasDevice(p) /\ plugged[p] # 0
  <2>1. /\ connected' = connected \cup {d} /\ readers' = readers \cup {d}
        /\ UNCHANGED <<world, pc, main, listed, root>>
    BY <1>3
  <2>2. d \in Device /\ d.port = p /\ d.plug = plugged[p] /\ Works(d)
    BY <1>3 DEF CreateDevice, Works, HotPlugInv, TypeOK, Device
  <2> HIDE DEF d
  <2>3. pc = "open" /\ p \in listed
    BY DEF HotPlugInv, TypeOK
  <2>4. Objects' = Objects \cup {d} /\ \A e : Works(e)' <=> Works(e)
    BY <2>1 DEF Objects, Works
  <2>5. \A e \in Objects : e.port # p
    BY <1>3, <2>3 DEF HasDevice, Objects, HotPlugInv, MainIsConnected
  <2>6. d.plug <= plugs
    BY <2>2 DEF HotPlugInv, Numbered
  <2> QED
    BY <2>1, <2>2, <2>3, <2>4, <2>5, <2>6 DEF HotPlugInv, Numbered, MainIsConnected,
       ListHasWorking, ObjectsMatchPorts, NothingFails, KeyAmongPages
<1> QED BY <1>1, <1>2, <1>3

LEMMA DropStep ==
    ASSUME HotPlugInv, TypeOK', Drop
    PROVE  HotPlugInv'
<1> USE DEF Drop, world, pages
<1>1. connected' \subseteq connected /\ Objects' \subseteq Objects
      /\ \A d : Works(d)' <=> Works(d)
  BY DEF Objects, Works
<1>2. MainIsConnected
      /\ \A d \in connected : Works(d) => d \in connected'
  BY DEF HotPlugInv, ListHasWorking
<1>3. MainIsConnected'
  BY <1>1, <1>2 DEF MainIsConnected
<1>4. \A d \in Objects : Works(d) => d \in Objects'
  BY <1>2 DEF Objects
<1>5. "unplug" \notin mishaps' => NothingFails'
  BY <1>1, <1>2 DEF HotPlugInv, NothingFails, Objects
<1> QED
  BY <1>1, <1>3, <1>4, <1>5 DEF HotPlugInv, Numbered, ListHasWorking, ObjectsMatchPorts,
     KeyAmongPages

LEMMA ChooseStep ==
    ASSUME HotPlugInv, TypeOK', Choose
    PROVE  HotPlugInv'
<1> USE DEF Choose, SetMainDisplay, ShowFirstPage, KeepPage
<1>1. /\ UNCHANGED <<plugged, plugs, listed, connected, readers>>
      /\ mishaps \subseteq mishaps'
      /\ pc' \in {"show", "draw", "terminated"}
      /\ main' \in connected \/ (main' = None /\ connected = {})
      /\ main \in connected => main' = main
  BY DEF MeetKey
<1>2. Objects' = connected /\ connected \subseteq Objects /\ \A d : Works(d)' <=> Works(d)
  BY <1>1, DeviceFacts DEF Objects, Works, HotPlugInv, TypeOK
<1>3. \A d \in Objects : Works(d) => d \in Objects'
  BY <1>2 DEF HotPlugInv, MainIsConnected, Objects
<1>4. "unplug" \notin mishaps' => NothingFails'
  <2> SUFFICES ASSUME NothingFails PROVE NothingFails'
    BY <1>1 DEF HotPlugInv
  <2>1. main \notin connected => main = None /\ root = "none"
    BY DEF NothingFails
  <2>2. main' = None => root' = "none"
    BY <2>1, <1>1, DeviceFacts DEF HotPlugInv, TypeOK, NothingFails
  <2> QED BY <1>1, <1>2, <2>2 DEF NothingFails
<1>5. turning' = turning /\ (root' = "none" => root = "none")
  OBVIOUS
<1> QED
  BY <1>1, <1>2, <1>3, <1>4, <1>5 DEF HotPlugInv, Numbered, MainIsConnected,
     ListHasWorking, ObjectsMatchPorts, KeyAmongPages

LEMMA PlugStep ==
    ASSUME HotPlugInv, TypeOK', NEW p \in Ports, Plug(p)
    PROVE  HotPlugInv'
<1> USE DEF Plug, frame, pages
<1>1. plugs \in Nat /\ plugs' = plugs + 1 /\ Objects' = Objects /\ Objects \cup readers \subseteq Device
  BY DEF Objects, HotPlugInv, TypeOK
<1>2. \A d \in Objects \cup readers : d.plug \in Nat /\ d.plug <= plugs
  BY <1>1 DEF HotPlugInv, Numbered, Device
<1>3. \A q \in Ports : plugged'[q] = IF q = p THEN plugs + 1 ELSE plugged[q]
  BY DEF HotPlugInv, TypeOK
<1>4. \A d \in Objects \cup readers : Works(d)' => Works(d)
  BY <1>1, <1>2, <1>3, DeviceFacts DEF Works
<1>5. Numbered'
  BY <1>1, <1>2, <1>3 DEF HotPlugInv, Numbered, TypeOK
<1>6. MainIsConnected'
  <2>1. main # None => main \in Objects
    BY DEF Objects
  <2> QED BY <2>1, <1>4 DEF HotPlugInv, MainIsConnected
<1>7. ListHasWorking' /\ ObjectsMatchPorts'
  BY <1>1, <1>4 DEF HotPlugInv, ListHasWorking, ObjectsMatchPorts, Objects
<1>8. "unplug" \notin mishaps' => NothingFails'
  <2> SUFFICES ASSUME NothingFails PROVE NothingFails'
    BY DEF HotPlugInv
  <2>1. \A d \in Objects : d.port # p
    BY <1>1, DeviceFacts DEF NothingFails, Works, Device
  <2>2. \A d \in Objects : Works(d)'
    BY <1>1, <1>3, <2>1, DeviceFacts DEF NothingFails, Works
  <2>3. \A q \in listed : plugged'[q] # 0
    BY <1>1, <1>3 DEF NothingFails, HotPlugInv, TypeOK
  <2> QED BY <1>1, <2>2, <2>3 DEF NothingFails
<1> QED BY <1>5, <1>6, <1>7, <1>8 DEF HotPlugInv, KeyAmongPages

LEMMA UnplugStep ==
    ASSUME HotPlugInv, TypeOK', NEW p \in Ports, Unplug(p)
    PROVE  HotPlugInv'
<1> USE DEF Unplug, frame, pages
<1>1. Objects' = Objects /\ Objects \cup readers \subseteq Device
  BY DEF Objects, HotPlugInv, TypeOK
<1>2. \A q \in Ports : plugged'[q] = IF q = p THEN 0 ELSE plugged[q]
  BY DEF HotPlugInv, TypeOK
<1>3. \A d \in Objects \cup readers : Works(d)' => Works(d)
  BY <1>1, <1>2, DeviceFacts DEF Works, Device
<1>4. Numbered'
  BY <1>1, <1>2 DEF HotPlugInv, Numbered, TypeOK
<1>5. MainIsConnected'
  <2>1. main # None => main \in Objects
    BY DEF Objects
  <2> QED BY <2>1, <1>3 DEF HotPlugInv, MainIsConnected
<1>6. ListHasWorking' /\ ObjectsMatchPorts'
  BY <1>1, <1>3 DEF HotPlugInv, ListHasWorking, ObjectsMatchPorts, Objects
<1> QED BY <1>4, <1>5, <1>6 DEF HotPlugInv, KeyAmongPages

LEMMA InvStep ==
    ASSUME HotPlugInv, [Next]_vars
    PROVE  HotPlugInv'
<1>0. TypeOK'
  BY TypeStep DEF HotPlugInv
<1>1. CASE Clear \/ Draw \/ Flush
  BY <1>0, <1>1, CommandStep DEF Clear, Draw, Flush
<1>2. CASE Answered
  <2>1. after \notin {"open", "choose", "waiting", "terminated"}
    BY DEF HotPlugInv, TypeOK
  <2> QED BY <1>0, <1>2, <2>1, FrameMoves DEF Answered, world, pages
<1>3. CASE List
  BY <1>0, <1>3, ListStep
<1>4. CASE \E p \in Ports : Open(p)
  BY <1>0, <1>4, OpenStep
<1>5. CASE Drop
  BY <1>0, <1>5, DropStep
<1>6. CASE Choose
  BY <1>0, <1>6, ChooseStep
<1>7. CASE PageIsUp
  BY <1>0, <1>7, FrameMoves DEF PageIsUp, world, pages
<1>8. CASE AnswerIsLost \/ AnswerIsStray \/ KeySpoilsPage
  <2>1. /\ pc' \notin {"open", "waiting"} /\ pc \notin {"choose", "terminated"}
        /\ UNCHANGED <<plugged, plugs, connected, main, listed, root, turning, readers>>
        /\ mishaps \subseteq mishaps'
    BY <1>8 DEF AnswerIsLost, AnswerIsStray, KeySpoilsPage, AmongPages, pages
  <2> QED BY <1>0, <2>1, FrameMoves
<1>9. ASSUME NEW d \in Device, ReaderEnds(d) \/ ReaderTimesOut(d)
      PROVE  HotPlugInv'
  <2>1. /\ pc' = pc /\ readers' \subseteq readers
        /\ UNCHANGED <<plugged, plugs, connected, main, listed, root, turning>>
        /\ mishaps \subseteq mishaps'
    BY <1>9 DEF ReaderEnds, ReaderTimesOut, world, frame, pages
  <2> QED BY <1>0, <2>1, FrameMoves DEF HotPlugInv
<1>10. ASSUME NEW kind \in PageKinds, KeyMeetsPage(kind) \/ KeyTurnsPage(kind)
       PROVE  HotPlugInv'
  <2>1. /\ UNCHANGED <<plugged, plugs, connected, main, listed, readers>>
        /\ mishaps \subseteq mishaps'
        /\ pc' = pc \/ pc' = "terminated"
    BY <1>10 DEF KeyMeetsPage, KeyTurnsPage, MeetKey, world, frame
  <2>2. Objects' = Objects /\ \A d : Works(d)' <=> Works(d)
    BY <2>1 DEF Objects, Works
  <2>3. root # "none"
    BY <1>10 DEF KeyMeetsPage, KeyTurnsPage, HotPlugInv, KeyAmongPages
  <2>4. root' # "none"
    BY <1>10, <2>3 DEF KeyMeetsPage, KeyTurnsPage, PageKinds
  <2>5. Numbered' /\ MainIsConnected' /\ ListHasWorking' /\ ObjectsMatchPorts'
    BY <2>1, <2>2, <1>10 DEF HotPlugInv, Numbered, MainIsConnected, ListHasWorking,
       ObjectsMatchPorts, KeyMeetsPage, KeyTurnsPage, frame
  <2>6. "unplug" \notin mishaps' => NothingFails'
    BY <2>1, <2>2, <2>3 DEF HotPlugInv, NothingFails
  <2> QED BY <1>0, <2>1, <2>4, <2>5, <2>6 DEF HotPlugInv
<1>11. CASE \E p \in Ports : Plug(p) \/ Unplug(p)
  BY <1>0, <1>11, PlugStep, UnplugStep
<1>12. CASE UNCHANGED vars
  BY <1>0, <1>12 DEF vars, world, frame, pages, HotPlugInv, Numbered, MainIsConnected,
     ListHasWorking, ObjectsMatchPorts, NothingFails, KeyAmongPages, Objects, Works
<1> QED
  BY <1>1, <1>2, <1>3, <1>4, <1>5, <1>6, <1>7, <1>8, <1>9, <1>10, <1>11, <1>12
     DEF Next, MainThread, Environment

\* The objects the program has of its devices, the list it reads and the ports
\* fit together at every step, for any number of ports and plugs
\* (hardware_factory.cpp and the device thread of application.cpp).
THEOREM HotPlugInvariant ==
    Spec => []HotPlugInv
BY InvInitially, InvStep, PTL DEF Spec

-----------------------------------------------------------------------------
(* The properties *)

\* A port is never opened while an object of an earlier plug-in still has it, and
\* no object goes whose reader thread has more to do than the read under way
\* (application.cpp 52, 96, 188; cfa835.cpp:174-179).
THEOREM ObjectsMatchPortsInvariant ==
    Spec => []ObjectsMatchPorts
<1>1. HotPlugInv => ObjectsMatchPorts
  BY DEF HotPlugInv
<1> QED BY HotPlugInvariant, <1>1, PTL

-----------------------------------------------------------------------------
(* The causes *)

\* Steps that leave the key threads among the pages where they are.
LEMMA CauseKept ==
    ASSUME CauseInv, mishaps \subseteq mishaps', UNCHANGED pages,
           AmongPages' => AmongPages,
           pc' = "terminated" =>
               pc = "terminated" \/ mishaps' \cap {"unplug", "stray", "keys"} # {},
           pc' = "unanswered" =>
               pc = "unanswered" \/ mishaps' \cap {"stray", "line"} # {},
           mishaps' \cap {"unplug", "line"} = {} /\ Objects \subseteq readers
               => Objects' \subseteq readers'
    PROVE  CauseInv'
<1>1. mishaps' \cap {"unplug", "keys"} = {} => KeysApart'
  BY DEF CauseInv, KeysApart, KeyAmongPages, pages
<1> QED BY <1>1 DEF CauseInv

LEMMA CommandCause ==
    ASSUME HotPlugInv, CauseInv, NEW next, Command(next),
           next \in {"clear", "list"} \/ (next = "flush" /\ pc = "draw")
    PROVE  CauseInv'
<1>1. pc' = "terminated" => "unplug" \in mishaps'
  BY DEF Command, HotPlugInv, NothingFails, Objects, world
<1>2. pc' \in {"waiting", "terminated", next} /\ after' = next
  BY DEF Command
<1>3. AmongPages' => AmongPages
  BY <1>2 DEF AmongPages
<1>4. Objects' = Objects /\ UNCHANGED <<mishaps, readers, pages>>
  BY DEF Command, Objects, world
<1> QED BY <1>1, <1>2, <1>3, <1>4, CauseKept

LEMMA OpenCause ==
    ASSUME HotPlugInv, CauseInv, NEW p \in Ports, Open(p)
    PROVE  CauseInv'
<1>1. pc = "open" /\ p \in listed /\ UNCHANGED <<world, after, main, pages>>
  BY DEF Open, HotPlugInv, TypeOK
<1>2. pc' = pc \/ (pc' = "terminated" /\ "unplug" \in mishaps')
  BY <1>1 DEF Open, HotPlugInv, NothingFails, world
<1>3. \/ UNCHANGED <<connected, readers>>
      \/ /\ connected' = connected \cup {CreateDevice(p)}
         /\ readers' = readers \cup {CreateDevice(p)}
  BY DEF Open
<1>4. Objects \subseteq readers => Objects' \subseteq readers'
  BY <1>1, <1>3 DEF Objects
<1>5. ~AmongPages'
  BY <1>1, <1>2 DEF AmongPages
<1> QED BY <1>1, <1>2, <1>4, <1>5, CauseKept DEF world

LEMMA ChooseCause ==
    ASSUME HotPlugInv, CauseInv, Choose
    PROVE  CauseInv'
<1>1. /\ UNCHANGED <<connected, readers, turning>>
      /\ mishaps' = IF KeyAmongPages THEN mishaps \cup {"keys"} ELSE mishaps
      /\ pc' \in {"show", "draw", "terminated"}
      /\ pc' = "terminated" => main \notin connected /\ root = "dashboard"
  BY DEF Choose, MeetKey, ShowFirstPage, KeepPage
<1>2. pc' = "terminated" => "unplug" \in mishaps'
  BY <1>1 DEF HotPlugInv, NothingFails
<1>3. Objects' \subseteq Objects
  BY <1>1, DeviceFacts DEF Choose, SetMainDisplay, Objects
<1>4. mishaps' \cap {"unplug", "keys"} = {} => KeysApart'
  BY <1>1 DEF KeysApart, KeyAmongPages, HotPlugInv, TypeOK
<1> QED BY <1>1, <1>2, <1>3, <1>4 DEF CauseInv

LEMMA MeetCause ==
    ASSUME TypeOK, CauseInv, NEW kind \in PageKinds, KeyMeetsPage(kind)
    PROVE  CauseInv'
<1>1. /\ UNCHANGED <<pc, after, connected, main, readers, root>> /\ Objects' = Objects
      /\ mishaps' = IF AmongPages \/ KeyAmongPages THEN mishaps \cup {"keys"} ELSE mishaps
      /\ root # "none" /\ root # kind
  BY DEF KeyMeetsPage, MeetKey, frame, Objects
<1>2. ASSUME ~AmongPages, ~KeyAmongPages
      PROVE  KeysApart'
  <2>1. \A other \in PageKinds : turning[other] = 0
    BY <1>2 DEF KeyAmongPages, TypeOK
  <2>2. \A other \in PageKinds : turning'[other] = IF other = kind THEN 1 ELSE 0
    BY <2>1 DEF KeyMeetsPage, TypeOK
  <2>3. ~AmongPages'
    BY <1>1, <1>2 DEF AmongPages
  <2> QED BY <1>1, <2>2, <2>3 DEF KeysApart
<1> QED BY <1>1, <1>2 DEF CauseInv

LEMMA TurnCause ==
    ASSUME TypeOK, CauseInv, NEW kind \in PageKinds, KeyTurnsPage(kind)
    PROVE  CauseInv'
<1>1. /\ UNCHANGED <<mishaps, after, connected, main, readers>> /\ Objects' = Objects
      /\ turning[kind] > 0 /\ turning' = [turning EXCEPT ![kind] = @ - 1]
      /\ \/ pc' = pc
         \/ pc' = "terminated" /\ (root = kind \/ "keys" \in mishaps)
  BY DEF KeyTurnsPage, world, Objects
<1>2. ASSUME mishaps \cap {"unplug", "keys"} = {}
      PROVE  KeysApart' /\ pc' = pc
  <2>1. /\ root # kind /\ turning[kind] = 1
        /\ \A other \in PageKinds : turning[other] > 0 => other = kind
    BY <1>1, <1>2 DEF CauseInv, KeysApart
  <2>2. \A other \in PageKinds : turning'[other] = 0
    BY <1>1, <2>1 DEF TypeOK
  <2> QED BY <1>1, <1>2, <2>1, <2>2 DEF KeysApart, KeyAmongPages
<1>3. pc' = "terminated" => mishaps' \cap {"unplug", "stray", "keys"} # {}
  BY <1>1, <1>2 DEF CauseInv
<1> QED BY <1>1, <1>2, <1>3 DEF CauseInv

LEMMA CauseStep ==
    ASSUME HotPlugInv, CauseInv, [Next]_vars
    PROVE  CauseInv'
<1>1. CASE Clear \/ Draw \/ Flush
  BY <1>1, CommandCause DEF Clear, Draw, Flush
<1>2. CASE Answered \/ List \/ Drop \/ PageIsUp
  <2>1. /\ UNCHANGED <<mishaps, readers, pages>> /\ Objects' \subseteq Objects
        /\ pc' \in {after, "open", "choose"} \/ (pc = "show" /\ pc' = "draw")
    BY <1>2 DEF Answered, List, Drop, PageIsUp, Objects, world
  <2>2. after \in {"clear", "list", "flush"}
    BY DEF HotPlugInv, TypeOK
  <2>3. AmongPages' => AmongPages
    BY <2>1, <2>2 DEF AmongPages
  <2> QED BY <2>1, <2>2, <2>3, CauseKept
<1>3. CASE \E p \in Ports : Open(p)
  BY <1>3, OpenCause
<1>4. CASE Choose
  BY <1>4, ChooseCause
<1>5. ASSUME NEW d \in Device, ReaderEnds(d) \/ ReaderTimesOut(d)
      PROVE  CauseInv'
  <2>1. /\ UNCHANGED <<pc, after, pages>> /\ Objects' = Objects /\ readers' = readers \ {d}
        /\ mishaps \subseteq mishaps'
        /\ (~Works(d) /\ mishaps' = mishaps) \/ "line" \in mishaps'
    BY <1>5 DEF ReaderEnds, ReaderTimesOut, frame, world, Objects
  <2>2. mishaps' \cap {"unplug", "line"} = {} => d \notin Objects
    BY <2>1 DEF HotPlugInv, NothingFails
  <2>3. AmongPages' => AmongPages
    BY <2>1 DEF AmongPages
  <2> QED BY <2>1, <2>2, <2>3, CauseKept
<1>6. CASE AnswerIsLost \/ AnswerIsStray \/ KeySpoilsPage
  <2>1. /\ UNCHANGED <<after, pages, readers>> /\ Objects' = Objects
        /\ \/ mishaps' = mishaps \cup {"line"} /\ pc' = "unanswered" /\ pc = "waiting"
           \/ /\ mishaps' = mishaps \cup {"stray"} /\ pc = "waiting"
              /\ pc' \in {"terminated", "unanswered"}
           \/ mishaps' = mishaps \cup {"keys"} /\ pc' = "terminated"
    BY <1>6 DEF AnswerIsLost, AnswerIsStray, KeySpoilsPage, Objects
  <2>2. AmongPages' => AmongPages
    BY <2>1 DEF AmongPages
  <2> QED BY <2>1, <2>2, CauseKept
<1>7. CASE \E kind \in PageKinds : KeyMeetsPage(kind) \/ KeyTurnsPage(kind)
  BY <1>7, MeetCause, TurnCause DEF HotPlugInv
<1>8. CASE (\E p \in Ports : Plug(p) \/ Unplug(p)) \/ UNCHANGED vars
  <2>1. /\ UNCHANGED <<pc, after, readers, pages>> /\ Objects' = Objects
        /\ mishaps \subseteq mishaps'
    BY <1>8 DEF Plug, Unplug, frame, vars, world, Objects
  <2>2. AmongPages' => AmongPages
    BY <2>1 DEF AmongPages
  <2> QED BY <2>1, <2>2, CauseKept
<1> QED
  BY <1>1, <1>2, <1>3, <1>4, <1>5, <1>6, <1>7, <1>8 DEF Next, MainThread, Environment

\* For any ports, plug-ins and key threads: an exception or an assertion ends the
\* main thread only for a device that was unplugged, a late answer to another
\* process, or two threads that met among the pages; its command stays without an
\* answer only for an unplugging, such an answer, or what the line lost or damaged
\* (cfa835.cpp:413-418, 447-456, 476-492; web_socket_client.cpp:98-104).
THEOREM EndsForCauseInvariant ==
    Spec => []EndsForCause
<1>1. Init => CauseInv
  BY DEF Init, CauseInv, Objects, KeysApart, KeyAmongPages
<1>2. HotPlugInv /\ CauseInv /\ [Next]_vars => CauseInv'
  BY CauseStep
<1>3. HotPlugInv /\ CauseInv => EndsForCause
  <2> SUFFICES ASSUME HotPlugInv, CauseInv, Hangs
               PROVE  mishaps \cap {"unplug", "stray", "line"} # {}
    BY DEF EndsForCause, CauseInv
  <2>1. CASE pc = "unanswered"
    BY <2>1 DEF CauseInv
  <2>2. CASE pc = "waiting" /\ ~(Works(main) /\ main \in readers)
    <3>1. main \in Objects
      BY <2>2 DEF HotPlugInv, Objects
    <3> QED BY <2>2, <3>1 DEF CauseInv, HotPlugInv, NothingFails
  <2> QED BY <2>1, <2>2 DEF Hangs
<1> QED BY HotPlugInvariant, <1>1, <1>2, <1>3, PTL DEF Spec

=============================================================================
