---------------------------- MODULE MessagePages ----------------------------
(***************************************************************************)
(* The web socket client and the pages its messages open.  The receive     *)
(* thread puts messages into a queue of fixed size; the main thread empties *)
(* it and calls the handler of each type.  A handler may replace the page, *)
(* and a page registers handlers of its own while it exists.               *)
(*                                                                         *)
(* The build leaves the lines of the viewport that connect the client and  *)
(* call process_all_messages commented out (viewport.cpp 44-46 and 86);    *)
(* the module is about the classes as those lines use them.  Keys do       *)
(* nothing here, PageNavigation has them.                                  *)
(***************************************************************************)
EXTENDS Naturals, Sequences, FiniteSets, Functions

CONSTANTS
    QueueSize,   \* DEFAULT_QUEUE_SIZE
    MaxMessages, \* bound: messages received
    Engines,     \* names of engines of the types the page counts
    MaxEntries   \* bound: entries of those types in one message

ASSUME MessageAssumption == QueueSize \in Nat \ {0} /\ MaxMessages \in Nat
                            /\ IsFiniteSet(Engines) /\ MaxEntries \in Nat

VARIABLES
    message_queue, \* messages: [type, number]
    received,      \* messages received so far
    overflown,     \* history: numbers of messages that met a full queue
    taken,         \* history: number of the last message taken
    callbacks,     \* message_handler_callbacks: the types it has
    page,          \* kind of the viewport's root
    header,        \* the engines page: the counters its text shows, if any, and
                   \* (history) the names of the entries counted as loaded
    loaded_engines, \* the engines page: names in the order they were loaded
    draining,      \* is the main thread in process_all_messages
    ended          \* an exception in a handler ended the program

enginesPage == <<header, loaded_engines>>
messageVars == <<message_queue, received, overflown, taken, callbacks, page,
                 enginesPage, draining, ended>>

-----------------------------------------------------------------------------
\* The six messages of the viewport and the page each one opens; four of them
\* open pages that register nothing, and count as one.
ViewportTypes == {"ui_dashboard", "ui_engines", "ui_other"}

\* What a page registers in its constructor and deregisters in its destructor.
Own(kind) == CASE kind = "dashboard"    -> {"scan_early"}
               [] kind = "engines"      -> {"engine_status"}
               [] kind = "initializing" -> {"trigger_scan"}
               [] OTHER                 -> {}

PageTypes == {"scan_early", "engine_status", "trigger_scan"}

\* The page a handler opens: the viewport's handlers and those of the pages.
ViewportOpens(type) == CASE type = "ui_dashboard" -> "dashboard"
                         [] type = "ui_engines"   -> "engines"
                         [] type = "ui_other"     -> "other"

PageOpens(type) == CASE type = "scan_early"   -> "initializing"
                     [] type = "trigger_scan" -> "scanning"

Opens(type) == IF type \in ViewportTypes THEN ViewportOpens(type) ELSE PageOpens(type)

\* The header reads 7/9 until a message counts.
Placeholder == [loaded |-> 7, total |-> 9, counted |-> FALSE, names |-> {}]

MessageInit ==
    /\ message_queue = << >> /\ received = 0 /\ overflown = {}
    /\ taken = 0
    /\ page = "dashboard" /\ callbacks = ViewportTypes \cup Own("dashboard")
    /\ header = Placeholder /\ loaded_engines = << >>
    /\ draining = FALSE /\ ended = FALSE

\* Mutant: the newest message takes the place of the one before it.
OnMessageReplaces(type) ==
    /\ received < MaxMessages /\ ~ended
    /\ received' = received + 1
    /\ LET m == [type |-> type, number |-> received'] IN
       IF Len(message_queue) < QueueSize
       THEN message_queue' = Append(message_queue, m) /\ UNCHANGED overflown
       ELSE /\ message_queue' = [message_queue EXCEPT ![QueueSize] = m]
            /\ overflown' = overflown \cup {received'}
    /\ UNCHANGED <<taken, callbacks, page, enginesPage, draining, ended>>

\* The receive thread, with a message that parses; push does nothing to a full
\* queue and nobody asks.
OnMessage(type) ==
    /\ received < MaxMessages /\ ~ended
    /\ received' = received + 1
    /\ IF Len(message_queue) < QueueSize
       THEN /\ message_queue' = Append(message_queue, [type |-> type, number |-> received'])
            /\ UNCHANGED overflown
       ELSE /\ overflown' = overflown \cup {received'}
            /\ UNCHANGED message_queue
    /\ UNCHANGED <<taken, callbacks, page, enginesPage, draining, ended>>

\* Every frame of the main thread.
StartDraining ==
    /\ ~draining /\ ~ended
    /\ draining' = TRUE
    /\ UNCHANGED <<message_queue, received, overflown, taken, callbacks, page,
                   enginesPage, ended>>

EndDraining ==
    /\ draining /\ message_queue = << >>
    /\ draining' = FALSE
    /\ UNCHANGED <<message_queue, received, overflown, taken, callbacks, page,
                   enginesPage, ended>>

\* Mutant: the old page is forgotten with its handlers registered.
ReplacePageLeaks(kind) ==
    IF Own(kind) \cap callbacks # {}
    THEN ended' = TRUE /\ UNCHANGED <<callbacks, page, enginesPage>>
    ELSE /\ callbacks' = callbacks \cup Own(kind)
         /\ page' = kind /\ header' = Placeholder /\ loaded_engines' = << >>
         /\ UNCHANGED ended

\* The new page is constructed, and registers, before set_root lets go of the
\* old one; to register what is registered throws.
ReplacePage(kind) ==
    IF Own(kind) \cap callbacks # {}
    THEN ended' = TRUE /\ UNCHANGED <<callbacks, page, enginesPage>>
    ELSE /\ callbacks' = (callbacks \cup Own(kind)) \ Own(page)
         /\ page' = kind /\ header' = Placeholder /\ loaded_engines' = << >>
         /\ UNCHANGED ended

\* The elements of S in any order, each once.
InAnyOrder(S) == Bijection(1 .. Cardinality(S), S)

\* What a message lists: nothing keeps it from naming an engine more than once.
Payloads == UNION {[1 .. n -> [name : Engines, active : BOOLEAN]] : n \in 0 .. MaxEntries}

Loaded(payload) == {i \in DOMAIN payload : payload[i].active}
LoadedNames(payload) == {payload[i].name : i \in Loaded(payload)}

Counted(payload) == [loaded |-> Cardinality(Loaded(payload)), total |-> Len(payload),
                     counted |-> TRUE, names |-> LoadedNames(payload)]

\* The names in s come in the order in which the payload first has them loaded.
AsListed(s, payload) ==
    \A i, j \in DOMAIN s : i < j =>
        \E k \in Loaded(payload) : /\ payload[k].name = s[i]
                                   /\ \A l \in Loaded(payload) : payload[l].name = s[j] => k < l

\* Mutant: the list of names is that of the last message that had a new one.
CountEnginesAnew ==
    \E payload \in Payloads :
        /\ header' = Counted(payload)
        /\ loaded_engines' \in InAnyOrder(LoadedNames(payload) \ Range(loaded_engines))
        /\ AsListed(loaded_engines', payload)
        /\ UNCHANGED <<callbacks, page, ended>>

\* Every entry counts, and a loaded one whose name the page does not know yet
\* is appended to its own list, the last of which it shows.
CountEngines ==
    \E payload \in Payloads :
        /\ header' = Counted(payload)
        /\ \E new \in InAnyOrder(LoadedNames(payload) \ Range(loaded_engines)) :
             /\ AsListed(new, payload)
             /\ loaded_engines' = loaded_engines \o new
        /\ UNCHANGED <<callbacks, page, ended>>

\* One round of process_all_messages.
ProcessMessage ==
    /\ draining /\ message_queue # << >> /\ ~ended
    /\ LET m == Head(message_queue) IN
         /\ message_queue' = Tail(message_queue)
         /\ taken' = m.number
         /\ \/ m.type \notin callbacks /\ UNCHANGED <<callbacks, page, enginesPage, ended>>
            \/ m.type \in callbacks /\ m.type = "engine_status" /\ CountEngines
            \/ m.type \in callbacks /\ m.type # "engine_status" /\ ReplacePage(Opens(m.type))
    /\ UNCHANGED <<received, overflown, draining>>

MessageNext == \/ \E type \in ViewportTypes \cup PageTypes : OnMessage(type)
               \/ StartDraining \/ EndDraining \/ ProcessMessage

MessageSpec == MessageInit /\ [][MessageNext]_messageVars

-----------------------------------------------------------------------------
(* Properties *)

\* The registered types are always those of the viewport and of the page that
\* is shown: no handler of a page that is gone is ever called, and no message
\* of the page that is there goes unheard.
CallbacksMatchPage == callbacks = ViewportTypes \cup Own(page)

\* Messages are taken in order and each once, and only those are missing that
\* met a full queue when they came (web_socket_client.cpp:31).
LossOnlyAtLimit ==
    LET Queued == {message_queue[i].number : i \in DOMAIN message_queue} IN
    /\ \A n \in taken + 1 .. received : n \in Queued \/ n \in overflown
    /\ Queued \cap overflown = {} /\ \A n \in Queued : n > taken
    /\ \A i, j \in DOMAIN message_queue :
         i < j => message_queue[i].number < message_queue[j].number

\* Whatever the header counts as loaded has been announced by name, each name
\* once: the names stay while the counters start anew with every message
\* (engines_page.cpp 88-107).  The counters count entries: a message that names
\* an engine twice counts it twice, and then more than the list is long, so
\* only the other direction holds.
CountedWereAnnounced ==
    /\ header.counted => /\ header.names \subseteq Range(loaded_engines)
                         /\ Cardinality(header.names) <= header.loaded
                         /\ header.loaded <= header.total
    /\ IsInjective(loaded_engines)

=============================================================================
