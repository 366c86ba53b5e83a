------------------------------- MODULE MCParts -------------------------------
(***************************************************************************)
(* The parts of the program that share no state, each checked on its own,  *)
(* in one run.  A behaviour is one of the part that `active` names, while  *)
(* the variables of the others rest.                                       *)
(***************************************************************************)
EXTENDS FrameBuilder, BoxLayout, DashboardView, MessagePages, TreeWalk,
        ShellCommand, MicroSd, Shapes, Bitmap, Checksum

\* The fonts are not part of the sources: widths in proportion to the number
\* of letters of FULL SCAN, QUICK SCAN and SHUTDOWN at 25 points.
MCTextWidth == [i \in 0 .. 2 |-> CASE i = 0 -> 126 [] i = 1 -> 141 [] i = 2 -> 130]

\* Packages whose last byte takes every value meet every entry of the table; a
\* package with data is damaged by every byte.
MCSamples  == {<<5, 2, 170, 0>>}
MCMessages == {<<b, 0>> : b \in 0 .. 255} \cup MCSamples
MCDamages  == {<<d, e>> : d \in 0 .. 255, e \in {0, 129}}

VARIABLE active  \* the part that this behaviour is one of

-----------------------------------------------------------------------------
(* The parts at rest *)

FrameRests ==
    /\ command = ClearDisplay /\ length = 0 /\ frame = FrameOf(0) /\ outcome = "rests"

BoxRests ==
    /\ box = [children |-> << >>, mode |-> "fill", alignment |-> "begin",
              set |-> 0, below |-> FALSE]
    /\ stretching = {} /\ avail = 0 /\ final = << >> /\ placed = << >> /\ phase = "rests"

ViewRests ==
    /\ index = 0 /\ text = 0 /\ key = "rests" /\ pc = "rests"
    /\ up = FALSE /\ down = FALSE /\ width = 0 /\ x = 0 /\ bar = 0
    /\ picture = Blank /\ shown = Mix /\ quiet = FALSE

MessagesRest ==
    /\ message_queue = << >> /\ received = 0 /\ overflown = {} /\ taken = 0
    /\ page = "dashboard" /\ callbacks = ViewportTypes \cup Own("dashboard")
    /\ header = Placeholder /\ loaded_engines = << >>
    /\ draining = FALSE /\ ended = TRUE

TreeRests ==
    /\ children = <<1>> /\ root = 1 /\ new = 1 /\ built = <<Rows + 1>> /\ turn = "rests"
    /\ stack = << >> /\ current = Viewport /\ step = "rests" /\ visited = << >>
    /\ drawn = << >> /\ lost = {} /\ calm = TRUE /\ crashed = FALSE

ShellRests ==
    /\ lines = 0 /\ written = 0 /\ pipe = 0 /\ child = "exited"
    /\ parent = "returned" /\ output = 0

SdRests == SdInit

ShapeRests == v = << >> /\ row = 0 /\ stage = "rests" /\ filled = {}

BitmapRests ==
    /\ bmp = [width |-> 1, height |-> 1, size |-> 0] /\ buffer = << >> /\ pxIndex = 0
    /\ line = 0 /\ data = << >> /\ reading = "rests"

ChecksumRests == message = << >> /\ arrived = << >> /\ verdict = "unread"

-----------------------------------------------------------------------------
Init ==
    /\ active \in {"Frame", "Box", "View", "Message", "Tree",
                   "Shell", "Sd", "Shape", "Bitmap", "Checksum"}
    /\ IF active = "Frame" THEN FrameInit ELSE FrameRests
    /\ IF active = "Box" THEN BoxInit ELSE BoxRests
    /\ IF active = "View" THEN ViewInit ELSE ViewRests
    /\ IF active = "Message" THEN MessageInit ELSE MessagesRest
    /\ IF active = "Tree" THEN TreeInit ELSE TreeRests
    /\ IF active = "Shell" THEN ShellInit ELSE ShellRests
    /\ IF active = "Sd" THEN SdInit ELSE SdRests
    /\ IF active = "Shape" THEN ShapeInit ELSE ShapeRests
    /\ IF active = "Bitmap" THEN BitmapInit ELSE BitmapRests
    /\ IF active = "Checksum" THEN ChecksumInit ELSE ChecksumRests

NotFrame == <<active, boxVars, viewVars, messageVars, treeVars, shellVars,
              sdVars, shapeVars, bitmapVars, checksumVars>>
NotBox == <<active, frameVars, viewVars, messageVars, treeVars, shellVars,
            sdVars, shapeVars, bitmapVars, checksumVars>>
NotView == <<active, frameVars, boxVars, messageVars, treeVars, shellVars,
             sdVars, shapeVars, bitmapVars, checksumVars>>
NotMessage == <<active, frameVars, boxVars, viewVars, treeVars, shellVars,
                sdVars, shapeVars, bitmapVars, checksumVars>>
NotTree == <<active, frameVars, boxVars, viewVars, messageVars, shellVars,
             sdVars, shapeVars, bitmapVars, checksumVars>>
NotShell == <<active, frameVars, boxVars, viewVars, messageVars, treeVars,
              sdVars, shapeVars, bitmapVars, checksumVars>>
NotSd == <<active, frameVars, boxVars, viewVars, messageVars, treeVars,
           shellVars, shapeVars, bitmapVars, checksumVars>>
NotShape == <<active, frameVars, boxVars, viewVars, messageVars, treeVars,
              shellVars, sdVars, bitmapVars, checksumVars>>
NotBitmap == <<active, frameVars, boxVars, viewVars, messageVars, treeVars,
               shellVars, sdVars, shapeVars, checksumVars>>
NotChecksum == <<active, frameVars, boxVars, viewVars, messageVars, treeVars,
                 shellVars, sdVars, shapeVars, bitmapVars>>

Next ==
    \/ active = "Frame" /\ FrameNext /\ UNCHANGED NotFrame
    \/ active = "Box" /\ BoxNext /\ UNCHANGED NotBox
    \/ active = "View" /\ ViewNext /\ UNCHANGED NotView
    \/ active = "Message" /\ MessageNext /\ UNCHANGED NotMessage
    \/ active = "Tree" /\ TreeNext /\ UNCHANGED NotTree
    \/ active = "Shell" /\ RunCommand /\ UNCHANGED NotShell
    \/ active = "Sd" /\ SdNext /\ UNCHANGED NotSd
    \/ active = "Shape" /\ ShapeNext /\ UNCHANGED NotShape
    \/ active = "Bitmap" /\ BitmapNext /\ UNCHANGED NotBitmap
    \/ active = "Checksum" /\ ProcessPackage /\ UNCHANGED NotChecksum

vars == <<active, frameVars, boxVars, viewVars, messageVars, treeVars,
          shellVars, sdVars, shapeVars, bitmapVars, checksumVars>>

\* The main thread goes on drawing frames and walking the tree, a key thread ends
\* its set_root, and a child and its parent run as long as they can.
FairSpec ==
    /\ Init /\ [][Next]_vars
    /\ WF_vars(active = "View" /\ MainThread /\ UNCHANGED NotView)
    /\ WF_vars(active = "Tree" /\ Walk /\ UNCHANGED NotTree)
    /\ WF_vars(active = "Tree" /\ SetRoot /\ UNCHANGED NotTree)
    /\ WF_vars(active = "Shell" /\ RunCommand /\ UNCHANGED NotShell)

=============================================================================
