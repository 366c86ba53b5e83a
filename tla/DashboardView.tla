---------------------------- MODULE DashboardView ----------------------------
(***************************************************************************)
(* What the dashboard draws while keys are pressed.  The main thread walks *)
(* the page in every frame: the page hides an arrow, the column gives its  *)
(* width to its rows, each row centres its widget and the widget draws.    *)
(* A key thread changes the tab and the text of the label between any two  *)
(* of these steps, so what was measured is stale when it is drawn.         *)
(*                                                                         *)
(* The horizontal axis is modelled; BoxLayout has the vertical one.  Key   *)
(* threads do not overlap and the page stays (PageNavigation has the       *)
(* rest).  The label is a std::string that is read while it is written:    *)
(* the reader may get the old text, the new one, a mixture of both, or a   *)
(* character without a glyph, for which no bitmap can be made.             *)
(***************************************************************************)
EXTENDS Integers

CONSTANTS
    Screen,     \* width of the page
    TextWidth,  \* [0 .. Tabs - 1 -> width of the tab's text]
    MixWidths,  \* widths a mixture of two texts may have
    ShapeWidth, \* of a shape of the progress bar
    Shapes,     \* max_value of the progress bar
    MinSpace,   \* min_space of the progress bar
    Word        \* 2^w, the range of the unsigned arithmetic

Tabs   == 3
Mix    == Tabs    \* the text that is none of the tabs

ASSUME ViewAssumption ==
    /\ {Screen, ShapeWidth, Shapes, MinSpace, Word} \subseteq Nat \ {0}
    /\ TextWidth \in [0 .. Tabs - 1 -> Nat] /\ MixWidths \subseteq Nat

VARIABLES
    index,    \* current_index
    text,     \* the tab whose text the label has
    key,      \* the key thread: "idle", "label" or "copying"
    pc,       \* where the main thread is in its frame
    up, down, \* is the arrow drawable
    width,    \* width of the label's row
    x,        \* position of the label
    bar,      \* current_index of the progress bar
    picture,  \* what this frame has drawn so far
    shown,    \* the text of the last frame that was flushed
    quiet     \* history: no key since the frame began

view == <<up, down, width, x, bar>>
viewVars == <<index, text, key, pc, view, picture, shown, quiet>>

-----------------------------------------------------------------------------
Blank == [up |-> FALSE, down |-> FALSE, text |-> Mix, left |-> 0, right |-> 0, bar |-> 0]

ViewInit == /\ index = 0 /\ text = 0 /\ key = "idle"
        /\ pc = "page"
        /\ up = TRUE /\ down = TRUE   \* can_draw is true at first
        /\ width = Screen /\ x = 0 /\ bar = 0
        /\ picture = Blank /\ shown = Mix
        /\ quiet = FALSE

\* What a read of the label may return, with its width.
Readings ==
    LET Whole(t) == [text |-> t, width |-> TextWidth[t]] IN
    IF key # "copying" THEN {Whole(text)}
    ELSE {Whole(text), Whole(index)} \cup {[text |-> Mix, width |-> w] : w \in MixWidths}

Wider(a, b) == IF a < b THEN b ELSE a

\* Vector2i::operator/ truncates towards zero.
Half(n) == IF n < 0 THEN -((-n) \div 2) ELSE n \div 2

-----------------------------------------------------------------------------
(* The main thread *)

\* Mutant: the test for the last tab is off by one.
UpdatePageOffByOne ==
    /\ pc = "page"
    /\ up' = (CASE index = 0 -> FALSE [] index = Tabs -> TRUE [] OTHER -> up)
    /\ down' = (CASE index = 0 -> TRUE [] index = Tabs -> FALSE [] OTHER -> down)
    /\ picture' = Blank /\ quiet' = (key = "idle")
    /\ pc' = "column"
    /\ UNCHANGED <<index, text, key, width, x, bar, shown>>

\* DashboardPage::update: the first tab hides the arrow up, the last one the
\* arrow down; the others change nothing.
UpdatePage ==
    /\ pc = "page"
    /\ up' = (CASE index = 0 -> FALSE [] index = Tabs - 1 -> TRUE [] OTHER -> up)
    /\ down' = (CASE index = 0 -> TRUE [] index = Tabs - 1 -> FALSE [] OTHER -> down)
    /\ picture' = Blank /\ quiet' = (key = "idle")
    /\ pc' = "column"
    /\ UNCHANGED <<index, text, key, width, x, bar, shown>>

\* The column gives each row its own width, but no less than the row needs.
LayOut ==
    /\ pc = "column"
    /\ \E r \in Readings : width' = Wider(Screen, r.width)
    /\ pc' = "up"
    /\ UNCHANGED <<index, text, key, up, down, x, bar, picture, shown, quiet>>

DrawUp ==
    /\ pc = "up"
    /\ picture' = [picture EXCEPT !.up = up]
    /\ pc' = "bar"
    /\ UNCHANGED <<index, text, key, view, shown, quiet>>

BarWidth == Shapes * ShapeWidth + (Shapes - 1) * MinSpace

\* The distance of two shapes, in unsigned arithmetic: the space wraps below
\* zero and the addition to the position wraps back.
Step == LET space == ((BarWidth \div (Shapes * ShapeWidth)) \div Shapes - 1) % Word
        IN (ShapeWidth + space) % Word

\* Mutant: one shape more than the bar is wide.
DrawBarLonger ==
    /\ pc = "bar"
    /\ bar' \in {bar, bar + 1}
    /\ picture' = [picture EXCEPT !.bar = bar' * Step + ShapeWidth]
    /\ pc' = "centre"
    /\ UNCHANGED <<index, text, key, up, down, width, x, shown, quiet>>

\* The bar steps on when its timer is over, which is left open here, and
\* draws its shapes from the left.
DrawBar ==
    /\ pc = "bar"
    /\ bar' \in {bar, (bar + 1) % Shapes}
    /\ picture' = [picture EXCEPT !.bar = bar' * Step + ShapeWidth]
    /\ pc' = "centre"
    /\ UNCHANGED <<index, text, key, up, down, width, x, shown, quiet>>

\* Mutant: the text starts in the middle.
CentreLeft ==
    /\ pc = "centre"
    /\ x' = Half(width)
    /\ pc' = "text"
    /\ UNCHANGED <<index, text, key, up, down, width, bar, picture, shown, quiet>>

\* CenterContainer::update: the row is measured, once for its own size and
\* once for the offset.
Centre ==
    /\ pc = "centre"
    /\ \E size, min \in Readings : x' = Half(Wider(width, size.width) - min.width)
    /\ pc' = "text"
    /\ UNCHANGED <<index, text, key, up, down, width, bar, picture, shown, quiet>>

\* Text::update copies the text and prints it.
DrawText ==
    /\ pc = "text"
    /\ \E r \in Readings :
         picture' = [picture EXCEPT !.text = r.text, !.left = x, !.right = x + r.width]
    /\ pc' = "down"
    /\ UNCHANGED <<index, text, key, view, shown, quiet>>

\* A text read while it is written may have a character without a bitmap;
\* measuring or printing it ends the program.
NoGlyph ==
    /\ pc \in {"column", "centre", "text"} /\ key = "copying"
    /\ pc' = "terminated"
    /\ UNCHANGED <<index, text, key, view, picture, shown, quiet>>

DrawDown ==
    /\ pc = "down"
    /\ picture' = [picture EXCEPT !.down = down]
    /\ pc' = "flush"
    /\ UNCHANGED <<index, text, key, view, shown, quiet>>

Flush ==
    /\ pc = "flush"
    /\ shown' = picture.text
    /\ pc' = "page"
    /\ UNCHANGED <<index, text, key, view, picture, quiet>>

-----------------------------------------------------------------------------
(* The key thread *)

\* increment_index and decrement_index, then set_text: the index first.
ChangeIndex ==
    /\ key = "idle" /\ pc # "terminated"
    /\ \/ index' = (IF index < Tabs - 1 THEN index + 1 ELSE index)   \* DOWN
       \/ index' = (IF index > 0 THEN index - 1 ELSE index)          \* UP
    /\ key' = "label" /\ quiet' = FALSE
    /\ UNCHANGED <<text, pc, view, picture, shown>>

StartLabel ==
    /\ key = "label" /\ pc # "terminated"
    /\ key' = "copying"
    /\ UNCHANGED <<index, text, pc, view, picture, shown, quiet>>

\* Mutant: the text of the tab that was left.
EndLabelStale ==
    /\ key = "copying" /\ pc # "terminated"
    /\ text' = text
    /\ key' = "idle"
    /\ UNCHANGED <<index, pc, view, picture, shown, quiet>>

EndLabel ==
    /\ key = "copying" /\ pc # "terminated"
    /\ text' = index
    /\ key' = "idle"
    /\ UNCHANGED <<index, pc, view, picture, shown, quiet>>

MainThread == \/ UpdatePage \/ LayOut \/ DrawUp \/ DrawBar
              \/ Centre \/ DrawText \/ NoGlyph \/ DrawDown \/ Flush
KeyThread  == ChangeIndex \/ StartLabel \/ EndLabel

ViewNext == MainThread \/ KeyThread

ViewSpec == ViewInit /\ [][ViewNext]_viewVars

-----------------------------------------------------------------------------
(* Properties *)

\* The widths a reader of the label may measure or print.
LabelWidths == {TextWidth[t] : t \in 0 .. Tabs - 1} \cup MixWidths

\* Where a text may end that was centred by another one: with a text of width v
\* measured and one of width w printed this is (Screen - v) / 2 + w.
EndsCentred(end) == \E v, w \in LabelWidths : 2 * end + v <= Screen + 2 * w

\* Nothing is drawn outside the screen, neither a shape of the bar nor a label
\* in a frame without a key.  One that was centred by one text and drawn with
\* another (container.cpp:344-350, text.cpp:16) starts on the screen and ends
\* where the difference of the two takes it, which for the widths of the run is
\* on the screen too: the driver would cast the position to a byte
\* (cfa835.cpp:1149).
DrawnOnScreen ==
    /\ 0 <= picture.left /\ EndsCentred(picture.right)
    /\ quiet => picture.right <= Screen
    /\ picture.bar <= BarWidth

\* A frame without a key shows the current tab, centred, and no arrow that
\* leads nowhere, whatever the frames before it saw of earlier keys.
QuietFrameIsTrue ==
    pc = "flush" /\ quiet =>
        /\ picture.text = index
        /\ (picture.left - (Screen - picture.right)) \in {-1, 0, 1}
        /\ picture.up => index > 0
        /\ picture.down => index < Tabs - 1
        /\ picture.up \/ picture.down

\* When keys are no longer pressed the display comes to show the tab that is
\* selected, unless a text without glyphs ended the program.
TabComesToShow ==
    \A i \in 0 .. Tabs - 1 :
        <>[](index = i /\ key = "idle") => <>[](shown = i) \/ <>(pc = "terminated")

=============================================================================
