------------------------------- MODULE Shapes -------------------------------
(***************************************************************************)
(* The filled triangle and the filled parallelogram of the display server. *)
(* Both are filled row by row between two borders; a coordinate that       *)
(* reaches the driver is cast to a byte and asserted to be on the screen.  *)
(*                                                                         *)
(* The triangle adds a slope in float to two positions in every row: a     *)
(* sum that should be a whole number may end just off it, so both pixels   *)
(* are behaviours, except for slopes that float represents exactly.  The   *)
(* outline itself is drawn by the device.                                  *)
(***************************************************************************)
EXTENDS Integers, Sequences

CONSTANTS
    Columns, LineNumbers,      \* bound: coordinates of the vertices
    ScreenWidth, ScreenHeight

ASSUME ShapesAssumption ==
    /\ Columns \subseteq 0 .. 255 /\ LineNumbers \subseteq 0 .. 255
    /\ ScreenWidth \in 1 .. 255 /\ ScreenHeight \in 1 .. 255

VARIABLES
    v,      \* the vertices: three, or the corners of a parallelogram
    row,    \* y of the row that is filled next
    stage,  \* "sort", "upper", "lower", "inside", "outline", "drawn" or "aborted"
    filled  \* pixels filled so far

shapeVars == <<v, row, stage, filled>>

-----------------------------------------------------------------------------
Vertex == [x : Columns, y : LineNumbers]

IsTriangle == Len(v) = 3

Magnitude(n) == IF n < 0 THEN -n ELSE n

\* n / d of integers in C++: towards zero.
Truncated(n, d) == LET q == Magnitude(n) \div Magnitude(d)
                   IN IF (n < 0) = (d < 0) THEN q ELSE -q

Least(S)    == CHOOSE n \in S : \A m \in S : n <= m
Greatest(S) == CHOOSE n \in S : \A m \in S : n >= m
Lines(w)    == {w[i].y : i \in DOMAIN w}

\* set_pixel_data and draw_a_line: the byte a coordinate is cast to must be on
\* the screen.
OnScreen(x, y) == x % 256 < ScreenWidth /\ y % 256 < ScreenHeight

\* draw_horizontal_line or draw_line in one row, and the stage that follows.
FillRow(from, to, next) ==
    LET span == Least({from, to}) .. Greatest({from, to})
    IN IF \A x \in span : OnScreen(x, row)
       THEN filled' = filled \cup {<<x % 256, row % 256>> : x \in span} /\ stage' = next
       ELSE filled' = filled /\ stage' = "aborted"

\* x0 after k additions of the slope dx / dy, as an integer; the slope of a flat
\* side is 0.
Reached(x0, dx, dy, k) ==
    LET d == IF dy = 0 THEN 1 ELSE dy
        n == x0 * d + (IF dy = 0 THEN 0 ELSE k * dx)
        x == Truncated(n, d)
        exact == Magnitude(d) \in {1, 2, 4} \/ dx % Magnitude(d) = 0 \/ k = 0
    IN IF exact \/ n % Magnitude(d) # 0 \/ x = 0 THEN {x}
       ELSE {x, IF x > 0 THEN x - 1 ELSE x + 1}

ShapeInit ==
    /\ \/ v \in [1 .. 3 -> Vertex] /\ stage = "sort"
       \/ /\ \E tl, tr, bl \in Vertex :
               LET br == [x |-> tr.x + bl.x - tl.x, y |-> tr.y + bl.y - tl.y]
               IN br \in Vertex /\ v = <<tl, tr, bl, br>>
          /\ stage = "outline"
    /\ row = 0 /\ filled = {}

-----------------------------------------------------------------------------
(* draw_triangle *)

SwapIfBelow(w, i, j) ==
    IF w[i].y > w[j].y THEN [w EXCEPT ![i] = w[j], ![j] = w[i]] ELSE w

\* "Sort vertices by y-coordinate": three swaps.
Sort ==
    /\ stage = "sort"
    /\ v' = SwapIfBelow(SwapIfBelow(SwapIfBelow(v, 1, 2), 2, 3), 1, 3)
    /\ row' = v'[1].y
    /\ stage' = "upper"
    /\ UNCHANGED filled

UpperRow ==
    /\ stage = "upper"
    /\ IF row > v[2].y
       THEN row' = v[2].y /\ stage' = "lower" /\ filled' = filled
       ELSE /\ \E from \in Reached(v[1].x, v[2].x - v[1].x, v[2].y - v[1].y, row - v[1].y),
                  to   \in Reached(v[1].x, v[3].x - v[1].x, v[3].y - v[1].y, row - v[1].y) :
                 FillRow(from, to, "upper")
            /\ row' = row + 1
    /\ UNCHANGED v

\* Mutant: the right border starts from the top again.
LowerRowFromTop ==
    /\ stage = "lower"
    /\ IF row > v[3].y
       THEN stage' = "outline" /\ UNCHANGED <<row, filled>>
       ELSE /\ \E from \in Reached(v[2].x, v[3].x - v[2].x, v[3].y - v[2].y, row - v[2].y),
                  to   \in Reached(v[1].x, v[3].x - v[1].x, v[3].y - v[1].y, row - v[2].y) :
                 FillRow(from, to, "lower")
            /\ row' = row + 1
    /\ UNCHANGED v

LowerRow ==
    /\ stage = "lower"
    /\ IF row > v[3].y
       THEN stage' = "outline" /\ UNCHANGED <<row, filled>>
       ELSE /\ \E from \in Reached(v[2].x, v[3].x - v[2].x, v[3].y - v[2].y, row - v[2].y),
                  to   \in Reached(v[1].x, v[3].x - v[1].x, v[3].y - v[1].y, row - v[1].y) :
                 FillRow(from, to, "lower")
            /\ row' = row + 1
    /\ UNCHANGED v

-----------------------------------------------------------------------------
(* Both *)

\* The sides: last of a triangle, first of a parallelogram.
Outline ==
    /\ stage = "outline"
    /\ IF \A i \in DOMAIN v : OnScreen(v[i].x, v[i].y)
       THEN stage' = (IF IsTriangle THEN "drawn" ELSE "inside")
       ELSE stage' = "aborted"
    /\ row' = (IF IsTriangle THEN row ELSE Least(Lines(v)) + 1)
    /\ UNCHANGED <<v, filled>>

-----------------------------------------------------------------------------
(* draw_parallelogram: top left, top right, bottom left, bottom right *)

\* Where the border through a and b is in this row, in integer arithmetic.
Border(a, b) == a.x + Truncated((b.x - a.x) * (row - a.y), b.y - a.y)

\* A border without height divides by zero.
InsideRow ==
    /\ stage = "inside"
    /\ IF row >= Greatest(Lines(v))
       THEN stage' = "drawn" /\ UNCHANGED <<row, filled>>
       ELSE IF v[1].y = v[3].y \/ v[2].y = v[4].y
       THEN stage' = "aborted" /\ UNCHANGED <<row, filled>>
       ELSE FillRow(Border(v[1], v[3]), Border(v[2], v[4]), "inside") /\ row' = row + 1
    /\ UNCHANGED v

ShapeNext == Sort \/ UpperRow \/ LowerRow \/ Outline \/ InsideRow

ShapeSpec == ShapeInit /\ [][ShapeNext]_shapeVars

-----------------------------------------------------------------------------
(* Properties *)

IsSorted == v[1].y <= v[2].y /\ v[2].y <= v[3].y

\* "Sort vertices by y-coordinate" (display_server.cpp:182): the vertices are in
\* that order when the filling starts.
VerticesAreSorted == IsTriangle /\ stage # "sort" => IsSorted

\* The reference: where the sides of the shape meet row y, in sixths of a pixel,
\* rounded down.
Sides == IF IsTriangle THEN {<<1, 2>>, <<2, 3>>, <<1, 3>>}
         ELSE {<<1, 2>>, <<2, 4>>, <<3, 4>>, <<1, 3>>}

Between(a, b, y) == y \in Least({a.y, b.y}) .. Greatest({a.y, b.y})

Cuts(a, b, y) ==
    IF a.y = b.y THEN {6 * a.x, 6 * b.x}
    ELSE {6 * a.x + (6 * (b.x - a.x) * Magnitude(y - a.y)) \div Magnitude(b.y - a.y)}

Meets(y) == UNION {Cuts(v[s[1]], v[s[2]], y) : s \in {t \in Sides : Between(v[t[1]], v[t[2]], y)}}

\* The rows a shape is filled in: a triangle that was sorted, and a parallelogram
\* whose top and bottom are level, where nothing is flat.
Whole == IF IsTriangle THEN IsSorted /\ v[1].y < v[3].y
         ELSE v[1].y = v[2].y /\ v[1].y # v[3].y

FillRows == IF IsTriangle THEN v[1].y .. v[3].y
        ELSE Least(Lines(v)) + 1 .. Greatest(Lines(v)) - 1

\* Such a shape is filled to its borders and never beyond them by more than one
\* pixel, although slopes are truncated and summed up in float, and the lower part
\* of a triangle starts from the sums of the upper one (display_server.cpp:188-211,
\* 226-238).
FillsInside ==
    stage = "drawn" /\ Whole =>
        /\ \A y \in FillRows : \A x \in Columns :
             Least(Meets(y)) < 6 * x /\ 6 * x < Greatest(Meets(y)) => <<x, y>> \in filled
        /\ \A p \in filled :
             /\ p[2] \in FillRows
             /\ Least(Meets(p[2])) - 6 <= 6 * p[1] /\ 6 * p[1] <= Greatest(Meets(p[2])) + 6

=============================================================================
