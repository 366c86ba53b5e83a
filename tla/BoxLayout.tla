------------------------------ MODULE BoxLayout ------------------------------
(***************************************************************************)
(* BoxContainer::resort: how a row or a column of children shares the      *)
(* length of its container, and where fit_child_in_rect puts each of them. *)
(*                                                                         *)
(* One axis is modelled, the one the children are lined up along, relative *)
(* to the position of the container; the code for the other axis is        *)
(* fit_child_in_rect, which treats both alike.                             *)
(* No caller changes stretch_ratio, so every ratio is 1.0f.  The float     *)
(* sums are exact but for one thing: fractions that add up to one may end  *)
(* just below it, unless the share is a binary fraction.  Which ones do is *)
(* left open (missed).                                                     *)
(***************************************************************************)
EXTENDS Integers, Sequences, FiniteSetsExt

CONSTANTS
    MaxChildren,  \* bound: children of the container
    MinSizes,     \* minimum sizes a child may have
    SetSizes      \* sizes the container may have been set to

ASSUME BoxAssumption == /\ MaxChildren \in Nat
                        /\ MinSizes \subseteq Nat /\ SetSizes \subseteq Nat

VARIABLES
    box,        \* the container: its children, alignment and set size
    stretching, \* children that still stretch
    avail,      \* stretch_avail
    final,      \* final_size of every child
    placed,     \* [from, size] of every child after fit_child_in_rect
    phase       \* "measure", "refit", "place" or "done"

boxVars == <<box, stretching, avail, final, placed, phase>>

-----------------------------------------------------------------------------
Alignments == {"begin", "center", "end"}
SizeModes  == {"fill", "begin", "center", "end"}

\* All children have the same size flag but for EXPAND: each is fitted alone.
Child  == [min : MinSizes, expand : BOOLEAN]
Boxes  == [children : UNION {[1 .. n -> Child] : n \in 0 .. MaxChildren},
           mode : SizeModes, alignment : Alignments,
           set : SetSizes, below : BOOLEAN]

Indices    == DOMAIN box.children
MinSize(i) == box.children[i].min

\* The pixels the children in I take, child i as many as sizes says, and how many
\* they are: the sum of the sizes.
Pixels(sizes, I) == UNION {{i} \X (1 .. sizes[i]) : i \in I}
Total(sizes, I)  == Cardinality(Pixels(sizes, I))

MinTotal(I) == Total([i \in Indices |-> MinSize(i)], I)

\* get_size compares vectors by x, and by y where x is equal: below says that
\* the size which was set is below the minimum in that order, and then the
\* minimum counts in x and in y.
Length == IF box.below THEN MinTotal(Indices) ELSE box.set

Spare == LET diff == Length - MinTotal(Indices) IN IF diff < 0 THEN 0 ELSE diff

NoBoxes == [i \in Indices |-> [from |-> 0, size |-> 0]]

BoxInit == /\ box \in Boxes
        /\ stretching = {} /\ avail = 0
        /\ final = [i \in Indices |-> 0]
        /\ placed = NoBoxes
        /\ phase = "measure"

-----------------------------------------------------------------------------
\* The first loop of resort.
Measure == /\ phase = "measure"
           /\ stretching' = {i \in Indices : box.children[i].expand}
           /\ avail' = MinTotal(stretching') + Spare
           /\ final' = [i \in Indices |-> MinSize(i)]
           /\ phase' = "refit"
           /\ UNCHANGED <<box, placed>>

\* Children whose share, the same for all, is below their minimum.
TooBig == {i \in stretching : MinSize(i) * Cardinality(stretching) > avail}

\* Mutant: the length the child takes stays available to the others.
RefitKeepsAvail == /\ phase = "refit" /\ TooBig # {}
                   /\ LET i == Min(TooBig) IN
                        /\ stretching' = stretching \ {i}
                        /\ final' = [final EXCEPT ![i] = MinSize(i)]
                   /\ UNCHANGED <<box, avail, placed, phase>>

\* A pass that fails: the first such child gets its minimum and stretches no
\* more.
Refit == /\ phase = "refit" /\ TooBig # {}
         /\ LET i == Min(TooBig) IN
              /\ stretching' = stretching \ {i}
              /\ avail' = avail - MinSize(i)
              /\ final' = [final EXCEPT ![i] = MinSize(i)]
         /\ UNCHANGED <<box, placed, phase>>

Exact(n) == n \in {1, 2, 4, 8}
Rank(i)  == Cardinality({j \in stretching : j <= i})

\* What the fractions of the first k shares add up to, in whole pixels.
Carried(k, missed) ==
    LET n == Cardinality(stretching)  rest == avail % n IN
    IF rest = 0 \/ k = 0 THEN 0
    ELSE (k * rest - (IF k \in missed THEN 1 ELSE 0)) \div n

\* A pass that succeeds: each child gets the whole pixels of its share, and
\* one more when the fractions so far amount to one.
Settle ==
    /\ phase = "refit" /\ TooBig = {}
    /\ \E missed \in SUBSET (1 .. Cardinality(stretching)) :
         /\ Exact(Cardinality(stretching)) => missed = {}
         /\ final' = [i \in Indices |->
                        IF i \in stretching
                        THEN avail \div Cardinality(stretching)
                             + Carried(Rank(i), missed) - Carried(Rank(i) - 1, missed)
                        ELSE final[i]]
    /\ phase' = "place"
    /\ UNCHANGED <<box, stretching, avail, placed>>

\* Alignment counts only where nothing stretches.
HasStretched == \E i \in Indices : box.children[i].expand
Offset == CASE HasStretched \/ box.alignment = "begin" -> 0
            [] ~HasStretched /\ box.alignment = "center" -> Spare \div 2
            [] ~HasStretched /\ box.alignment = "end" -> Spare

\* fit_child_in_rect: FILL takes the whole rectangle, set_size never less than
\* the minimum; the other flags shrink to the minimum and shift.
Fit(min, from, size) ==
    IF box.mode = "fill" THEN [from |-> from, size |-> IF size < min THEN min ELSE size]
    ELSE [from |-> from + (CASE box.mode = "begin"  -> 0
                             [] box.mode = "center" -> (size - min) \div 2
                             [] box.mode = "end"    -> size - min),
          size |-> min]

\* The last loop of resort.
Place ==
    /\ phase = "place"
    /\ LET From(i) == Offset + Total(final, {j \in Indices : j < i})
       IN placed' = [i \in Indices |-> Fit(MinSize(i), From(i), final[i])]
    /\ phase' = "done"
    /\ UNCHANGED <<box, stretching, avail, final>>

BoxNext == Measure \/ Refit \/ Settle \/ Place

BoxSpec == BoxInit /\ [][BoxNext]_boxVars

-----------------------------------------------------------------------------
(* Properties *)

Laid      == phase = "done"
End(i)    == placed[i].from + placed[i].size
HasRoom   == MinTotal(Indices) <= Length

\* No two children overlap, and they stay inside the container if it has room
\* for their minimum sizes.
BoxesApart ==
    /\ \A i, j \in Indices : i < j => End(i) <= placed[j].from
    /\ HasRoom => \A i \in Indices : placed[i].from >= 0 /\ End(i) <= Length

\* Where a child stretches the container is filled up to the one pixel float
\* arithmetic may lose: refitting never stops the last child from stretching
\* (container.cpp:135-165), and the fractions are given out again.
SpaceUsed ==
    HasStretched /\ HasRoom =>
        LET used == Total(final, Indices) IN
        /\ stretching # {}
        /\ used \in {Length - 1, Length}
        /\ Exact(Cardinality(stretching)) => used = Length

\* Stretched children get the same size up to a pixel and at least their
\* minimum; a child the loop took out was right to be: it is no smaller.
SharesAreFair ==
    \A i \in stretching :
        /\ final[i] >= MinSize(i)
        /\ \A j \in stretching : final[i] <= final[j] + 1
        /\ \A j \in Indices \ stretching :
             box.children[j].expand => final[j] = MinSize(j) /\ final[i] <= final[j]

\* What resort ends with, whatever the flags and however often its loop started
\* again (container.cpp:96-219): all of the space, given out fairly, in boxes
\* that do not overlap.
SpaceIsShared == Laid => BoxesApart /\ SpaceUsed /\ SharesAreFair

=============================================================================
