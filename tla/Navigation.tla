----------------------------- MODULE Navigation -----------------------------
(***************************************************************************)
(* What a person at the device sees: which page is shown and, on the       *)
(* dashboard, which tab.  One key press is one step, or none.              *)
(***************************************************************************)
EXTENDS Naturals

CONSTANT Tabs    \* number of tabs of the dashboard

VARIABLES page,  \* "none", "dashboard" or "confirm"
          tab    \* the tab selected, from 0

vars == <<page, tab>>

Init == page = "none" /\ tab = 0

Show    == page = "none" /\ page' = "dashboard" /\ tab' = 0
Down    == page = "dashboard" /\ tab < Tabs - 1 /\ tab' = tab + 1 /\ page' = page
Up      == page = "dashboard" /\ tab > 0 /\ tab' = tab - 1 /\ page' = page
Confirm == page = "dashboard" /\ tab = 0 /\ page' = "confirm" /\ tab' = 0
Cancel  == page = "confirm" /\ page' = "dashboard" /\ tab' = 0

Next == Show \/ Down \/ Up \/ Confirm \/ Cancel

Spec == Init /\ [][Next]_vars

=============================================================================
