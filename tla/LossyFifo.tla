------------------------------ MODULE LossyFifo ------------------------------
(***************************************************************************)
(* What the byte reader promises the command channel: the packages handed  *)
(* on are among those the device sent, in order and each at most once.     *)
(***************************************************************************)
EXTENDS Naturals, Sequences

VARIABLES sent,      \* number of packages sent; they are numbered from 1
          delivered  \* sequence of the packages handed on

vars == <<sent, delivered>>

LastDelivered == IF delivered = << >> THEN 0 ELSE delivered[Len(delivered)]

Init == sent = 0 /\ delivered = << >>

Send == sent' = sent + 1 /\ delivered' = delivered

Deliver == \E n \in LastDelivered + 1 .. sent :
              delivered' = Append(delivered, n) /\ sent' = sent

Next == Send \/ Deliver

Spec == Init /\ [][Next]_vars

=============================================================================
