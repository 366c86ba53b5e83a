-------------------------------- MODULE Rpc --------------------------------
(***************************************************************************)
(* What a command of the driver promises its caller: the device carries it *)
(* out exactly once before it returns, and what it returns is the answer   *)
(* to that call and to no other.  Nothing says that a call returns.        *)
(***************************************************************************)
EXTENDS Naturals

CONSTANTS Callers,
          MaxRequests    \* bound: calls per caller

VARIABLES phase,   \* [Callers -> {"idle", "called", "executed"}]
          calls,   \* [Callers -> number of calls made]
          result   \* [Callers -> [caller, number] of the call last answered]

vars == <<phase, calls, result>>

Init == /\ phase = [c \in Callers |-> "idle"]
        /\ calls = [c \in Callers |-> 0]
        /\ result = [c \in Callers |-> [caller |-> c, number |-> 0]]

Call(c) == /\ phase[c] = "idle"
           /\ calls[c] < MaxRequests
           /\ phase' = [phase EXCEPT ![c] = "called"]
           /\ calls' = [calls EXCEPT ![c] = @ + 1]
           /\ UNCHANGED result

Execute(c) == /\ phase[c] = "called"
              /\ phase' = [phase EXCEPT ![c] = "executed"]
              /\ UNCHANGED <<calls, result>>

Return(c) == /\ phase[c] = "executed"
             /\ phase' = [phase EXCEPT ![c] = "idle"]
             /\ result' = [result EXCEPT ![c] = [caller |-> c, number |-> calls[c]]]
             /\ UNCHANGED calls

Next == \E c \in Callers : Call(c) \/ Execute(c) \/ Return(c)

Spec == Init /\ [][Next]_vars

=============================================================================
