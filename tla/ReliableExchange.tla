--------------------------- MODULE ReliableExchange ---------------------------
(***************************************************************************)
(* What the message layer promises its users, the tasks: each peer's       *)
(* requests are issued one at a time, every request is executed by the     *)
(* other peer at most once, and it completes at its sender only after it   *)
(* was executed.  How often the network or the peers have to repeat a      *)
(* message does not show.                                                  *)
(***************************************************************************)
EXTENDS Naturals

CONSTANT Peers

VARIABLES
    issued,         \* requests each peer has issued
    executed,       \* how many of them the other peer has executed
    completed       \* how many of them a response has completed

vars == <<issued, executed, completed>>

Init ==
    /\ issued    = [p \in Peers |-> 0]
    /\ executed  = [p \in Peers |-> 0]
    /\ completed = [p \in Peers |-> 0]

\* A new request, once the previous one is completed.
Issue(p) ==
    /\ issued[p] = completed[p]
    /\ issued' = [issued EXCEPT ![p] = @ + 1]
    /\ UNCHANGED <<executed, completed>>

\* The other peer executes the outstanding request.
Execute(p) ==
    /\ executed[p] < issued[p]
    /\ executed' = [executed EXCEPT ![p] = @ + 1]
    /\ UNCHANGED <<issued, completed>>

\* The response completes the request, and the next one may follow at once.
Complete(p) ==
    /\ completed[p] < executed[p]
    /\ completed' = [completed EXCEPT ![p] = @ + 1]
    /\ \/ UNCHANGED issued
       \/ issued' = [issued EXCEPT ![p] = @ + 1]
    /\ UNCHANGED executed

Next == \E p \in Peers : Issue(p) \/ Execute(p) \/ Complete(p)

Spec == Init /\ [][Next]_vars
=============================================================================
