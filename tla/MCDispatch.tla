---- MODULE MCDispatch ----
(***************************************************************************)
(* Instances of Dispatch for TLC: the scheduler and a job that is scheduled   *)
(* again and again, both of critical priority, and of a lower one a job that *)
(* blocks its thread and one that is queued again.                           *)
(***************************************************************************)
EXTENDS Dispatch, TLC

CONSTANTS repeated, stuck, shared

MCPriority == SchedulerJob :> 1 @@ repeated :> 1 @@ stuck :> 2 @@ shared :> 2
MCKind == SchedulerJob :> "block" @@ repeated :> "schedule" @@ stuck :> "block" @@ shared :> "fair"

\* two threads for jobs of critical priority, one of them the scheduler's
Reserve == <<2, 0>>

IsHeap(h) == \A i \in 2..Len(h) : h[i \div 2].time <= h[i].time

\* The heap of the scheduler for more events than are scheduled at a time below:
\* insertion adds an event and removal takes the first one out, and both leave a heap.
ASSUME HeapAssumption ==
    \A n \in 1..5 : \A times \in [1..n -> 0..2] :
        LET h == [i \in 1..n |-> [time |-> times[i], job |-> i]] IN
        IsHeap(h) =>
            /\ IsHeap(Scheduler!RemoveTop(h))
            /\ Len(Scheduler!RemoveTop(h)) = n - 1
            /\ Range(Scheduler!RemoveTop(h)) = Range(h) \ {h[1]}
            /\ \A time \in 0..2 :
                  LET e == [time |-> time, job |-> n + 1] IN
                  /\ IsHeap(Scheduler!Insert(h, e))
                  /\ Len(Scheduler!Insert(h, e)) = n + 1
                  /\ Range(Scheduler!Insert(h, e)) = Range(h) \cup {e}
====
