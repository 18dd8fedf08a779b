---- MODULE Scheduler ----
(***************************************************************************)
(* The scheduler (libstrongswan/processing/scheduler.c): a heap of events,   *)
(* from which one thread passes jobs to the processor when their time has    *)
(* come.  Dispatch composes it with the processor, of which the thread is a  *)
(* worker and the scheduler a job.                                           *)
(***************************************************************************)
EXTENDS Integers, Sequences, FiniteSets, SequencesExt, FiniteSetsExt

CONSTANTS
    Jobs,
    MaxTime         \* bound on the clock and on the times of events

Times == 0..MaxTime
Forever == MaxTime + 1
Event == [time : Times, job : Jobs]

VARIABLES
    heap,           \* the events, a binary tree in an array
    now,
    state,          \* the thread in schedule(): "run", "asleep" or "woken"
    until           \* when it wakes up by itself

vars == <<heap, now, state, until>>

TypeOK ==
    /\ heap \in Seq(Event)
    /\ now \in Times
    /\ state \in {"run", "asleep", "woken"}
    /\ until \in 0..Forever

Init ==
    /\ heap = <<>>
    /\ now = 0
    /\ state = "run"
    /\ until = Forever

-----------------------------------------------------------------------------
(* The heap                                                                 *)

\* The positions an event with this time bubbles up through, from position p on
RECURSIVE BubblePath(_, _, _)
BubblePath(h, time, p) ==
    IF p > 1 /\ h[p \div 2].time > time THEN {p} \cup BubblePath(h, time, p \div 2) ELSE {p}

\* The event goes to the top of the path, the others on it move down.
Insert(h, e) ==
    LET path == BubblePath(h, e.time, Len(h) + 1) IN
    [i \in 1..Len(h) + 1 |-> IF i = Min(path) THEN e
                             ELSE IF i \in path THEN h[i \div 2] ELSE h[i]]

\* The child of p that fires first
SmallerChild(h, p) ==
    IF 2 * p + 1 <= Len(h) /\ h[2 * p + 1].time < h[2 * p].time THEN 2 * p + 1 ELSE 2 * p

\* The positions an event with this time seeps down through, from position p on
RECURSIVE SeepPath(_, _, _)
SeepPath(h, time, p) ==
    IF 2 * p <= Len(h) /\ time > h[SmallerChild(h, p)].time
    THEN {p} \cup SeepPath(h, time, SmallerChild(h, p)) ELSE {p}

\* remove_event(): the bottom event replaces the top and seeps down.
RemoveTop(h) ==
    LET last == h[Len(h)]
        rest == Front(h)
        path == SeepPath(rest, last.time, 1)
    IN IF rest = <<>> THEN <<>>
       ELSE [i \in 1..Len(rest) |-> IF i = Max(path) THEN last
                                    ELSE IF i \in path THEN rest[SmallerChild(rest, i)] ELSE rest[i]]

-----------------------------------------------------------------------------

JobsIn(h) == {h[i].job : i \in 1..Len(h)}

\* Mutant: the thread is not signalled.
NotSignalled == UNCHANGED state

Signal == state' = IF state = "asleep" THEN "woken" ELSE state

\* schedule_job() and schedule_job_ms(), which call schedule_job_tv()
ScheduleJob(j, delay) ==
    /\ now + delay <= MaxTime
    /\ heap' = Insert(heap, [time |-> now + delay, job |-> j])
    /\ Signal
    /\ UNCHANGED <<now, until>>

\* Mutant: an event is due a unit of time early.
DueEarly(e) == e.time <= now + 1

Due(e) == e.time <= now

\* schedule(): take the first event if it is due.
Fire ==
    /\ state = "run"
    /\ heap # <<>> /\ Due(heap[1])
    /\ heap' = RemoveTop(heap)
    /\ UNCHANGED <<now, state, until>>

\* schedule(): wait for the next event, or for any.
Wait ==
    /\ state = "run"
    /\ \/ heap # <<>> /\ ~Due(heap[1]) /\ until' = heap[1].time
       \/ heap = <<>> /\ until' = Forever
    /\ state' = "asleep"
    /\ UNCHANGED <<heap, now>>

\* The wait ends, by a signal or when the time is reached, and the job, queued
\* again directly, calls schedule() again.
Wake ==
    /\ state = "woken" \/ (state = "asleep" /\ until <= now)
    /\ state' = "run"
    /\ UNCHANGED <<heap, now, until>>

Tick ==
    /\ now < MaxTime
    /\ now' = now + 1
    /\ UNCHANGED <<heap, state, until>>

Flush ==
    /\ heap # <<>>
    /\ heap' = <<>>
    /\ Signal
    /\ UNCHANGED <<now, until>>
====
