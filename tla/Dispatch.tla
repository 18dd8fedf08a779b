---- MODULE Dispatch ----
(***************************************************************************)
(* The scheduler and the processor together (libstrongswan/processing): jobs *)
(* are scheduled or queued, and executed by the workers.  The scheduler is   *)
(* itself a job of critical priority, which keeps one worker busy until the  *)
(* processor is canceled: it needs a thread to pass jobs on, and cancel()    *)
(* has to get that thread out of its wait.                                   *)
(***************************************************************************)
EXTENDS Processor

CONSTANTS
    SchedulerJob,   \* the job that calls schedule() again and again
    Scheduled,      \* jobs that may be passed to schedule_job()
    Queued,         \* jobs that may be passed to queue_job()
    MaxTime

ASSUME SchedulerAssumption ==
    /\ Scheduled \cup Queued \subseteq Jobs \ {SchedulerJob}
    /\ SchedulerJob \in Cancelable \ Direct
    /\ Kind[SchedulerJob] = "block" /\ Priority[SchedulerJob] = 1
    /\ MaxTime \in Nat

VARIABLES heap, now, state, until

Scheduler == INSTANCE Scheduler

scheduling == <<heap, now, state, until>>
all == <<vars, scheduling>>

Delays == 0..MaxTime
Others == Jobs \ {SchedulerJob}

\* scheduler_create() queues the job before there are threads.
DispatchInit ==
    /\ jobs = [i \in Priorities |-> IF i = 1 THEN <<SchedulerJob>> ELSE <<>>]
    /\ status = [j \in Jobs |-> IF j = SchedulerJob THEN "queued" ELSE "new"]
    /\ working_threads = [i \in Priorities |-> 0]
    /\ total_threads = 0 /\ desired_threads = 0
    /\ worker = [w \in Workers |-> [state |-> "none", job |-> NoJob]]
    /\ freed = [j \in Jobs |-> 0]
    /\ canceling = "no"
    /\ Scheduler!Init

---------------------------------------------------------------------------
(* The scheduler                                                            *)

ScheduleNew(j) ==
    /\ j \in Scheduled /\ status[j] = "new"
    /\ status' = [status EXCEPT ![j] = "scheduled"]
    /\ \E delay \in Delays : Scheduler!ScheduleJob(j, delay)
    /\ UNCHANGED <<jobs, working_threads, total_threads, desired_threads, worker, freed,
                   canceling>>

\* its worker is in schedule()
Served == status[SchedulerJob] \in {"executing", "canceled"}

\* The job of an event that is due is queued.  The event is removed under the lock of the
\* scheduler, the job queued under that of the processor: in between only the thread that
\* is in schedule() knows of it.
Fire ==
    /\ Served
    /\ Scheduler!Fire
    /\ EventDue(heap[1].job)

Wait == Served /\ Scheduler!Wait /\ UNCHANGED vars
Wake == Served /\ Scheduler!Wake /\ UNCHANGED vars
Tick == Scheduler!Tick /\ UNCHANGED vars

\* flush() destroys the jobs that are scheduled; the daemon calls it after cancel().
Flush ==
    LET gone == Scheduler!JobsIn(heap) IN
    /\ canceling = "done"
    /\ Scheduler!Flush
    /\ status' = [j \in Jobs |-> IF j \in gone THEN "destroyed" ELSE status[j]]
    /\ freed' = [j \in Jobs |-> IF j \in gone THEN freed[j] + 1 ELSE freed[j]]
    /\ UNCHANGED <<jobs, working_threads, total_threads, desired_threads, worker, canceling>>

---------------------------------------------------------------------------
(* The processor                                                            *)

\* cancel() of the scheduler's job cancels its thread, which takes effect where the
\* thread waits; it never returns from execute().
CanceledScheduler(w) == worker[w].state = "canceled" /\ worker[w].job = SchedulerJob

\* A worker's step, after which a job may have to be scheduled again
WorkAndSchedule(w) ==
    LET again == {j \in Jobs : status[j] = "executing" /\ status'[j] = "scheduled"} IN
    /\ IF CanceledScheduler(w) THEN state # "run" /\ Restart(w) ELSE Work(w)
    /\ IF again = {} THEN UNCHANGED scheduling
       ELSE \E j \in again, delay \in Delays : Scheduler!ScheduleJob(j, delay)

Control ==
    \/ \E j \in Queued : QueueJob(j)
    \/ \E j \in Direct : ExecuteJob(j) \/ InlineDone(j)
    \/ \E n \in Counts : SetThreads(n)
    \/ Cancel \/ CancelWake

DispatchNext ==
    \/ \E j \in Jobs : ScheduleNew(j)
    \/ Fire \/ Wait \/ Wake \/ Tick \/ Flush
    \/ \E w \in Workers : WorkAndSchedule(w)
    \/ Control /\ UNCHANGED scheduling

\* Threads run: they get the mutexes, jobs that do not block end, and time passes.
DispatchFairness ==
    /\ \A w \in Workers : WF_all(WorkAndSchedule(w))
    /\ WF_all(CancelWake /\ UNCHANGED scheduling)
    /\ WF_all(Fire \/ Wait \/ Wake)
    /\ WF_all(Tick)

DispatchSpec == DispatchInit /\ [][DispatchNext]_all /\ DispatchFairness

---------------------------------------------------------------------------
(* Properties                                                               *)

\* The events are a heap, so the first one is the next to fire, and what it holds
\* are the scheduled jobs, each once: insertion and removal lose none.
HeapExact ==
    /\ \A i \in 2..Len(heap) : heap[i \div 2].time <= heap[i].time
    /\ Scheduler!JobsIn(heap) = {j \in Jobs : status[j] = "scheduled"}
    /\ Cardinality(Scheduler!JobsIn(heap)) = Len(heap)

\* While the scheduler's thread sleeps unsignalled, it sleeps until the next event
\* exactly: an event inserted before the others, or the removal of all, wakes it.
SleepsUntilNext ==
    state = "asleep" => until = IF heap = <<>> THEN Scheduler!Forever ELSE heap[1].time

\* A job is queued not before its time, and before all that are due later.
FiresInOrder ==
    [][\A i \in DOMAIN heap : status'[heap[i].job] = "queued" =>
          heap[i].time <= now /\ \A k \in DOMAIN heap : heap[i].time <= heap[k].time]_all

\* A scheduled job is queued or destroyed in the end, even if all jobs of lower
\* priority block: the reserved thread is the scheduler's, unless threads are
\* taken away.
JobFires ==
    \A j \in Others :
        (status[j] = "scheduled" /\ total_threads > 0)
            ~> (status[j] # "scheduled" \/ desired_threads < Cardinality(Workers))

\* Every job is in exactly one place, which the counters, the queues, the threads
\* and the heap agree on: neither queue_job(), schedule_job(), cancel() nor a
\* restart loses or doubles it.
JobsSound == TypeOK /\ Accounting /\ OneOwner /\ HeapExact

\* No lost wakeup, neither of the workers in process_jobs() nor of the scheduler's
\* thread in schedule().
NobodyOversleeps == SomeoneLooks /\ SleepsUntilNext

\* cancel() returns, whatever the threads do while it is called, and no thread and
\* no job is left then.
CancelCompletes == CancelDestroys /\ CancelEnds
====
