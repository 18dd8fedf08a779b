---- MODULE Processor ----
(***************************************************************************)
(* The processor (libstrongswan/processing/processor.c): a pool of worker    *)
(* threads that execute queued jobs by priority, with threads reserved for  *)
(* the higher priorities.  Jobs end, are queued again, are scheduled, or     *)
(* block until they are canceled.  Steps are the parts of a function between *)
(* acquiring the mutex and releasing it or waiting.                          *)
(***************************************************************************)
EXTENDS Integers, Sequences, FiniteSets, SequencesExt, FiniteSetsExt

CONSTANTS
    Workers,        \* threads that can be created
    Jobs,
    NoJob,
    Prios,          \* number of priorities, 1 is the highest
    Priority,       \* the priority of a job
    Kind,           \* what its execution ends with: "once", "fair", "schedule",
                    \* or "block" for a job that does not end
    Cancelable,     \* jobs with a cancel() method, the blocking ones among them
    Direct,         \* jobs passed to execute_job(), others to queue_job()
    PrioThreads,    \* processor.priority_threads
    Counts          \* arguments of set_threads()

Priorities == 1..Prios

ASSUME JobsAssumption ==
    /\ NoJob \notin Jobs /\ IsFiniteSet(Workers)
    /\ Priority \in [Jobs -> Priorities]
    /\ Kind \in [Jobs -> {"once", "fair", "schedule", "block"}]
    /\ Direct \subseteq Jobs /\ Cancelable \subseteq Jobs
    /\ \A j \in Jobs : Kind[j] = "block" => j \in Cancelable
ASSUME ThreadsAssumption ==
    Prios \in Nat /\ PrioThreads \in [Priorities -> Nat] /\ Counts \subseteq Nat

VARIABLES
    jobs,               \* the queues
    working_threads, total_threads, desired_threads,
    worker,             \* state and job of each worker_thread_t
    status,             \* where a job is
    freed,              \* how often a job was destroyed
    canceling           \* the thread in cancel(): "no", "asleep", "woken" or "done"

vars == <<jobs, working_threads, total_threads, desired_threads, worker, status, freed,
          canceling>>

States == {"none", "awake", "asleep", "executing", "canceled", "destroying",
           "restarting", "gone"}

TypeOK ==
    /\ jobs \in [Priorities -> Seq(Jobs)]
    /\ working_threads \in [Priorities -> 0..Cardinality(Workers)]
    /\ total_threads \in 0..Cardinality(Workers) /\ desired_threads \in Nat
    /\ worker \in [Workers -> [state : States, job : Jobs \cup {NoJob}]]
    /\ status \in [Jobs -> {"new", "queued", "executing", "canceled", "scheduled", "inline",
                            "done", "destroyed"}]
    /\ freed \in [Jobs -> 0..1]
    /\ canceling \in {"no", "asleep", "woken", "done"}

-----------------------------------------------------------------------------

In(state) == {w \in Workers : worker[w].state = state}

\* get_idle_threads_nolock()
Idle == total_threads - SumFunction(working_threads)

\* Mutant: nobody is signalled.
SignalNobody == {worker}

\* The workers once one of those that wait for a job, if any, is woken
SignalAdded ==
    IF In("asleep") = {} THEN {worker}
    ELSE {[worker EXCEPT ![w].state = "awake"] : w \in In("asleep")}

BroadcastAdded(workers) ==
    [w \in Workers |-> IF workers[w].state = "asleep"
                       THEN [workers[w] EXCEPT !.state = "awake"] ELSE workers[w]]

\* Mutant: the thread in cancel() is not signalled.
SignalForgotten == UNCHANGED canceling

\* thread_terminated is signalled; only cancel() waits for it.
SignalTerminated == canceling' = IF canceling = "asleep" THEN "woken" ELSE canceling

\* Idle threads reserved for priorities higher than i
Reserved(i) ==
    MapThenSumSet(LAMBDA k : Max({0, PrioThreads[k] - working_threads[k]}), 1..i - 1)

\* Mutant: the last free thread is not kept.
DelayedTooLate(i) == Reserved(i) # 0 /\ Reserved(i) > Idle

\* Jobs of this priority have to wait: the idle threads are reserved.
Delayed(i) == Reserved(i) # 0 /\ Reserved(i) >= Idle

\* get_job(): the priority whose first job is next, if any
NextPriority ==
    {i \in Priorities : /\ jobs[i] # <<>> /\ ~Delayed(i)
                        /\ \A k \in 1..i - 1 : jobs[k] = <<>>}

-----------------------------------------------------------------------------
(* Queueing                                                                 *)

Submit(j, from) ==
    /\ status[j] = from
    /\ status' = [status EXCEPT ![j] = "queued"]
    /\ jobs' = [jobs EXCEPT ![Priority[j]] = Append(@, j)]
    /\ worker' \in SignalAdded
    /\ UNCHANGED <<working_threads, total_threads, desired_threads, freed, canceling>>

QueueJob(j) == j \notin Direct /\ Submit(j, "new")

\* The scheduler queues a job when its time has come.
EventDue(j) == Submit(j, "scheduled")

\* execute_job(): in front of the queue, or by the calling thread
ExecuteJob(j) ==
    /\ j \in Direct /\ status[j] = "new"
    /\ IF desired_threads > 0 /\ Idle > 0
       THEN /\ status' = [status EXCEPT ![j] = "queued"]
            /\ jobs' = [jobs EXCEPT ![Priority[j]] = <<j>> \o @]
       ELSE /\ status' = [status EXCEPT ![j] = "inline"]
            /\ UNCHANGED jobs
    /\ worker' \in SignalAdded
    /\ UNCHANGED <<working_threads, total_threads, desired_threads, freed, canceling>>

InlineDone(j) ==
    /\ status[j] = "inline"
    /\ status' = [status EXCEPT ![j] = "destroyed"]
    /\ freed' = [freed EXCEPT ![j] = @ + 1]
    /\ UNCHANGED <<jobs, working_threads, total_threads, desired_threads, worker, canceling>>

-----------------------------------------------------------------------------
(* Worker threads                                                           *)

\* Mutant: the job stays in its queue as well.
TakenTwice(i) == UNCHANGED jobs

\* remove_first() of a queue
TakeFirst(i) == jobs' = [jobs EXCEPT ![i] = Tail(@)]

\* process_jobs(): leave, take a job or wait for one
Loop(w) ==
    /\ worker[w].state = "awake"
    /\ \/ /\ desired_threads < total_threads
          /\ total_threads' = total_threads - 1
          /\ worker' = [worker EXCEPT ![w].state = "gone"]
          /\ SignalTerminated
          /\ UNCHANGED <<jobs, working_threads, status>>
       \/ /\ desired_threads >= total_threads
          /\ \E i \in NextPriority :
               /\ TakeFirst(i)
               /\ working_threads' = [working_threads EXCEPT ![i] = @ + 1]
               /\ worker' = [worker EXCEPT ![w] = [state |-> "executing", job |-> Head(jobs[i])]]
               /\ status' = [status EXCEPT ![Head(jobs[i])] = "executing"]
          /\ UNCHANGED <<total_threads, canceling>>
       \/ /\ desired_threads >= total_threads
          /\ NextPriority = {}
          /\ worker' = [worker EXCEPT ![w].state = "asleep"]
          /\ UNCHANGED <<jobs, working_threads, total_threads, status, canceling>>
    /\ UNCHANGED <<desired_threads, freed>>

\* JOB_REQUEUE_TYPE_FAIR: others come first.
Requeue(i, j) == jobs' = [jobs EXCEPT ![i] = Append(@, j)]

\* execute() returns, of a blocking job only after it was canceled: the job is destroyed, queued again or scheduled.
Executed(w) ==
    LET j == worker[w].job i == Priority[j] IN
    /\ worker[w].state \in {"executing", "canceled"}
    /\ Kind[j] = "block" => status[j] = "canceled"
    /\ working_threads' = [working_threads EXCEPT ![i] = @ - 1]
    /\ \/ /\ status[j] = "canceled" \/ Kind[j] # "block"
          /\ status' = [status EXCEPT ![j] = "done"]
          /\ worker' = [worker EXCEPT ![w].state = "destroying"]
          /\ UNCHANGED jobs
       \/ /\ status[j] # "canceled" /\ Kind[j] = "fair"
          /\ status' = [status EXCEPT ![j] = "queued"]
          /\ Requeue(i, j)
          /\ \E ws \in SignalAdded :
               worker' = [ws EXCEPT ![w] = [state |-> "awake", job |-> NoJob]]
       \/ /\ status[j] # "canceled" /\ Kind[j] = "schedule"
          /\ status' = [status EXCEPT ![j] = "scheduled"]
          /\ worker' = [worker EXCEPT ![w] = [state |-> "awake", job |-> NoJob]]
          /\ UNCHANGED jobs
    /\ UNCHANGED <<total_threads, desired_threads, freed, canceling>>

\* destroy() of the job, without the mutex
DestroyJob(w) ==
    LET j == worker[w].job IN
    /\ worker[w].state = "destroying"
    /\ status' = [status EXCEPT ![j] = "destroyed"]
    /\ freed' = [freed EXCEPT ![j] = @ + 1]
    /\ worker' = [worker EXCEPT ![w] = [state |-> "awake", job |-> NoJob]]
    /\ UNCHANGED <<jobs, working_threads, total_threads, desired_threads, canceling>>

\* restart() of a worker thread that was canceled while it executed a job; its
\* thread is not replaced, as only cancel() cancels threads.
Restart(w) ==
    LET j == worker[w].job IN
    /\ worker[w].state = "canceled"
    /\ working_threads' = [working_threads EXCEPT ![Priority[j]] = @ - 1]
    /\ status' = [status EXCEPT ![j] = "done"]
    /\ worker' = [worker EXCEPT ![w].state = "restarting"]
    /\ UNCHANGED <<jobs, total_threads, desired_threads, freed, canceling>>

RestartEnd(w) ==
    LET j == worker[w].job IN
    /\ worker[w].state = "restarting"
    /\ status' = [status EXCEPT ![j] = "destroyed"]
    /\ freed' = [freed EXCEPT ![j] = @ + 1]
    /\ worker' = [worker EXCEPT ![w] = [state |-> "gone", job |-> NoJob]]
    /\ total_threads' = total_threads - 1
    /\ SignalTerminated
    /\ UNCHANGED <<jobs, working_threads, desired_threads>>

-----------------------------------------------------------------------------
(* Starting and stopping                                                    *)

\* set_threads(): thread_create() fails when no more threads can be created.
SetThreads(count) ==
    LET missing == count - total_threads
        created == Min({missing, Cardinality(In("none"))})
    IN
    /\ canceling = "no"
    /\ \/ /\ count > total_threads
          /\ desired_threads' = count
          /\ total_threads' = total_threads + created
          /\ \E new \in kSubset(created, In("none")) :
               worker' = [w \in Workers |-> IF w \in new THEN [state |-> "awake", job |-> NoJob]
                                            ELSE BroadcastAdded(worker)[w]]
       \/ /\ count <= total_threads
          /\ desired_threads' = IF count < total_threads THEN count ELSE desired_threads
          /\ worker' = BroadcastAdded(worker)
          /\ UNCHANGED total_threads
    /\ UNCHANGED <<jobs, working_threads, status, freed, canceling>>

\* The end of cancel(): all threads are gone, what is queued is destroyed.
EndCancel ==
    /\ canceling' = "done"
    /\ jobs' = [i \in Priorities |-> <<>>]
    /\ status' = [j \in Jobs |-> IF j \in UNION {Range(jobs[i]) : i \in Priorities}
                                 THEN "destroyed" ELSE status[j]]
    /\ freed' = [j \in Jobs |-> IF j \in UNION {Range(jobs[i]) : i \in Priorities}
                                THEN freed[j] + 1 ELSE freed[j]]

\* worker->job is set
HasJob(w) == worker[w].state = "executing"

\* cancel() marks cancelable jobs and cancels them or their threads.
Cancel ==
    LET marked == {w \in Workers : HasJob(w) /\ worker[w].job \in Cancelable} IN
    /\ canceling = "no"
    /\ desired_threads' = 0
    /\ \/ /\ total_threads > 0
          /\ canceling' = "asleep"
          /\ worker' = BroadcastAdded([w \in Workers |->
                 IF w \in marked THEN [worker[w] EXCEPT !.state = "canceled"] ELSE worker[w]])
          /\ status' = [j \in Jobs |-> IF j \in {worker[w].job : w \in marked}
                                       THEN "canceled" ELSE status[j]]
          /\ UNCHANGED <<jobs, freed>>
       \/ /\ total_threads = 0
          /\ EndCancel
          /\ UNCHANGED worker
    /\ UNCHANGED <<working_threads, total_threads>>

CancelWake ==
    /\ canceling = "woken"
    /\ \/ /\ total_threads > 0
          /\ canceling' = "asleep"
          /\ worker' = BroadcastAdded(worker)
          /\ UNCHANGED <<jobs, status, freed>>
       \/ /\ total_threads = 0
          /\ EndCancel
          /\ UNCHANGED worker
    /\ UNCHANGED <<working_threads, total_threads, desired_threads>>

-----------------------------------------------------------------------------

Work(w) == Loop(w) \/ Executed(w) \/ DestroyJob(w) \/ Restart(w) \/ RestartEnd(w)

-----------------------------------------------------------------------------
(* Properties                                                               *)

\* The counters that get_job() reserves threads by agree with what the threads
\* do, through restarts, cancellation and changes of the number of threads.
Accounting ==
    /\ total_threads = Cardinality(Workers \ (In("none") \cup In("gone")))
    /\ \A i \in Priorities : working_threads[i] = Cardinality(
           {w \in In("executing") \cup In("canceled") : Priority[worker[w].job] = i})

\* A job has one owner: it is in one queue once, or with one thread, or it was
\* destroyed, once.  Neither cancel() nor the requeueing of a job that is being
\* canceled loses or doubles it.
OneOwner ==
    \A j \in Jobs :
        LET queued == {<<i, k>> \in Priorities \X (1..Cardinality(Jobs)) :
                          k <= Len(jobs[i]) /\ jobs[i][k] = j}
            with == {w \in Workers : worker[w].job = j}
        IN /\ Cardinality(queued) = (IF status[j] = "queued" THEN 1 ELSE 0)
           /\ Cardinality(with) = (IF status[j] \in {"executing", "canceled", "done"} THEN 1 ELSE 0)
           /\ freed[j] = (IF status[j] = "destroyed" THEN 1 ELSE 0)

\* No lost wakeup: while a job could be taken and a thread waits for one, some
\* thread is awake and will look at the queues before it waits.
SomeoneLooks ==
    NextPriority # {} /\ In("asleep") # {} =>
        In("awake") \cup In("destroying") # {}

\* A job of the highest priority finds a thread that is not stuck in other jobs,
\* as long as fewer threads work at it than are reserved for it.
ReservedThreads ==
    desired_threads >= total_threads /\ working_threads[1] < PrioThreads[1] =>
        Idle >= Min({total_threads, PrioThreads[1] - working_threads[1]})

\* When cancel() returns all threads are gone, and no job is left that was queued
\* or executed before; scheduled ones are the scheduler's to destroy.
CancelDestroys ==
    [][canceling' = "done" => \/ canceling = "done"
                             \/ /\ In("none") \cup In("gone") = Workers
                                /\ \A j \in Jobs : status'[j] \in {"new", "scheduled", "inline",
                                                                  "destroyed"}]_vars

\* cancel() returns, whatever the threads do while it is called.
CancelEnds == canceling = "asleep" ~> canceling = "done"
====
