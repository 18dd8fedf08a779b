---- MODULE IpsecSaMgr ----
(***************************************************************************)
(* The manager of userland IPsec SAs (libipsec/ipsec_sa_mgr.c): threads that *)
(* process packets check SAs out and in, others query, update, delete or     *)
(* expire them, or flush them all.  One mutex, given up while a thread waits *)
(* on the condvar of an entry, which users and removers of it share.         *)
(***************************************************************************)
EXTENDS Integers, Sequences, FiniteSets, SequencesExt

CONSTANTS
    Threads,
    SAs,            \* each is installed once
    NoThread, NoSA, \* values outside of these sets
    Ops             \* what threads do: "use", "query", "remove", "flush"

\* What the threads and SAs of every instance are.
ConstantsOK ==
    /\ IsFiniteSet(Threads) /\ Threads # {}
    /\ NoThread \notin Threads /\ NoSA \notin SAs
ASSUME ConstantsAssumption == ConstantsOK

VARIABLES
    sas,            \* the list of entries, the last one installed first
    life,           \* "none", "installed" or "destroyed"
    entry,          \* locked, waiting_threads and awaits_deletion of an entry
    mutex,          \* the thread that keeps the mutex between two steps
    call            \* what a thread is doing, and the entry it does it with

vars == <<sas, life, entry, mutex, call>>

\* A thread runs, uses an SA, or waits: for its turn, for the user of the entry to
\* check it in, or for the threads that wait for their turn to leave.
States == {"idle", "run", "using", "turn", "checkin", "leave"}

TypeOK ==
    /\ sas \in Seq(SAs)
    /\ life \in [SAs -> {"none", "installed", "destroyed"}]
    /\ entry \in [SAs -> [locked : BOOLEAN, waiting_threads : 0..Cardinality(Threads),
                          awaits_deletion : BOOLEAN]]
    /\ mutex \in Threads \cup {NoThread}
    /\ call \in [Threads -> [op : Ops \cup {"none"}, state : States, at : SAs \cup {NoSA},
                             woken : BOOLEAN, result : {"none", "done", "gone"}]]

NoCall == [op |-> "none", state |-> "idle", at |-> NoSA, woken |-> FALSE, result |-> "none"]
Returned(c, r) == [NoCall EXCEPT !.op = c.op, !.result = r]
NewEntry == [locked |-> FALSE, waiting_threads |-> 0, awaits_deletion |-> FALSE]

Installed(s) == s \in ToSet(sas)

\* The threads asleep on the condvar of an entry
Asleep(s) ==
    {t \in Threads : /\ call[t].at = s /\ ~call[t].woken
                     /\ call[t].state \in {"turn", "checkin", "leave"}}

\* Mutant: nobody is woken.
SignalNobody(s) == {{}}

\* signal() wakes at least one thread.
Signal(s) == IF Asleep(s) = {} THEN {{}} ELSE (SUBSET Asleep(s)) \ {{}}
Broadcast(s) == {Asleep(s)}

\* The calls after t continues as c and the threads in W were woken
Calls(t, c, W) ==
    [u \in Threads |-> IF u = t THEN c
                       ELSE IF u \in W THEN [call[u] EXCEPT !.woken = TRUE] ELSE call[u]]

Sleep(c, state, s) == [c EXCEPT !.state = state, !.at = s, !.woken = FALSE]

---------------------------------------------------------------------------
(* Installing and using SAs                                                 *)

\* add_sa()
AddSa(s) ==
    /\ mutex = NoThread
    /\ life[s] = "none"
    /\ sas' = <<s>> \o sas
    /\ life' = [life EXCEPT ![s] = "installed"]
    /\ entry' = [entry EXCEPT ![s] = NewEntry]
    /\ UNCHANGED <<mutex, call>>

\* Mutant: a thread that is woken takes the entry from its user.
BusyUnlessWoken(e) == e.locked /\ ~e.awaits_deletion /\ e.waiting_threads = 0

\* The condition a thread waits on in wait_for_entry()
Busy(e) == e.locked /\ ~e.awaits_deletion

\* update_sa() and query_sa() use the entry and unlock it in the same step.
UpdateOrQuery(t, c, s, e) ==
    /\ entry' = [entry EXCEPT ![s] = e]
    /\ \E W \in Signal(s) : call' = Calls(t, Returned(c, "done"), W)

\* wait_for_entry() of t, in call c, at entry s with content e, and what follows.
WaitForEntry(t, c, s, e) ==
    \/ /\ Busy(e)
       /\ entry' = [entry EXCEPT ![s] = [e EXCEPT !.waiting_threads = @ + 1]]
       /\ call' = [call EXCEPT ![t] = Sleep(c, "turn", s)]
    \/ /\ e.awaits_deletion
       /\ entry' = [entry EXCEPT ![s] = e]
       /\ \E W \in Signal(s) : call' = Calls(t, Returned(c, "gone"), W)
    \/ /\ ~Busy(e) /\ ~e.awaits_deletion /\ c.op = "use"
       /\ entry' = [entry EXCEPT ![s] = [e EXCEPT !.locked = TRUE]]
       /\ call' = [call EXCEPT ![t] = Sleep(c, "using", s)]
    \/ /\ ~Busy(e) /\ ~e.awaits_deletion /\ c.op = "query"
       /\ UpdateOrQuery(t, c, s, e)

\* checkout_by_spi(), checkout_by_reqid(), update_sa() and query_sa()
Checkout(t, op, s) ==
    /\ op \in Ops \cap {"use", "query"} /\ mutex = NoThread
    /\ call[t].state = "idle" /\ Installed(s)
    /\ WaitForEntry(t, [NoCall EXCEPT !.op = op], s, entry[s])
    /\ UNCHANGED <<sas, life, mutex>>

NoLongerWaiting(s) == [entry[s] EXCEPT !.waiting_threads = @ - 1]

Turn(t) ==
    LET s == call[t].at
    IN /\ call[t].state = "turn" /\ call[t].woken /\ mutex = NoThread
       /\ WaitForEntry(t, call[t], s, NoLongerWaiting(s))
       /\ UNCHANGED <<sas, life, mutex>>

Checkin(t) ==
    LET s == call[t].at
    IN /\ call[t].state = "using" /\ mutex = NoThread
       /\ entry' = [entry EXCEPT ![s].locked = FALSE]
       /\ \E W \in Signal(s) : call' = Calls(t, Returned(call[t], "done"), W)
       /\ UNCHANGED <<sas, life, mutex>>

---------------------------------------------------------------------------
(* Removing them                                                            *)

Place(s) == CHOOSE i \in DOMAIN sas : sas[i] = s

Following(s) == IF Place(s) < Len(sas) THEN sas[Place(s) + 1] ELSE NoSA

\* What a remover does after an entry: a flush goes on with the one that follows,
\* without giving up the mutex.
AfterEntry(c, s) ==
    IF c.op = "flush" /\ Following(s) # NoSA
    THEN Sleep(c, "run", Following(s)) ELSE Returned(c, "done")

Leave(t, c) ==
    /\ call' = [call EXCEPT ![t] = c]
    /\ mutex' = IF c.state = "run" THEN t ELSE NoThread

\* Mutant: the threads that wait for their turn are not waited for.
RemoveAtOnce(t, c, s) ==
    \/ /\ entry[s].locked
       /\ entry' = [entry EXCEPT ![s].awaits_deletion = TRUE]
       /\ Leave(t, Sleep(c, "checkin", s))
       /\ UNCHANGED <<sas, life>>
    \/ /\ ~entry[s].locked
       /\ sas' = RemoveAt(sas, Place(s))
       /\ life' = [life EXCEPT ![s] = "destroyed"]
       /\ Leave(t, AfterEntry(c, s))
       /\ UNCHANGED entry

\* wait_remove_entry() of t, in call c, at entry s once it is marked: the threads
\* that wait for their turn are woken until none is left.
WaitRemoveEntry(t, c, s) ==
    \/ /\ entry[s].locked
       /\ entry' = [entry EXCEPT ![s].awaits_deletion = TRUE]
       /\ Leave(t, Sleep(c, "checkin", s))
       /\ UNCHANGED <<sas, life>>
    \/ /\ ~entry[s].locked /\ entry[s].waiting_threads > 0
       /\ entry' = [entry EXCEPT ![s].awaits_deletion = TRUE]
       /\ \E W \in Broadcast(s) : call' = Calls(t, Sleep(c, "leave", s), W)
       /\ mutex' = NoThread
       /\ UNCHANGED <<sas, life>>
    \/ /\ ~entry[s].locked /\ entry[s].waiting_threads = 0
       /\ sas' = RemoveAt(sas, Place(s))
       /\ life' = [life EXCEPT ![s] = "destroyed"]
       /\ Leave(t, AfterEntry(c, s))
       /\ UNCHANGED entry

\* An entry that another thread removes is left to it.
RemoveUnlessRemoved(t, c, s) ==
    \/ ~entry[s].awaits_deletion /\ WaitRemoveEntry(t, c, s)
    \/ /\ entry[s].awaits_deletion
       /\ Leave(t, AfterEntry(c, s))
       /\ UNCHANGED <<sas, life, entry>>

\* del_sa() and the hard expire of sa_expired()
DelSa(t, s) ==
    /\ "remove" \in Ops /\ mutex = NoThread
    /\ call[t].state = "idle" /\ Installed(s)
    /\ RemoveUnlessRemoved(t, [NoCall EXCEPT !.op = "remove"], s)

\* flush_sas()
FlushSas(t) ==
    /\ "flush" \in Ops /\ mutex = NoThread
    /\ call[t].state = "idle" /\ sas # <<>>
    /\ RemoveUnlessRemoved(t, [NoCall EXCEPT !.op = "flush"], sas[1])

FlushNext(t) ==
    /\ call[t].state = "run"
    /\ RemoveUnlessRemoved(t, call[t], call[t].at)

\* The remover wakes up.
WakeRemover(t) ==
    /\ call[t].state \in {"checkin", "leave"} /\ call[t].woken /\ mutex = NoThread
    /\ WaitRemoveEntry(t, call[t], call[t].at)

Spurious(t) ==
    /\ call[t].state \in {"turn", "checkin", "leave"} /\ ~call[t].woken
    /\ call' = [call EXCEPT ![t].woken = TRUE]
    /\ UNCHANGED <<sas, life, entry, mutex>>

Init ==
    /\ sas = <<>>
    /\ life = [s \in SAs |-> "none"]
    /\ entry = [s \in SAs |-> NewEntry]
    /\ mutex = NoThread
    /\ call = [t \in Threads |-> NoCall]

\* a thread goes on with what it began
Proceed(t) == Turn(t) \/ Checkin(t) \/ WakeRemover(t) \/ FlushNext(t)

Next ==
    \/ \E s \in SAs : AddSa(s)
    \/ \E t \in Threads, s \in SAs : DelSa(t, s) \/ \E op \in Ops : Checkout(t, op, s)
    \/ \E t \in Threads : FlushSas(t) \/ Proceed(t) \/ Spurious(t)

Spec == Init /\ [][Next]_vars

\* Threads get the mutex and, woken again and again, their turn; users check in.
Fairness == \A t \in Threads : SF_vars(Proceed(t))

FairSpec == Spec /\ Fairness

---------------------------------------------------------------------------
(* Properties                                                               *)

Users(s) == {t \in Threads : call[t].state = "using" /\ call[t].at = s}
Owner(s) == IF Users(s) = {} THEN NoThread ELSE CHOOSE t \in Users(s) : TRUE
Ownership == INSTANCE SaOwnership WITH
    owner <- [s \in SAs |-> Owner(s)],
    life <- [s \in SAs |-> IF life[s] = "installed" THEN "live" ELSE life[s]]

\* An SA, and with it the sequence numbers of its ESP context, is used by one
\* thread at a time and by none once it is destroyed: the manager implements
\* SaOwnership, whatever queries, deletions, expirations and flushes come between.
ExclusiveUse == Ownership!Spec

\* An entry is freed when no thread is at it: neither one that sleeps on its
\* condvar nor one that was woken and has yet to look at it.
NoDangling ==
    \A t \in Threads : call[t].at # NoSA => life[call[t].at] = "installed"

\* waiting_threads counts the threads that wait for their turn, which is what the
\* removal of the entry waits for.
WaitersCounted ==
    \A s \in SAs : entry[s].waiting_threads =
        Cardinality({t \in Threads : call[t].state = "turn" /\ call[t].at = s})

\* No lost wakeup: while threads wait for an entry that nobody uses, one of the
\* threads at it, a waiter or the remover, was woken and will pass that on.
NobodyForgotten ==
    \A s \in SAs : entry[s].waiting_threads > 0 /\ ~entry[s].locked =>
        \E t \in Threads : call[t].at = s /\ call[t].woken

\* The entries are sound between any two steps of the threads: none is freed while
\* a thread is at it, waiting_threads is exact, and nobody sleeps at an entry that
\* no one will signal.
ManagerSound == TypeOK /\ NoDangling /\ WaitersCounted /\ NobodyForgotten

\* del_sa() and flush_sas() return although users and waiters of the entry share
\* the condvar with them and each signal may wake any of them.
RemovalEnds ==
    \A t \in Threads : call[t].state \in {"checkin", "leave", "run"} ~> call[t].state = "idle"

\* query_sa() and update_sa() return SUCCESS only if the operation completed.
QueryCompletes ==
    \A t \in Threads : call[t].op = "query" /\ call[t].state = "idle" => call[t].result = "done"
====
