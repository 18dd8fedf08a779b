---- MODULE TrapManager ----
(***************************************************************************)
(* Trap policies (libcharon/sa/trap_manager.c): threads install, replace and  *)
(* uninstall traps, for which the lock of the list is released while the      *)
(* kernel is called; packets that hit a trap make a thread acquire a CHILD_SA *)
(* once, until a listener learns what became of it; and the list is flushed   *)
(* when the daemon ends.  The reqid of a trap is identified with its name.    *)
(***************************************************************************)
EXTENDS Integers, FiniteSets

CONSTANTS
    Threads, Names,
    Sas,            \* IKE_SAs that acquires use, destroyed and created again
    NoName, NoSa,
    Ops,            \* the operations of each thread
    MaxEntries      \* bound: entries ever allocated

AllOps == {"install", "uninstall", "external", "flush", "acquire"}
ASSUME OpsAssumption == Ops \in [Threads -> SUBSET AllOps] /\ MaxEntries \in Nat
ASSUME SetsAssumption == IsFiniteSet(Threads) /\ NoSa \notin Sas

Entries == 1..MaxEntries
Disabled == -1                  \* INSTALL_DISABLED

VARIABLES
    entry,          \* the allocated entries
    allocated,      \* their number
    traps,          \* those in the list
    installing,
    acquires,       \* pending acquires, by reqid
    sas,            \* the IKE_SAs that exist
    thread

vars == <<entry, allocated, traps, installing, acquires, sas, thread>>

NoEntry == [name |-> NoName, installed |-> FALSE, external |-> FALSE, freed |-> FALSE]
NoAcquire == [pending |-> FALSE, ike_sa |-> NoSa]
Idle == [pc |-> "idle", op |-> "none", name |-> NoName, entry |-> 0, found |-> 0]
Pcs == {"idle", "wait", "woken", "installing", "replace", "finish", "destroy", "external",
        "keep", "checkout"}

\* A thread is in install(), the entry in the list.
Installs(t) == thread[t].pc \in {"installing", "replace", "finish"}

TypeOK ==
    /\ allocated \in 0..MaxEntries
    /\ entry \in [Entries -> [name : Names \cup {NoName}, installed : BOOLEAN,
                              external : BOOLEAN, freed : BOOLEAN]]
    /\ traps \subseteq 1..allocated
    /\ installing \in {Disabled, Cardinality({t \in Threads : Installs(t)})}
    /\ acquires \in [Names -> [pending : BOOLEAN, ike_sa : Sas \cup {NoSa}]] /\ sas \subseteq Sas
    /\ thread \in [Threads -> [pc : Pcs, op : AllOps \cup {"none"}, name : Names \cup {NoName},
                               entry : 0..MaxEntries, found : 0..MaxEntries]]

Routed(n) == {e \in traps : entry[e].name = n /\ ~entry[e].external}
Free(e) == [entry EXCEPT ![e].freed = TRUE]
Goto(t, pc) == thread' = [thread EXCEPT ![t].pc = pc]
Done(t) == thread' = [thread EXCEPT ![t] = Idle]
Start(t, op) == op \in Ops[t] /\ thread[t].pc = "idle"

---------------------------------------------------------------------------
(* install()                                                                *)

\* Mutant: the trap that is updated stays in the list.
InsertOnly(e, found) == traps \cup {e}

\* a new entry instead of the one that is updated
Insert(e, found) == (traps \ {found}) \cup {e}

Install(t, n) ==
    /\ Start(t, "install") /\ allocated < MaxEntries
    /\ installing # Disabled
    /\ \A e \in Routed(n) : entry[e].installed
    /\ LET e == allocated + 1
           found == IF Routed(n) = {} THEN 0 ELSE CHOOSE f \in Routed(n) : TRUE
       IN /\ allocated' = e
          /\ entry' = [entry EXCEPT ![e].name = n]
          /\ traps' = Insert(e, found)
          /\ thread' = [thread EXCEPT ![t] = [pc |-> "installing", op |-> "install", name |-> n,
                                              entry |-> e, found |-> found]]
    /\ installing' = installing + 1
    /\ UNCHANGED <<acquires, sas>>

\* The kernel installs the policies, or not.
InstallPolicies(t) ==
    LET e == thread[t].entry
    IN /\ thread[t].pc = "installing"
       /\ \/ entry' = [entry EXCEPT ![e].installed = TRUE] /\ UNCHANGED traps
          \/ entry' = Free(e) /\ traps' = traps \ {e}
       /\ Goto(t, IF thread[t].found = 0 THEN "finish" ELSE "replace")
       /\ UNCHANGED <<allocated, installing, acquires, sas>>

DestroyFound(t) ==
    /\ thread[t].pc = "replace"
    /\ entry' = Free(thread[t].found)
    /\ thread' = [thread EXCEPT ![t].pc = "finish", ![t].found = 0]
    /\ UNCHANGED <<allocated, traps, installing, acquires, sas>>

Waiting(th) == {t \in Threads : th[t].pc = "wait"}

\* Mutant: nobody is woken.
SignalNobody(th) == {th}

\* signal() wakes one of the waiting threads.
Signal(th) ==
    IF Waiting(th) = {} THEN {th} ELSE {[th EXCEPT ![w].pc = "woken"] : w \in Waiting(th)}

Finish(t) ==
    /\ thread[t].pc = "finish"
    /\ installing' = installing - 1
    /\ thread' \in Signal([thread EXCEPT ![t] = Idle])
    /\ UNCHANGED <<entry, allocated, traps, acquires, sas>>

---------------------------------------------------------------------------
(* uninstall() and flush(): wait until nobody installs                      *)

\* Mutant: a trap that is being installed may be removed.
NeverBusy == FALSE

Busy == installing # 0

RemoveTrap(t, n) ==
    LET found == Routed(n)
    IN /\ \E e \in found \cup (IF found = {} THEN {0} ELSE {}) :
             /\ traps' = traps \ {e}
             /\ thread' = [thread EXCEPT ![t] =
                   IF e = 0 THEN Idle ELSE [Idle EXCEPT !.pc = "destroy", !.op = "uninstall",
                                                        !.found = e]]
       /\ UNCHANGED <<entry, installing>>

FlushTraps(t) ==
    /\ entry' = [e \in Entries |-> [entry[e] EXCEPT !.freed = @ \/ e \in traps]]
    /\ traps' = {}
    /\ installing' = Disabled
    /\ Done(t)

Continue(t, op, n) ==
    IF Busy
    THEN /\ thread' = [thread EXCEPT ![t] = [Idle EXCEPT !.pc = "wait", !.op = op, !.name = n]]
         /\ UNCHANGED <<entry, traps, installing>>
    ELSE IF op = "flush" THEN FlushTraps(t) ELSE RemoveTrap(t, n)

Uninstall(t, n) ==
    /\ Start(t, "uninstall")
    /\ Continue(t, "uninstall", n)
    /\ UNCHANGED <<allocated, acquires, sas>>

\* called once, when the daemon is destroyed
Flush(t) ==
    /\ Start(t, "flush") /\ installing # Disabled
    /\ \A u \in Threads : thread[u].op # "flush"
    /\ Continue(t, "flush", NoName)
    /\ UNCHANGED <<allocated, acquires, sas>>

Wake(t) ==
    /\ thread[t].pc = "woken"
    /\ Continue(t, thread[t].op, thread[t].name)
    /\ UNCHANGED <<allocated, acquires, sas>>

Destroy(t) ==
    /\ thread[t].pc = "destroy"
    /\ entry' = Free(thread[t].found)
    /\ Done(t)
    /\ UNCHANGED <<allocated, traps, installing, acquires, sas>>

---------------------------------------------------------------------------
(* install_external() and remove_external(): by the owner of the CHILD_SA    *)

InstallExternal(t, n) ==
    /\ Start(t, "external") /\ allocated < MaxEntries
    /\ installing # Disabled
    /\ allocated' = allocated + 1
    /\ entry' = [entry EXCEPT ![allocated'] =
                    [name |-> n, installed |-> TRUE, external |-> TRUE, freed |-> FALSE]]
    /\ traps' = traps \cup {allocated'}
    /\ thread' = [thread EXCEPT ![t] = [Idle EXCEPT !.pc = "external", !.op = "external",
                                                    !.entry = allocated']]
    /\ UNCHANGED <<installing, acquires, sas>>

ExternalPolicies(t) ==
    LET e == thread[t].entry
    IN /\ thread[t].pc = "external"
       /\ \/ thread' = [thread EXCEPT ![t] = [Idle EXCEPT !.pc = "keep", !.op = "external",
                                                          !.found = e]]
             /\ UNCHANGED <<entry, traps>>
          \/ entry' = Free(e) /\ traps' = traps \ {e} /\ Done(t)
       /\ UNCHANGED <<allocated, installing, acquires, sas>>

\* The entry is looked up by its CHILD_SA.
RemoveExternal(t) ==
    LET e == thread[t].found
    IN /\ thread[t].pc = "keep"
       /\ traps' = traps \ {e}
       /\ entry' = IF e \in traps THEN Free(e) ELSE entry
       /\ Done(t)
       /\ UNCHANGED <<allocated, installing, acquires, sas>>

---------------------------------------------------------------------------
(* acquire() and the listener                                               *)

Pending(n) == acquires[n].pending

Acquire(t, n) ==
    /\ Start(t, "acquire")
    /\ \E e \in traps : entry[e].installed /\ entry[e].name = n
    /\ ~Pending(n)
    /\ acquires' = [acquires EXCEPT ![n] = [pending |-> TRUE, ike_sa |-> NoSa]]
    /\ thread' = [thread EXCEPT ![t] = [Idle EXCEPT !.pc = "checkout", !.op = "acquire",
                                                    !.name = n]]
    /\ UNCHANGED <<entry, allocated, traps, installing, sas>>

\* An IKE_SA is found or created and the CHILD_SA initiated, or there is none.
Initiate(t) ==
    /\ thread[t].pc = "checkout"
    /\ \/ /\ acquires' = [acquires EXCEPT ![thread[t].name] = NoAcquire]
          /\ UNCHANGED sas
       \/ \E s \in Sas :
             /\ acquires' = [acquires EXCEPT ![thread[t].name].ike_sa = s]
             /\ sas' = sas \cup {s}
    /\ Done(t)
    /\ UNCHANGED <<entry, allocated, traps, installing>>

\* the acquires of these reqids that the IKE_SA handles end
complete(s, ns) ==
    [n \in Names |-> IF n \in ns /\ acquires[n].ike_sa = s THEN NoAcquire ELSE acquires[n]]

\* a CHILD_SA is installed or destroyed
ChildStateChange(s, n) ==
    /\ acquires[n].ike_sa = s
    /\ acquires' = complete(s, {n})
    /\ UNCHANGED <<entry, allocated, traps, installing, sas, thread>>

\* the IKE_SA is destroyed; another one may get its address
IkeStateChange(s) ==
    /\ s \in sas
    /\ acquires' = complete(s, Names)
    /\ sas' = sas \ {s}
    /\ UNCHANGED <<entry, allocated, traps, installing, thread>>

---------------------------------------------------------------------------
Init ==
    /\ entry = [e \in Entries |-> NoEntry] /\ allocated = 0 /\ traps = {}
    /\ installing = 0
    /\ acquires = [n \in Names |-> NoAcquire] /\ sas = {}
    /\ thread = [t \in Threads |-> Idle]

Proceed(t) ==
    \/ InstallPolicies(t) \/ DestroyFound(t) \/ Finish(t) \/ Wake(t) \/ Destroy(t)
    \/ ExternalPolicies(t) \/ Initiate(t)

Next ==
    \/ \E t \in Threads :
          \/ Proceed(t) \/ RemoveExternal(t) \/ Flush(t)
          \/ \E n \in Names : Install(t, n) \/ Uninstall(t, n) \/ InstallExternal(t, n) \/ Acquire(t, n)
    \/ \E s \in Sas : IkeStateChange(s) \/ \E n \in Names : ChildStateChange(s, n)

\* Threads run.  Nothing is assumed of IKE_SAs: one that gets no answer may never
\* install its CHILD_SA or be destroyed.
Spec == Init /\ [][Next]_vars /\ \A t \in Threads : WF_vars(Proceed(t))

---------------------------------------------------------------------------
(* Properties                                                               *)

\* Nothing that a thread refers to is freed, in the list or by another thread: an
\* entry without the lock is one the list holds back or no longer has.  flush() does
\* not wait for external traps that are being installed.
NoDangling ==
    /\ \A e \in traps : ~entry[e].freed
    /\ \A t \in Threads :
          /\ thread[t].pc = "installing" => ~entry[thread[t].entry].freed
          /\ thread[t].pc = "external" =>
                installing = Disabled \/ ~entry[thread[t].entry].freed
          /\ thread[t].pc \in {"replace", "destroy"} => ~entry[thread[t].found].freed

\* No trap is routed twice: an installed one is replaced, one that is being installed
\* is left alone.
OneTrap == \A n \in Names : Cardinality(Routed(n)) <= 1

\* Entries that nobody refers to are freed: installations that fail, traps that are
\* replaced while they are uninstalled, and all when the list is flushed.
NothingLeaked ==
    \A e \in 1..allocated :
        \/ e \in traps \/ entry[e].freed
        \/ \E t \in Threads : thread[t].entry = e \/ thread[t].found = e

\* At most one thread acquires the CHILD_SA of a trap.
OneAcquire ==
    \A t, u \in Threads : thread[t].pc = "checkout" /\ thread[u].pc = "checkout"
                          /\ thread[t].name = thread[u].name => t = u

\* A pending acquire blocks its trap only as long as there is someone to end it: the
\* thread that checks out an IKE_SA, or the IKE_SA that tells the listener.
AcquireAttended ==
    \A n \in Names : acquires[n].pending =>
        \/ \E t \in Threads : thread[t].pc = "checkout" /\ thread[t].name = n
        \/ acquires[n].ike_sa \in sas

\* However many threads wait until no trap is being installed, when that is so one of
\* them is awake.
OneIsWoken ==
    (installing > 0 /\ Waiting(thread) # {}) ~>
        (installing = 0 /\ \E t \in Threads : thread[t].pc = "woken")

\* A thread that waits while traps are being installed returns, unless another one
\* comes to wait, as signal() wakes one of them, or the list is flushed.
WaitEnds ==
    \A t \in Threads : (installing > 0 /\ Waiting(thread) = {t}) ~>
        \/ thread[t].pc = "idle" \/ Waiting(thread) \ {t} # {} \/ installing = Disabled

\* An entry is freed when nobody has it any more, and not before: install(),
\* uninstall() and flush() call the kernel without the lock.
EntriesSound == TypeOK /\ NoDangling /\ NothingLeaked

\* A trap is routed once, and packets that hit it acquire a CHILD_SA once until
\* somebody tells what became of it.
OnlyOnce == OneTrap /\ OneAcquire /\ AcquireAttended

\* uninstall() and flush() go on when nobody installs traps any more.
WaitersGoOn == OneIsWoken /\ WaitEnds
====
