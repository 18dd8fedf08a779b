---- MODULE ConfigCheckout ----
(***************************************************************************)
(* Checkout of an IKE_SA by its configuration (checkout_by_config() of        *)
(* libcharon/sa/ike_sa_manager.c): threads that initiate connections of one    *)
(* configuration share an IKE_SA.  One thread at a time looks for it and       *)
(* creates it if there is none; the others wait at a condition variable that   *)
(* all configurations share.  IkeSaManager has the table in detail.            *)
(***************************************************************************)
EXTENDS Integers, FiniteSets

CONSTANTS
    Threads, Configs, NoThread, NoConfig,
    Entries,        \* number of places in the table
    MaxCalls        \* bound: checkouts by all threads

ASSUME EntriesAssumption == Entries \in Nat \ {0} /\ MaxCalls \in Nat
ASSUME ThreadsAssumption == IsFiniteSet(Threads) /\ NoThread \notin Threads
ASSUME ConfigsAssumption == NoConfig \notin Configs
Places == 1..Entries

VARIABLES
    threads,        \* of each configuration's config_entry_t
    working,
    table,          \* the IKE_SAs, in the order of the enumerator
    thread,
    calls

vars == <<threads, working, table, thread, calls>>

NoSa == [cfg |-> NoConfig, usable |-> FALSE, out |-> NoThread]
Idle == [pc |-> "idle", cfg |-> NoConfig, at |-> 0]

TypeOK ==
    /\ threads \in [Configs -> 0..Cardinality(Threads)] /\ working \in [Configs -> BOOLEAN]
    /\ table \in [Places -> [cfg : Configs \cup {NoConfig}, usable : BOOLEAN,
                             out : Threads \cup {NoThread}]]
    /\ thread \in [Threads -> [pc : {"idle", "wait", "woken", "search", "leave", "use"},
                               cfg : Configs \cup {NoConfig}, at : 0..(Entries + 1)]]
    /\ calls \in 0..MaxCalls

Waiting == {t \in Threads : thread[t].pc = "wait"}

---------------------------------------------------------------------------
\* Mutant: everyone may look for an IKE_SA.
Unguarded(t, c) ==
    /\ working' = [working EXCEPT ![c] = TRUE]
    /\ thread' = [thread EXCEPT ![t] = [pc |-> "search", cfg |-> c, at |-> 1]]

\* waits until nobody works on the configuration
Guarded(t, c) ==
    IF working[c]
    THEN /\ thread' = [thread EXCEPT ![t] = [pc |-> "wait", cfg |-> c, at |-> 0]]
         /\ UNCHANGED working
    ELSE /\ working' = [working EXCEPT ![c] = TRUE]
         /\ thread' = [thread EXCEPT ![t] = [pc |-> "search", cfg |-> c, at |-> 1]]

Call(t, c) ==
    /\ thread[t].pc = "idle" /\ calls < MaxCalls
    /\ calls' = calls + 1
    /\ threads' = [threads EXCEPT ![c] = @ + 1]
    /\ Guarded(t, c)
    /\ UNCHANGED table

Wake(t) ==
    /\ thread[t].pc = "woken"
    /\ Guarded(t, thread[t].cfg)
    /\ UNCHANGED <<threads, table, calls>>

\* The enumerator waits for every entry in turn; the first usable one of the
\* configuration is checked out.
Search(t) ==
    LET i == thread[t].at
        found == table[i].usable /\ table[i].cfg = thread[t].cfg
    IN /\ thread[t].pc = "search" /\ i <= Entries
       /\ table[i].out = NoThread
       /\ table' = IF found THEN [table EXCEPT ![i].out = t] ELSE table
       /\ thread' = IF found THEN [thread EXCEPT ![t].pc = "leave"]
                    ELSE [thread EXCEPT ![t].at = i + 1]
       /\ UNCHANGED <<threads, working, calls>>

\* a new IKE_SA gets any place in the table, if an SPI can be allocated
Create(t) ==
    /\ thread[t].pc = "search" /\ thread[t].at > Entries
    /\ \/ \E i \in Places :
             /\ table[i] = NoSa
             /\ table' = [table EXCEPT ![i] =
                             [cfg |-> thread[t].cfg, usable |-> TRUE, out |-> t]]
             /\ thread' = [thread EXCEPT ![t].pc = "leave", ![t].at = i]
       \/ /\ thread' = [thread EXCEPT ![t].pc = "leave", ![t].at = 0]
          /\ UNCHANGED table
    /\ UNCHANGED <<threads, working, calls>>

\* signal() wakes one of the waiting threads, if there are any.
Signal(th) ==
    IF Waiting = {} THEN {th} ELSE {[th EXCEPT ![w].pc = "woken"] : w \in Waiting}

Unuse(c) == [threads EXCEPT ![c] = @ - 1]

\* Mutant: nobody is woken if no other thread has the configuration.
LeaveQuietly(t) ==
    LET c == thread[t].cfg
        th == [thread EXCEPT ![t] =
                  IF thread[t].at = 0 THEN Idle ELSE [@ EXCEPT !.pc = "use"]]
    IN /\ thread[t].pc = "leave"
       /\ threads' = Unuse(c)
       /\ working' = [working EXCEPT ![c] = FALSE]
       /\ thread' \in IF threads[c] > 1 THEN Signal(th) ELSE {th}
       /\ UNCHANGED <<table, calls>>

\* The config_entry_t is freed with its last thread.
Leave(t) ==
    LET c == thread[t].cfg
    IN /\ thread[t].pc = "leave"
       /\ threads' = Unuse(c)
       /\ working' = [working EXCEPT ![c] = FALSE]
       /\ thread' \in Signal([thread EXCEPT ![t] =
                                 IF thread[t].at = 0 THEN Idle ELSE [@ EXCEPT !.pc = "use"]])
       /\ UNCHANGED <<table, calls>>

\* The caller checks the IKE_SA in, maybe to be deleted, or destroys it.
Checkin(t) ==
    LET i == thread[t].at
    IN /\ thread[t].pc = "use"
       /\ \/ table' = [table EXCEPT ![i].out = NoThread]
          \/ table' = [table EXCEPT ![i].out = NoThread, ![i].usable = FALSE]
          \/ table' = [table EXCEPT ![i] = NoSa]
       /\ thread' = [thread EXCEPT ![t] = Idle]
       /\ UNCHANGED <<threads, working, calls>>

\* the deletion of an IKE_SA completes
Deleted(i) ==
    /\ table[i].cfg # NoConfig /\ ~table[i].usable /\ table[i].out = NoThread
    /\ table' = [table EXCEPT ![i] = NoSa]
    /\ UNCHANGED <<threads, working, thread, calls>>

Init ==
    /\ threads = [c \in Configs |-> 0] /\ working = [c \in Configs |-> FALSE]
    /\ table = [i \in Places |-> NoSa]
    /\ thread = [t \in Threads |-> Idle] /\ calls = 0

Proceed(t) == Wake(t) \/ Search(t) \/ Create(t) \/ Leave(t) \/ Checkin(t)

Next ==
    \/ \E t \in Threads : Proceed(t) \/ \E c \in Configs : Call(t, c)
    \/ \E i \in Places : Deleted(i)

\* Threads run, and those that use an IKE_SA check it in.
Spec == Init /\ [][Next]_vars /\ \A t \in Threads : WF_vars(Proceed(t))

---------------------------------------------------------------------------
(* Properties                                                               *)

\* Concurrent initiations share an IKE_SA: no configuration has two usable ones.
OneSaPerConfig ==
    \A i, j \in Places : table[i].usable /\ table[j].usable /\ table[i].cfg = table[j].cfg => i = j

\* The config_entry_t that a thread waits for or works on is not freed.
EntryKept == \A t \in Threads : thread[t].pc \in {"wait", "woken", "search", "leave"} =>
                 threads[thread[t].cfg] > 0

\* Though signal() may wake a thread whose configuration is still worked on, while
\* one that waits for the configuration just left sleeps on, every checkout gets its
\* turn and ends: the thread that works on the other one signals, too.
CheckoutEnds == \A t \in Threads : thread[t].pc = "wait" ~> thread[t].pc = "idle"

\* checkout_by_config() makes one IKE_SA for a configuration however many threads
\* ask for it, and the entry they wait at stays as long as one of them needs it.
CheckoutSound == TypeOK /\ EntryKept /\ OneSaPerConfig
====
