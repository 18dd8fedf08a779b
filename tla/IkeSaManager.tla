---- MODULE IkeSaManager ----
(***************************************************************************)
(* The IKE_SA manager (libcharon/sa/ike_sa_manager.c): threads check IKE_SAs *)
(* out of a hash table, wait on the condition variable of an entry that is  *)
(* in use, check them in or destroy them, while the main thread may flush   *)
(* the whole table.  What a thread does from locking a segment until it     *)
(* unlocks it or waits is one step, unless it visits several entries.  Each *)
(* segment of the table has one row.                                        *)
(***************************************************************************)
EXTENDS Integers, Sequences, FiniteSets, SequencesExt

CONSTANTS
    Threads,        \* threads of the processor
    Flusher,        \* the main thread, which calls flush()
    SAs,            \* the IKE_SAs that may be created
    NoThread, NoSA,
    SegmentCount,   \* charon.ikesa_table_segments
    Row,            \* the segment an IKE_SA's SPI hashes to
    Ops,            \* operations of each thread, besides those always there
    QuietFlush      \* flush() meets no thread that destroys or adds an IKE_SA

Segments == 1..SegmentCount
AllOps == {"rekey", "destroy", "unique", "enumerate", "flush"}

ASSUME ThreadsAssumption ==
    /\ Flusher \notin Threads /\ NoThread \notin Threads \cup {Flusher}
    /\ IsFiniteSet(Threads)
ASSUME SAsAssumption == NoSA \notin SAs /\ IsFiniteSet(SAs)
ASSUME SegmentsAssumption == SegmentCount \in Nat \ {0} /\ Row \in [SAs -> Segments]
ASSUME OpsAssumption ==
    Ops \in [Threads \cup {Flusher} -> SUBSET AllOps] /\ QuietFlush \in BOOLEAN

VARIABLES
    table,          \* ike_sa_table: the entries of each segment's row
    count,          \* total_sa_count
    entry,          \* the entry of an IKE_SA
    life,           \* "none", "new" (not in the table), "listed" or "destroyed"
    connected,      \* IKE_SAs in the connected_peers_table
    shutdown,       \* rng destroyed, new_entries_driveout_threads set
    mutex,          \* the thread that holds a segment's mutex between steps
    call,           \* the call of the manager a thread is in
    held,           \* IKE_SAs a thread got from the manager
    unique          \* the IKE_SA in check_uniqueness(), duplicates to visit

vars == <<table, count, entry, life, connected, shutdown, mutex, call, held, unique>>

All == Threads \cup {Flusher}
NoCall == [op |-> "none", at |-> NoSA, goal |-> NoSA, segment |-> 0, state |-> "run"]
NoEntry == [checked_out |-> NoThread, waiting_threads |-> 0, driveout_threads |-> FALSE]
NotUnique == [sa |-> NoSA, todo |-> {}]

TypeOK ==
    /\ table \in [Segments -> Seq(SAs)]
    /\ count \in 0..Cardinality(SAs)
    /\ entry \in [SAs -> [checked_out : Threads \cup {NoThread},
                          waiting_threads : 0..Cardinality(Threads),
                          driveout_threads : BOOLEAN]]
    /\ life \in [SAs -> {"none", "new", "listed", "destroyed"}]
    /\ connected \subseteq SAs
    /\ shutdown \in [rng_gone : BOOLEAN, new_entries_driveout_threads : BOOLEAN]
    /\ mutex \in [Segments -> All \cup {NoThread}]
    /\ call \in [All -> [op : {"none", "checkout", "enumerate", "destroy", "flush"},
                         at : SAs \cup {NoSA}, goal : SAs \cup {NoSA},
                         segment : 0..SegmentCount + 1,
                         state : {"run", "asleep", "woken"}]]
    /\ held \in [Threads -> SUBSET SAs]
    /\ unique \in [Threads -> [sa : SAs \cup {NoSA}, todo : SUBSET SAs]]

Init ==
    /\ table = [g \in Segments |-> <<>>]
    /\ count = 0
    /\ entry = [s \in SAs |-> NoEntry]
    /\ life = [s \in SAs |-> "none"]
    /\ connected = {}
    /\ shutdown = [rng_gone |-> FALSE, new_entries_driveout_threads |-> FALSE]
    /\ mutex = [g \in Segments |-> NoThread]
    /\ call = [t \in All |-> NoCall]
    /\ held = [t \in Threads |-> {}]
    /\ unique = [t \in Threads |-> NotUnique]

-----------------------------------------------------------------------------
(* Mutexes and condition variables.  A signal wakes at least one thread, a  *)
(* broadcast all; a woken thread goes on when it gets the mutex again.      *)

Free(s) == mutex[Row[s]] = NoThread
Idle(t) == call[t].op = "none"
Sleepers(s) == {t \in All : call[t].state = "asleep" /\ call[t].at = s}

\* The threads a signal to the condvar of s may wake.
Signal(s) == {W \in SUBSET Sleepers(s) : W = {} <=> Sleepers(s) = {}}

\* Mutant: nobody is woken.
BroadcastNobody(s) == {}

\* The threads a broadcast to the condvar of s wakes
Broadcast(s) == Sleepers(s)

\* The calls once t is in call c and the threads W are awake.
Calls(t, c, W) ==
    [u \in All |-> IF u = t THEN c
                   ELSE IF u \in W THEN [call[u] EXCEPT !.state = "woken"] ELSE call[u]]

Asleep(c, s) == [c EXCEPT !.at = s, !.segment = Row[s], !.state = "asleep"]

\* The condition a thread waits for in wait_for_entry()
Busy(s) == entry[s].checked_out # NoThread /\ ~entry[s].driveout_threads

\* Mutant: the condition is checked before waiting only.
NeverAgain(s) == FALSE

\* It is checked again after waiting.
BusyAgain(s) == Busy(s)

\* The entries when a thread no longer waits for s
NotWaiting(s) == [entry EXCEPT ![s].waiting_threads = @ - 1]

-----------------------------------------------------------------------------
(* The table                                                                *)

Position(row, s) ==
    IF s \in Range(row) THEN CHOOSE i \in DOMAIN row : row[i] = s ELSE 0

\* put_entry(): at the front of the row, marked during shutdown
PutEntry(s, t) ==
    /\ table' = [table EXCEPT ![Row[s]] = <<s>> \o @]
    /\ count' = count + 1
    /\ life' = [life EXCEPT ![s] = "listed"]
    /\ entry' = [entry EXCEPT ![s] = [NoEntry EXCEPT !.checked_out = t,
                     !.driveout_threads = shutdown.new_entries_driveout_threads]]

\* The entry, out of the table, is freed, and so is its record of the peers.
DestroyEntry(s) ==
    /\ life' = [life EXCEPT ![s] = "destroyed"]
    /\ connected' = connected \ {s}

\* remove_entry(): of an entry that is found in its row
RemoveEntry(s) ==
    /\ table' = [table EXCEPT ![Row[s]] = RemoveAt(@, Position(@, s))]
    /\ count' = IF s \in Range(table[Row[s]]) THEN count - 1 ELSE count
    /\ DestroyEntry(s)

\* remove_entry_at() with prev = NULL: the row starts with what follows s.
RemoveEntryAt(s) ==
    /\ table' = [table EXCEPT ![Row[s]] = SubSeq(@, Position(@, s) + 1, Len(@))]
    /\ count' = count - 1
    /\ DestroyEntry(s)

\* The entry after s in its row
Following(s) ==
    LET row == table[Row[s]] i == Position(row, s) IN
    IF i < Len(row) THEN row[i + 1] ELSE NoSA

-----------------------------------------------------------------------------
(* Creating                                                                 *)

\* create_new(), by a thread that holds nothing or, when an IKE_SA is rekeyed
\* or reestablished, the IKE_SA to replace
CreateNew(t, s) ==
    /\ Idle(t) /\ unique[t] = NotUnique
    /\ ~shutdown.rng_gone
    /\ life[s] = "none"
    /\ \/ held[t] = {}
       \/ /\ "rekey" \in Ops[t]
          /\ \E x \in SAs : held[t] = {x} /\ life[x] = "listed"
    /\ life' = [life EXCEPT ![s] = "new"]
    /\ held' = [held EXCEPT ![t] = @ \cup {s}]
    /\ UNCHANGED <<table, count, entry, connected, shutdown, mutex, call, unique>>

CheckoutNew(t, s) ==
    /\ Idle(t) /\ s \in held[t] /\ life[s] = "new" /\ Free(s)
    /\ PutEntry(s, t)
    /\ UNCHANGED <<connected, shutdown, mutex, call, held, unique>>

-----------------------------------------------------------------------------
(* Checking out                                                             *)

Take(t, s, entries) ==
    /\ entry' = [entries EXCEPT ![s].checked_out = t]
    /\ held' = [held EXCEPT ![t] = @ \cup {s}]

\* checkout() and checkout_by_message(), also of duplicates in check_uniqueness()
Checkout(t, s) ==
    /\ Idle(t) /\ Free(s)
    /\ held[t] = {} \/ (s \in unique[t].todo /\ held[t] = {unique[t].sa})
    /\ unique' = [unique EXCEPT ![t].todo = @ \ {s}]
    /\ \/ /\ s \in unique[t].todo
          /\ life[s] # "listed" \/ entry[s].driveout_threads
          /\ UNCHANGED <<entry, call, held>>
       \/ /\ life[s] = "listed" /\ Busy(s)
          /\ entry' = [entry EXCEPT ![s].waiting_threads = @ + 1]
          /\ call' = [call EXCEPT ![t] = Asleep([NoCall EXCEPT !.op = "checkout"], s)]
          /\ UNCHANGED held
       \/ /\ life[s] = "listed" /\ ~Busy(s) /\ ~entry[s].driveout_threads
          /\ Take(t, s, entry)
          /\ UNCHANGED call
    /\ UNCHANGED <<table, count, life, connected, shutdown, mutex>>

\* The thread wakes up in wait_for_entry() and holds the segment again.
Waking(t, op) ==
    /\ call[t].op = op /\ call[t].state = "woken"
    /\ Free(call[t].at)
    /\ life[call[t].at] # "destroyed"

WakeCheckout(t) ==
    LET s == call[t].at IN
    /\ Waking(t, "checkout")
    /\ \/ /\ BusyAgain(s)
          /\ call' = [call EXCEPT ![t].state = "asleep"]
          /\ UNCHANGED <<entry, held>>
       \/ /\ entry[s].driveout_threads
          /\ entry' = NotWaiting(s)
          /\ \E W \in Signal(s) : call' = Calls(t, NoCall, W)
          /\ UNCHANGED held
       \/ /\ ~BusyAgain(s) /\ ~entry[s].driveout_threads
          /\ Take(t, s, NotWaiting(s))
          /\ call' = [call EXCEPT ![t] = NoCall]
    /\ UNCHANGED <<table, count, life, connected, shutdown, mutex, unique>>

\* checkout_by_id(), checkout_by_name() and checkout_by_config() look for an
\* entry, here goal, in the whole table and wait for every entry on the way.
Enumerate(t, goal) ==
    /\ "enumerate" \in Ops[t]
    /\ Idle(t) /\ held[t] = {}
    /\ call' = [call EXCEPT ![t] = [NoCall EXCEPT !.op = "enumerate", !.goal = goal,
                                                  !.segment = 1]]
    /\ UNCHANGED <<table, count, entry, life, connected, shutdown, mutex, held, unique>>

\* The entry the thread comes from is signalled; one at which it waits again is not.
Leaving(t, s) == IF call[t].at = s THEN {{}} ELSE Signal(call[t].at)

\* The thread, in segment g, visits entry s; entries is what it leaves.
Visit(t, s, g, entries) ==
    /\ s # NoSA
    /\ \/ /\ Busy(s)
          /\ entry' = [entries EXCEPT ![s].waiting_threads = @ + 1]
          /\ \E W \in Leaving(t, s) : call' = Calls(t, Asleep(call[t], s), W)
          /\ mutex' = [mutex EXCEPT ![g] = NoThread]
          /\ UNCHANGED held
       \/ /\ ~Busy(s) /\ (s # call[t].goal \/ entry[s].driveout_threads)
          /\ \E W \in Signal(call[t].at) :
               call' = Calls(t, [call[t] EXCEPT !.at = s, !.state = "run"], W)
          /\ mutex' = [mutex EXCEPT ![g] = t]
          /\ entry' = entries
          /\ UNCHANGED held
       \/ /\ ~Busy(s) /\ s = call[t].goal /\ ~entry[s].driveout_threads
          /\ \E W \in Signal(call[t].at) : call' = Calls(t, NoCall, W)
          /\ Take(t, s, entries)
          /\ mutex' = [mutex EXCEPT ![g] = NoThread]

\* enumerate(): the first entry of a row, or the next one, whose predecessor is
\* signalled, and the next segment at the end of a row
EnumerateNext(t) ==
    LET g == call[t].segment
        s == IF call[t].at = NoSA
             THEN IF g \in Segments /\ table[g] # <<>> THEN table[g][1] ELSE NoSA
             ELSE Following(call[t].at)
    IN
    /\ call[t].op = "enumerate" /\ call[t].state = "run"
    /\ g \in Segments => mutex[g] = IF call[t].at = NoSA THEN NoThread ELSE t
    /\ \/ Visit(t, s, g, entry)
       \/ /\ s = NoSA /\ g \in Segments
          /\ \E W \in Signal(call[t].at) :
               call' = Calls(t, [call[t] EXCEPT !.at = NoSA, !.segment = g + 1], W)
          /\ mutex' = [mutex EXCEPT ![g] = NoThread]
          /\ UNCHANGED <<entry, held>>
       \/ /\ g \notin Segments
          /\ call' = [call EXCEPT ![t] = NoCall]
          /\ UNCHANGED <<entry, held, mutex>>
    /\ UNCHANGED <<table, count, life, connected, shutdown, unique>>

WakeEnumerate(t) ==
    LET s == call[t].at IN
    /\ Waking(t, "enumerate")
    /\ Visit(t, s, call[t].segment, NotWaiting(s))
    /\ UNCHANGED <<table, count, life, connected, shutdown, unique>>

-----------------------------------------------------------------------------
(* check_uniqueness() of an IKE_SA that is being established, or, for       *)
(* IKEv1, of one that is being checked in: the peer's other IKE_SAs are      *)
(* checked out, one by one, and destroyed or checked in.                     *)

CheckUniqueness(t, s) ==
    /\ "unique" \in Ops[t]
    /\ Idle(t) /\ held[t] = {s} /\ life[s] = "listed" /\ s \notin connected
    /\ unique[t] = NotUnique
    /\ unique' = [unique EXCEPT ![t] = [sa |-> s, todo |-> connected]]
    /\ UNCHANGED <<table, count, entry, life, connected, shutdown, mutex, call, held>>

\* The thread may return s: neither duplicates to visit nor held ones remain, and
\* an IKE_SA that replaces s was added before.
Done(t, s) ==
    /\ s = unique[t].sa => unique[t].todo = {} /\ held[t] = {s}
    /\ \A x \in held[t] \ {s} : life[x] # "new"

-----------------------------------------------------------------------------
(* Checking in                                                              *)

Return(t, s) ==
    /\ held' = [held EXCEPT ![t] = @ \ {s}]
    /\ unique' = [unique EXCEPT ![t] = IF s = @.sa THEN NotUnique ELSE @]

\* checkin(): of an entry, or of a new IKE_SA that becomes one; once it is
\* established its peers are recorded.
Checkin(t, s) ==
    /\ Idle(t) /\ s \in held[t] /\ Done(t, s) /\ Free(s)
    /\ Return(t, s)
    /\ \/ /\ life[s] = "listed"
          /\ entry' = [entry EXCEPT ![s].checked_out = NoThread]
          /\ \E W \in Signal(s) : call' = Calls(t, NoCall, W)
          /\ UNCHANGED <<table, count, life>>
       \/ /\ life[s] = "new"
          /\ PutEntry(s, NoThread)
          /\ UNCHANGED call
    /\ \/ UNCHANGED connected
       \/ "unique" \in Ops[t] /\ connected' = connected \cup {s}
    /\ UNCHANGED <<shutdown, mutex>>

\* Mutant: the destroyer does not care about waiting threads.
Deserted(s) == TRUE

\* No thread waits for the entry in wait_for_entry().
NobodyWaits(s) == entry[s].waiting_threads = 0

\* checkin_and_destroy() of an entry that waiting threads have to leave first
CheckinAndDestroy(t, s) ==
    /\ "destroy" \in Ops[t]
    /\ Idle(t) /\ s \in held[t] /\ Done(t, s) /\ Free(s)
    /\ \/ /\ life[s] = "listed" /\ entry[s].driveout_threads
          /\ entry' = [entry EXCEPT ![s].checked_out = NoThread]
          /\ call' = Calls(t, NoCall, Broadcast(s))
          /\ Return(t, s)
          /\ UNCHANGED <<table, count, life, connected>>
       \/ /\ life[s] = "listed" /\ ~entry[s].driveout_threads
          /\ ~NobodyWaits(s)
          /\ entry' = [entry EXCEPT ![s].driveout_threads = TRUE]
          /\ call' = Calls(t, Asleep([NoCall EXCEPT !.op = "destroy"], s), Broadcast(s))
          /\ UNCHANGED <<table, count, life, connected, held, unique>>
       \/ /\ life[s] = "listed" /\ ~entry[s].driveout_threads
          /\ NobodyWaits(s)
          /\ entry' = [entry EXCEPT ![s].driveout_threads = TRUE]
          /\ RemoveEntry(s)
          /\ Return(t, s)
          /\ UNCHANGED call
       \/ /\ life[s] = "new"
          /\ life' = [life EXCEPT ![s] = "destroyed"]
          /\ Return(t, s)
          /\ UNCHANGED <<table, count, entry, connected, call>>
    /\ UNCHANGED <<shutdown, mutex>>

WakeDestroy(t) ==
    LET s == call[t].at IN
    /\ Waking(t, "destroy")
    /\ \/ /\ ~NobodyWaits(s)
          /\ call' = Calls(t, Asleep(call[t], s), Broadcast(s))
          /\ UNCHANGED <<table, count, life, connected, held, unique>>
       \/ /\ NobodyWaits(s)
          /\ RemoveEntry(s)
          /\ Return(t, s)
          /\ call' = [call EXCEPT ![t] = NoCall]
    /\ UNCHANGED <<entry, shutdown, mutex>>

-----------------------------------------------------------------------------
(* flush(), called by the main thread on shutdown while others still work   *)

FlushStart ==
    /\ "flush" \in Ops[Flusher]
    /\ ~shutdown.rng_gone /\ Idle(Flusher)
    /\ shutdown' = [shutdown EXCEPT !.rng_gone = TRUE]
    /\ UNCHANGED <<table, count, entry, life, connected, mutex, call, held, unique>>

Quiet == /\ \A t \in Threads : call[t].op # "destroy"
         /\ \A s \in SAs : life[s] # "new"

FlushMark ==
    /\ shutdown.rng_gone /\ ~shutdown.new_entries_driveout_threads
    /\ \A g \in Segments : mutex[g] = NoThread
    /\ QuietFlush => Quiet
    /\ mutex' = [g \in Segments |-> Flusher]
    /\ entry' = [s \in SAs |-> [entry[s] EXCEPT !.driveout_threads = @ \/ life[s] = "listed"]]
    /\ shutdown' = [shutdown EXCEPT !.new_entries_driveout_threads = TRUE]
    /\ call' = [call EXCEPT ![Flusher] = [NoCall EXCEPT !.op = "flush", !.segment = 1]]
    /\ UNCHANGED <<table, count, life, connected, held, unique>>

\* Nobody uses the entry or waits for it.
Left(s) == entry[s].waiting_threads = 0 /\ entry[s].checked_out = NoThread

\* The loop body for entry s, with the mutexes of all segments
FlushEntry(s) ==
    \/ /\ ~Left(s)
       /\ call' = Calls(Flusher, Asleep(call[Flusher], s), Broadcast(s))
       /\ mutex' = [mutex EXCEPT ![Row[s]] = NoThread]
       /\ UNCHANGED <<table, count, life, connected>>
    \/ /\ Left(s)
       /\ RemoveEntryAt(s)
       /\ call' = [call EXCEPT ![Flusher].at = NoSA, ![Flusher].state = "run"]
       /\ mutex' = [mutex EXCEPT ![Row[s]] = Flusher]

\* The first entry of a row; at the end of the table, again while there are any.
FlushNext ==
    LET g == call[Flusher].segment IN
    /\ call[Flusher].op = "flush" /\ call[Flusher].state = "run"
    /\ \/ /\ g \in Segments /\ table[g] # <<>>
          /\ FlushEntry(table[g][1])
       \/ /\ g \in Segments /\ table[g] = <<>>
          /\ call' = [call EXCEPT ![Flusher].segment = g + 1]
          /\ UNCHANGED <<table, count, life, connected, mutex>>
       \/ /\ g \notin Segments /\ count > 0
          /\ call' = [call EXCEPT ![Flusher].segment = 1]
          /\ UNCHANGED <<table, count, life, connected, mutex>>
       \/ /\ g \notin Segments /\ count = 0
          /\ call' = [call EXCEPT ![Flusher] = NoCall]
          /\ mutex' = [h \in Segments |-> NoThread]
          /\ UNCHANGED <<table, count, life, connected>>
    /\ UNCHANGED <<entry, shutdown, held, unique>>

WakeFlush ==
    /\ Waking(Flusher, "flush")
    /\ FlushEntry(call[Flusher].at)
    /\ UNCHANGED <<entry, shutdown, held, unique>>

-----------------------------------------------------------------------------

\* A condition variable may wake a thread without a signal.
Spurious(t) ==
    /\ call[t].state = "asleep" /\ life[call[t].at] # "destroyed"
    /\ call' = [call EXCEPT ![t].state = "woken"]
    /\ UNCHANGED <<table, count, entry, life, connected, shutdown, mutex, held, unique>>

\* What a thread does inside a call that waits or enumerates
Proceed(t) == WakeCheckout(t) \/ WakeEnumerate(t) \/ WakeDestroy(t) \/ EnumerateNext(t)

\* What a thread has to do to end its handler
Finish(t) ==
    \E s \in SAs : \/ Checkin(t, s)
                   \/ CheckinAndDestroy(t, s)
                   \/ s \in unique[t].todo /\ Checkout(t, s)

Flush == FlushMark \/ FlushNext \/ WakeFlush

Next ==
    \/ \E t \in Threads :
         \/ \E s \in SAs :
              \/ CreateNew(t, s) \/ CheckoutNew(t, s) \/ Checkout(t, s)
              \/ Enumerate(t, s) \/ CheckUniqueness(t, s)
              \/ Checkin(t, s) \/ CheckinAndDestroy(t, s)
         \/ Proceed(t)
    \/ FlushStart \/ Flush
    \/ \E t \in All : Spurious(t)

Spec == Init /\ [][Next]_vars

\* Mutexes are granted eventually, handlers run to their end and give back what
\* they hold, and the main thread goes on.
Fairness ==
    /\ \A t \in Threads : SF_vars(Proceed(t) \/ Finish(t))
    /\ SF_vars(Flush)

FairSpec == Spec /\ Fairness

-----------------------------------------------------------------------------
(* Properties                                                               *)

\* Nobody who is inside a call on an entry, asleep or awake, or holds an IKE_SA,
\* sees it destroyed: checkin_and_destroy() and flush() free an entry only when
\* no other thread uses or waits for it.
NoDangling ==
    /\ \A t \in All : call[t].at # NoSA => life[call[t].at] # "destroyed"
    /\ \A t \in Threads : \A s \in held[t] : life[s] # "destroyed"

\* The rows hold every listed entry once, and total_sa_count counts them; flush()
\* relies on it to know when it is done.
CountIsEntries ==
    /\ count = Cardinality({s \in SAs : life[s] = "listed"})
    /\ \A s \in SAs : life[s] = "listed" <=> s \in Range(table[Row[s]])
    /\ \A g \in Segments : IsInjective(table[g])

\* Signals are not lost: as long as a thread sleeps on an entry, another one is
\* awake there or holds it and will signal, though checkin() wakes only one.
NobodyForgotten ==
    \A s \in SAs : Sleepers(s) # {} =>
        \E t \in All : \/ call[t].at = s /\ call[t].state # "asleep"
                       \/ t \in Threads /\ s \in held[t]
                          /\ ~(call[t].state = "asleep" /\ call[t].at = s)

\* The manager grants IKE_SAs exclusively, as the handlers of TaskManager need.
Users(s) == {t \in Threads : s \in held[t]}
Owner(s) == IF Users(s) = {} THEN NoThread ELSE CHOOSE t \in Threads : t \in Users(s)
Ownership == INSTANCE SaOwnership WITH
    owner <- [s \in SAs |-> Owner(s)],
    life <- [s \in SAs |-> IF life[s] \in {"new", "listed"} THEN "live" ELSE life[s]]
ExclusiveUse == Ownership!Spec

\* An entry from which threads are driven out is destroyed in the end: whoever
\* waits there leaves, by the signals the leaving threads pass on.
DriveoutEnds ==
    \A s \in SAs : entry[s].driveout_threads ~> life[s] = "destroyed"

\* flush() comes to an end: all entries are gone.
FlushEnds == shutdown.rng_gone ~> (Idle(Flusher) /\ shutdown.new_entries_driveout_threads)

\* The table is sound between any two steps of the threads: nothing that one of
\* them points to or sleeps at is freed, total_sa_count is the number of entries,
\* and nobody sleeps at an entry that no one will signal.
EntriesSound == TypeOK /\ NoDangling /\ CountIsEntries /\ NobodyForgotten

\* checkin_and_destroy() and flush() drive the waiting threads out and return.
WaitingEnds == DriveoutEnds /\ FlushEnds
====
