---- MODULE HalfOpen ----
(***************************************************************************)
(* Initial messages at a responder: the receiver thread that drops them       *)
(* while too many IKE_SAs are half open (libcharon/network/receiver.c), the   *)
(* jobs that count and process them (processing/jobs/process_message_job.c,   *)
(* delete_ike_sa_job.c), and the part of the IKE_SA manager that recognises   *)
(* retransmits by their hash and counts half-open IKE_SAs                    *)
(* (sa/ike_sa_manager.c).  Each table has locks of its own, so the worker     *)
(* threads interleave between its uses; how they wake each other is the       *)
(* subject of IkeSaManager, that of cookies of Cookies.                      *)
(***************************************************************************)
EXTENDS Integers, FiniteSets

CONSTANTS
    Threads, Ips,
    Inits, Source,          \* initial messages, and the address each is sent from
    Spis,                   \* SPIs that the responder allocates
    NoThread, NoSpi, NoIp, NoInit,
    block_threshold, init_limit_half_open, ikesa_limit,     \* 0 for no limit
    MaxMoves,               \* bound: changes of a peer's address while half open
    MaxJobs                 \* bound: jobs in the queue for one message

ASSUME SourceAssumption == Source \in [Inits -> Ips]
ASSUME SetsAssumption ==
    /\ IsFiniteSet(Threads) /\ IsFiniteSet(Inits) /\ IsFiniteSet(Spis)
    /\ NoThread \notin Threads /\ NoSpi \notin Spis /\ NoIp \notin Ips /\ NoInit \notin Inits
ASSUME LimitsAssumption ==
    {block_threshold, init_limit_half_open, ikesa_limit, MaxJobs, MaxMoves} \subseteq Nat

VARIABLES
    queue,          \* number of queued jobs with each initial message
    half_open,      \* count_responder of each address
    total,          \* half_open_count_responder
    init_hashes,    \* our SPI for each initial message that was seen
    entries,        \* ike_sa_table, by our SPI
    thread,         \* what each worker thread is doing
    moves           \* history: how often a peer's address changed while half open

vars == <<queue, half_open, total, init_hashes, entries, thread, moves>>

NoEntry == [state |-> "none", half |-> FALSE, other |-> NoIp, init |-> NoInit,
            out |-> NoThread, processing |-> FALSE, driveout |-> FALSE]
Idle == [pc |-> "idle", job |-> "none", init |-> NoInit, spi |-> NoSpi, owed |-> NoIp]
Pcs == {"idle", "limit", "put", "unhash", "untrack", "duplicate", "lookup", "wait", "use",
        "move", "drive", "uncount", "forget"}

TypeOK ==
    /\ queue \in [Inits -> 0..MaxJobs]
    /\ half_open \in [Ips -> Nat] /\ total \in Nat
    /\ init_hashes \in [Inits -> Spis \cup {NoSpi}]
    /\ entries \in [Spis -> [state : {"none", "created", "connecting", "established"},
                             half : BOOLEAN, other : Ips \cup {NoIp}, init : Inits \cup {NoInit},
                             out : Threads \cup {NoThread}, processing : BOOLEAN,
                             driveout : BOOLEAN]]
    /\ thread \in [Threads -> [pc : Pcs, job : {"none", "init", "message", "timeout"},
                               init : Inits \cup {NoInit}, spi : Spis \cup {NoSpi},
                               owed : Ips \cup {NoIp}]]
    /\ moves \in 0..MaxMoves

Registered == {s \in Spis : entries[s].state # "none"}
At(t, pc) == thread[t].pc = pc
Goto(t, pc) == thread' = [thread EXCEPT ![t].pc = pc]
Done(t) == thread' = [thread EXCEPT ![t] = Idle]

---------------------------------------------------------------------------
(* The tables of the manager                                                *)

put_half_open(ip) ==
    /\ half_open' = [half_open EXCEPT ![ip] = @ + 1]
    /\ total' = total + 1

remove_half_open(ip) ==
    /\ half_open' = [half_open EXCEPT ![ip] = @ - 1]
    /\ total' = total - 1

Counted == UNCHANGED <<half_open, total>>

remove_init_hash(m) == init_hashes' = [init_hashes EXCEPT ![m] = NoSpi]

---------------------------------------------------------------------------
(* The receiver thread                                                      *)

\* Mutant: one more is let in.
DropLate(m) ==
    \/ block_threshold > 0 /\ half_open[Source[m]] > block_threshold
    \/ init_limit_half_open > 0 /\ total > init_limit_half_open

drop_ike_sa_init(m) ==
    \/ block_threshold > 0 /\ half_open[Source[m]] >= block_threshold
    \/ init_limit_half_open > 0 /\ total >= init_limit_half_open

\* The message is counted as half-open IKE_SA when its job is created.  There is one
\* receiver, so the counts it has read rise meanwhile only as an address changes (moves).
Receive(m) ==
    /\ queue[m] < MaxJobs
    /\ ~drop_ike_sa_init(m)
    /\ put_half_open(Source[m])
    /\ queue' = [queue EXCEPT ![m] = @ + 1]
    /\ UNCHANGED <<init_hashes, entries, thread, moves>>

---------------------------------------------------------------------------
(* checkout_by_message() of an initial message                              *)

\* random SPIs are never used again
Fresh(s) ==
    /\ s \notin Registered
    /\ \A m \in Inits : init_hashes[m] # s
    /\ \A t \in Threads : thread[t].spi # s

\* Mutant: the hash is looked up but not stored.
CheckInitHash(t, m) ==
    LET holding(pc, s) == thread' = [thread EXCEPT ![t] =
            [pc |-> pc, job |-> "init", init |-> m, spi |-> s, owed |-> Source[m]]]
    IN IF init_hashes[m] # NoSpi
       THEN holding("duplicate", init_hashes[m]) /\ UNCHANGED init_hashes
       ELSE \/ \E s \in Spis : Fresh(s) /\ holding("limit", s) /\ UNCHANGED init_hashes
            \/ holding("untrack", NoSpi) /\ UNCHANGED init_hashes

\* The hash is stored with a new SPI unless it is known, or no SPI is available.
check_and_put_init_hash(t, m) ==
    LET holding(pc, s) == thread' = [thread EXCEPT ![t] =
            [pc |-> pc, job |-> "init", init |-> m, spi |-> s, owed |-> Source[m]]]
    IN IF init_hashes[m] # NoSpi
       THEN holding("duplicate", init_hashes[m]) /\ UNCHANGED init_hashes
       ELSE \/ \E s \in Spis : /\ Fresh(s) /\ holding("limit", s)
                               /\ init_hashes' = [init_hashes EXCEPT ![m] = s]
            \/ holding("untrack", NoSpi) /\ UNCHANGED init_hashes

ProcessInit(t, m) ==
    /\ At(t, "idle") /\ queue[m] > 0
    /\ queue' = [queue EXCEPT ![m] = @ - 1]
    /\ check_and_put_init_hash(t, m)
    /\ Counted /\ UNCHANGED <<entries, moves>>

CheckLimit(t) ==
    /\ At(t, "limit")
    /\ Goto(t, IF ikesa_limit = 0 \/ Cardinality(Registered) < ikesa_limit
               THEN "put" ELSE "unhash")
    /\ Counted /\ UNCHANGED <<queue, init_hashes, entries, moves>>

\* The new entry takes over the count of the message.
PutEntry(t) ==
    LET s == thread[t].spi
    IN /\ At(t, "put")
       /\ entries' = [entries EXCEPT ![s] =
             [state |-> "created", half |-> TRUE, other |-> thread[t].owed,
              init |-> thread[t].init, out |-> t, processing |-> TRUE, driveout |-> FALSE]]
       /\ thread' = [thread EXCEPT ![t].pc = "use", ![t].owed = NoIp]
       /\ Counted /\ UNCHANGED <<queue, init_hashes, moves>>

Unhash(t) ==
    /\ At(t, "unhash")
    /\ remove_init_hash(thread[t].init)
    /\ Goto(t, "untrack")
    /\ Counted /\ UNCHANGED <<queue, entries, moves>>

Untrack(t) ==
    /\ At(t, "untrack")
    /\ remove_half_open(thread[t].owed)
    /\ Done(t)
    /\ UNCHANGED <<queue, init_hashes, entries, moves>>

\* The duplicate is uncounted before waiting for the checkout.
UntrackDuplicate(t) ==
    /\ At(t, "duplicate")
    /\ remove_half_open(thread[t].owed)
    /\ thread' = [thread EXCEPT ![t].pc = "lookup", ![t].owed = NoIp]
    /\ UNCHANGED <<queue, init_hashes, entries, moves>>

---------------------------------------------------------------------------
(* Checkout and checkin of entries                                          *)

\* a checkin holds the segment of the entry
Locked(s) == \E t \in Threads : At(t, "move") /\ thread[t].spi = s

\* a later message of the peer, or the timeout of half-open IKE_SAs
StartJob(t, job, s) ==
    /\ At(t, "idle") /\ s \in Registered
    /\ job \in {"message", "timeout"}
    /\ thread' = [thread EXCEPT ![t] = [Idle EXCEPT !.pc = "lookup", !.job = job, !.spi = s]]
    /\ Counted /\ UNCHANGED <<queue, init_hashes, entries, moves>>

Take(t, s) ==
    /\ entries' = [entries EXCEPT ![s].out = t, ![s].processing = thread[t].job = "init"]
    /\ Goto(t, "use")

Lookup(t) ==
    LET s == thread[t].spi
        ignored == \/ s \notin Registered \/ entries[s].driveout
                   \/ thread[t].job = "init" /\ entries[s].processing
    IN /\ At(t, "lookup") /\ ~Locked(s)
       /\ \/ ignored /\ Done(t) /\ UNCHANGED entries
          \/ ~ignored /\ entries[s].out = NoThread /\ Take(t, s)
          \/ ~ignored /\ entries[s].out # NoThread /\ Goto(t, "wait") /\ UNCHANGED entries
       /\ Counted /\ UNCHANGED <<queue, init_hashes, moves>>

\* wait_for_entry() returns
Turn(t) ==
    LET s == thread[t].spi
    IN /\ At(t, "wait") /\ ~Locked(s)
       /\ \/ entries[s].driveout /\ Done(t) /\ UNCHANGED entries
          \/ ~entries[s].driveout /\ entries[s].out = NoThread /\ Take(t, s)
       /\ Counted /\ UNCHANGED <<queue, init_hashes, moves>>

\* Mutant: the timeout leaves the IKE_SA connecting.
OutcomesLate(job, state) ==
    CASE state = "created" -> {"connecting", "destroy"}
      [] state = "connecting" /\ job = "message" -> {"connecting", "established", "destroy"}
      [] state = "established" /\ job = "message" -> {"established", "destroy"}
      [] OTHER -> {state}

\* what processing a message, or execute() of the timeout job, makes of the IKE_SA
Outcomes(job, state) ==
    CASE state = "created" -> {"connecting", "destroy"}
      [] state = "connecting" /\ job = "message" -> {"connecting", "established", "destroy"}
      [] state = "connecting" /\ job = "timeout" -> {"destroy"}
      [] state = "established" /\ job = "message" -> {"established", "destroy"}
      [] OTHER -> {state}

\* checkin(): not half open anymore, or as before
Checkin(t, state) ==
    LET s == thread[t].spi
        closed == entries[s].half /\ state # "connecting"
    IN /\ entries' = [entries EXCEPT ![s].state = state, ![s].out = NoThread,
                                     ![s].processing = FALSE, ![s].half = @ /\ ~closed]
       /\ IF closed THEN remove_half_open(entries[s].other) ELSE Counted
       /\ Done(t)

\* checkin() of a half-open IKE_SA whose peer's address is another one
CheckinMoved(t, ip) ==
    LET s == thread[t].spi
    IN /\ entries[s].half /\ ip # entries[s].other
       /\ remove_half_open(entries[s].other)
       /\ entries' = [entries EXCEPT ![s].state = "connecting", ![s].other = ip,
                                     ![s].half = FALSE]
       /\ thread' = [thread EXCEPT ![t].pc = "move", ![t].owed = ip]

PutMoved(t) ==
    LET s == thread[t].spi
    IN /\ At(t, "move")
       /\ put_half_open(thread[t].owed)
       /\ entries' = [entries EXCEPT ![s].half = TRUE, ![s].out = NoThread,
                                     ![s].processing = FALSE]
       /\ Done(t)
       /\ UNCHANGED <<queue, init_hashes, moves>>

\* checkin_and_destroy(): nobody gets the entry any more
Driveout(t) ==
    /\ entries' = [entries EXCEPT ![thread[t].spi].driveout = TRUE]
    /\ Goto(t, "drive") /\ Counted

Finish(t) ==
    /\ At(t, "use")
    /\ \E state \in Outcomes(thread[t].job, entries[thread[t].spi].state) :
          IF state = "destroy" THEN Driveout(t)
          ELSE \/ Checkin(t, state)
               \/ /\ moves < MaxMoves /\ thread[t].job = "message" /\ state = "connecting"
                  /\ \E ip \in Ips : CheckinMoved(t, ip)
    /\ moves' = moves + (IF thread'[t].pc = "move" THEN 1 ELSE 0)
    /\ UNCHANGED <<queue, init_hashes>>

Waiting(s) == \E t \in Threads : At(t, "wait") /\ thread[t].spi = s

RemoveEntry(t) ==
    LET s == thread[t].spi
    IN /\ At(t, "drive") /\ ~Waiting(s)
       /\ entries' = [entries EXCEPT ![s] = NoEntry]
       /\ thread' = [thread EXCEPT ![t].pc = "uncount", ![t].init = entries[s].init,
                        ![t].owed = IF entries[s].half THEN entries[s].other ELSE NoIp]
       /\ Counted /\ UNCHANGED <<queue, init_hashes, moves>>

Uncount(t) ==
    LET ip == thread[t].owed
    IN /\ At(t, "uncount")
       /\ IF ip # NoIp THEN remove_half_open(ip) ELSE Counted
       /\ thread' = [thread EXCEPT ![t].pc = "forget", ![t].owed = NoIp]
       /\ UNCHANGED <<queue, init_hashes, entries, moves>>

Forget(t) ==
    /\ At(t, "forget")
    /\ remove_init_hash(thread[t].init)
    /\ Done(t)
    /\ Counted /\ UNCHANGED <<queue, entries, moves>>

---------------------------------------------------------------------------
Init ==
    /\ queue = [m \in Inits |-> 0]
    /\ half_open = [ip \in Ips |-> 0] /\ total = 0
    /\ init_hashes = [m \in Inits |-> NoSpi]
    /\ entries = [s \in Spis |-> NoEntry]
    /\ thread = [t \in Threads |-> Idle]
    /\ moves = 0

\* a thread goes on with its job
Proceed(t) ==
    \/ CheckLimit(t) \/ PutEntry(t) \/ Unhash(t) \/ Untrack(t) \/ UntrackDuplicate(t)
    \/ Lookup(t) \/ Turn(t) \/ Finish(t) \/ PutMoved(t)
    \/ RemoveEntry(t) \/ Uncount(t) \/ Forget(t)

Next ==
    \/ \E m \in Inits : Receive(m)
    \/ \E t \in Threads :
          \/ Proceed(t)
          \/ \E m \in Inits : ProcessInit(t, m)
          \/ \E s \in Spis, job \in {"message", "timeout"} : StartJob(t, job, s)

Spec == Init /\ [][Next]_vars

\* Threads run, and a waiting one is woken again and again until it has its turn
\* (IkeSaManager); the timeout of an IKE_SA finds an idle thread (Dispatch).
Fairness ==
    /\ \A t \in Threads : SF_vars(Proceed(t))
    /\ \A s \in Spis : SF_vars(\E t \in Threads : StartJob(t, "timeout", s))

FairSpec == Spec /\ Fairness

---------------------------------------------------------------------------
(* Properties                                                               *)

\* The count of an address is that of the queued messages from it, of those a worker
\* is busy with, and of its half-open IKE_SAs: however messages, duplicates, failures,
\* timeouts and changes of the address interleave, none is counted twice or forgotten.
CountExact ==
    \A ip \in Ips :
        half_open[ip] =
            Cardinality({j \in Inits \X (1..MaxJobs) : Source[j[1]] = ip /\ j[2] <= queue[j[1]]})
            + Cardinality({t \in Threads : thread[t].owed = ip /\ ~At(t, "move")})
            + Cardinality({s \in Registered : entries[s].half /\ entries[s].other = ip})

\* A stored hash belongs to the entry of its SPI, or to the one thread that is about
\* to create or has just removed it; an entry is found by the hash of its message.
\* So no message gets two IKE_SAs, and none is taken for a retransmit forever.
HashesExact ==
    /\ \A s \in Registered : init_hashes[entries[s].init] = s
    /\ \A m \in Inits : init_hashes[m] # NoSpi =>
          \/ entries[init_hashes[m]].init = m
          \/ \E t \in Threads : /\ thread[t].spi = init_hashes[m] /\ thread[t].init = m
                                /\ thread[t].pc \in {"limit", "put", "unhash", "uncount", "forget"}

\* At no time are more IKE_SAs half open, unprocessed messages included, than the
\* limits for one address and for all permit, though the receiver reads counts that
\* workers are changing; each change of an address exceeds them by one at most, as
\* checkin() counts the IKE_SA for the new address without looking at the limits.
HalfOpenLimited ==
    /\ block_threshold > 0 => \A ip \in Ips : half_open[ip] <= block_threshold + moves
    /\ init_limit_half_open > 0 => total <= init_limit_half_open + moves

\* "Maximum number of IKE_SAs that can be established at the same time"
SaLimit == ikesa_limit > 0 => Cardinality(Registered) <= ikesa_limit

\* An IKE_SA does not stay half open: it is established or destroyed.
HalfOpenEnds == \A s \in Spis : entries[s].half ~> ~entries[s].half

\* What drop_ike_sa_init() and checkout_by_message() decide by agrees with the
\* IKE_SAs and messages there are, at every step of every thread.
BooksExact == TypeOK /\ CountExact /\ HashesExact
====
