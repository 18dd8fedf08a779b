--------------------------- MODULE ReceiverProofs ---------------------------
(***************************************************************************)
(* Theorems about what the receiver does with IKE_SA_INIT messages: about  *)
(* HalfOpen, for any number of threads, peers, messages and SPIs and all   *)
(* limits, and about Cookies, for all lifetimes, delays and times.         *)
(***************************************************************************)
EXTENDS HalfOpen, Cookies, FiniteSetTheorems, TLAPS

-----------------------------------------------------------------------------
(* HalfOpen: the inductive invariant.                                      *)

EntryRec == [state : {"none", "created", "connecting", "established"},
             half : BOOLEAN, other : Ips \cup {NoIp}, init : Inits \cup {NoInit},
             out : Threads \cup {NoThread}, processing : BOOLEAN, driveout : BOOLEAN]
ThreadRec == [pc : Pcs, job : {"none", "init", "message", "timeout"},
              init : Inits \cup {NoInit}, spi : Spis \cup {NoSpi}, owed : Ips \cup {NoIp}]

\* Who is responsible for a stored hash, and who has an IKE_SA checked out.
Holds(t) == thread[t].pc \in {"limit", "put", "unhash", "uncount", "forget"}
Uses(t) == thread[t].pc \in {"use", "move", "drive"}

\* What is counted for the addresses in S: queued messages, those a thread is busy
\* with, and half-open IKE_SAs; and what is about to be counted for a new address.
Queued(S) == {j \in Inits \X (1..MaxJobs) : Source[j[1]] \in S /\ j[2] <= queue[j[1]]}
Owing(S) == {t \in Threads : thread[t].owed \in S /\ thread[t].pc # "move"}
HalfOpens(S) == {s \in Spis : entries[s].half /\ entries[s].other \in S}
Moving(S) == {t \in Threads : thread[t].owed \in S /\ thread[t].pc = "move"}
Count(S) == Cardinality(Queued(S)) + Cardinality(Owing(S)) + Cardinality(HalfOpens(S))

Counts == (\A ip \in Ips : half_open[ip] = Count({ip})) /\ total = Count(Ips)

\* What the position of a thread says of its message, its SPI and its entry.
Owes(t) ==
    /\ thread[t].pc \in {"limit", "put", "unhash", "untrack", "duplicate", "move"} =>
          thread[t].owed \in Ips
    /\ thread[t].pc \in {"idle", "lookup", "wait", "use", "drive", "forget"} =>
          thread[t].owed = NoIp
Holding(t) ==
    Holds(t) => /\ thread[t].init \in Inits /\ thread[t].spi \in Spis
                /\ init_hashes[thread[t].init] = thread[t].spi
                /\ entries[thread[t].spi].state = "none"
Using(t) ==
    /\ thread[t].pc \in {"duplicate", "lookup"} => thread[t].spi \in Spis
    /\ thread[t].pc = "wait" =>
          thread[t].spi \in Spis /\ entries[thread[t].spi].state # "none"
    /\ Uses(t) => /\ thread[t].spi \in Spis /\ entries[thread[t].spi].state # "none"
                  /\ entries[thread[t].spi].out = t
    /\ thread[t].pc = "move" => /\ ~entries[thread[t].spi].half
                                /\ entries[thread[t].spi].other = thread[t].owed
ThreadsSound == \A t \in Threads : Owes(t) /\ Holding(t) /\ Using(t)

\* One thread is responsible for an SPI, or the entry that has it.
OneHolds ==
    \A t, u \in Threads : Holds(t) /\ Holds(u) /\ thread[t].spi = thread[u].spi => t = u
EntriesKnown ==
    \A s \in Spis : IF entries[s].state = "none" THEN entries[s] = NoEntry
                    ELSE /\ entries[s].other \in Ips /\ entries[s].init \in Inits
                         /\ init_hashes[entries[s].init] = s
HashesKnown ==
    \A m \in Inits : init_hashes[m] # NoSpi =>
        \/ entries[init_hashes[m]].state # "none" /\ entries[init_hashes[m]].init = m
        \/ \E t \in Threads : Holds(t) /\ thread[t].spi = init_hashes[m] /\ thread[t].init = m

\* The counts are within the limits even when the moved IKE_SAs are counted.
Within(S, n, limit) == limit > 0 => n + Cardinality(Moving(S)) <= limit + moves
LimitsKept ==
    /\ Cardinality(Moving(Ips)) <= moves
    /\ \A ip \in Ips : Within({ip}, half_open[ip], block_threshold)
    /\ Within(Ips, total, init_limit_half_open)

BooksInv ==
    TypeOK /\ ThreadsSound /\ OneHolds /\ EntriesKnown /\ HashesKnown /\ Counts /\ LimitsKept

-----------------------------------------------------------------------------
(* Records and counts.                                                     *)

\* The type invariant with the records named.
LEMMA TypeRecords ==
    TypeOK <=> /\ queue \in [Inits -> 0..MaxJobs] /\ half_open \in [Ips -> Nat] /\ total \in Nat
               /\ init_hashes \in [Inits -> Spis \cup {NoSpi}]
               /\ entries \in [Spis -> EntryRec] /\ thread \in [Threads -> ThreadRec]
               /\ moves \in 0..MaxMoves
  BY DEF TypeOK, EntryRec, ThreadRec

\* The fields of an entry.
LEMMA EntryFields ==
    ASSUME NEW e \in EntryRec
    PROVE  /\ e.state \in {"none", "created", "connecting", "established"} /\ e.half \in BOOLEAN
           /\ e.other \in Ips \cup {NoIp} /\ e.init \in Inits \cup {NoInit}
           /\ e.out \in Threads \cup {NoThread}
  BY DEF EntryRec

\* The fields of what a thread does.
LEMMA ThreadFields ==
    ASSUME NEW r \in ThreadRec
    PROVE  /\ r.pc \in Pcs /\ r.spi \in Spis \cup {NoSpi} /\ r.owed \in Ips \cup {NoIp}
           /\ r.init \in Inits \cup {NoInit} /\ r.job \in {"none", "init", "message", "timeout"}
  BY DEF ThreadRec

\* A thread without a job, and an SPI without an entry.
LEMMA IdleType ==
    /\ Idle \in ThreadRec /\ Idle.pc = "idle" /\ Idle.owed = NoIp /\ Idle.spi = NoSpi
    /\ NoEntry \in EntryRec /\ NoEntry.state = "none" /\ ~NoEntry.half
  BY DEF Idle, ThreadRec, Pcs, NoEntry, EntryRec

\* Other positions of a thread, and with another count to account for.
LEMMA GotoType ==
    ASSUME NEW r \in ThreadRec, NEW pc \in Pcs, NEW ip \in Ips \cup {NoIp}
    PROVE  /\ [r EXCEPT !.pc = pc] \in ThreadRec
           /\ [r EXCEPT !.pc = pc].pc = pc /\ [r EXCEPT !.pc = pc].spi = r.spi
           /\ [r EXCEPT !.pc = pc].init = r.init /\ [r EXCEPT !.pc = pc].owed = r.owed
           /\ [r EXCEPT !.pc = pc, !.owed = ip] \in ThreadRec
           /\ [r EXCEPT !.pc = pc, !.owed = ip].pc = pc
           /\ [r EXCEPT !.pc = pc, !.owed = ip].spi = r.spi
           /\ [r EXCEPT !.pc = pc, !.owed = ip].init = r.init
           /\ [r EXCEPT !.pc = pc, !.owed = ip].owed = ip
  BY DEF ThreadRec

B(b) == IF b THEN 1 ELSE 0

\* Adding or removing one element changes the size of a set by at most one.
LEMMA SetChange ==
    ASSUME NEW A, IsFiniteSet(A), NEW x, NEW C, C = A \cup {x} \/ C = A \ {x}
    PROVE  /\ Cardinality(A) \in Nat /\ Cardinality(C) \in Nat /\ IsFiniteSet(C)
           /\ Cardinality(C) = Cardinality(A) - B(x \in A) + B(x \in C)
  <1>1. Cardinality(A) \in Nat
    BY FS_CardinalityType
  <1>2. CASE C = A \cup {x}
    <2>1. IsFiniteSet(C) /\ Cardinality(C) = IF x \in A THEN Cardinality(A) ELSE Cardinality(A) + 1
      BY <1>2, FS_AddElement
    <2> QED BY <1>1, <1>2, <2>1 DEF B
  <1>3. CASE C = A \ {x}
    <2>1. IsFiniteSet(C) /\ Cardinality(C) = IF x \in A THEN Cardinality(A) - 1 ELSE Cardinality(A)
      BY <1>3, FS_RemoveElement
    <2>2. Cardinality(C) \in Nat
      BY <2>1, FS_CardinalityType
    <2> QED BY <1>1, <1>3, <2>1, <2>2 DEF B
  <1> QED BY <1>2, <1>3

\* Messages, threads and SPIs are finitely many.
LEMMA FiniteParts ==
    /\ \A Q \in SUBSET (Inits \X (1..MaxJobs)) : IsFiniteSet(Q) /\ Cardinality(Q) \in Nat
    /\ \A T \in SUBSET Threads : IsFiniteSet(T) /\ Cardinality(T) \in Nat
    /\ \A E \in SUBSET Spis : IsFiniteSet(E) /\ Cardinality(E) \in Nat
  <1>1. IsFiniteSet(1..MaxJobs)
    BY LimitsAssumption, FS_Interval
  <1>2. IsFiniteSet(Inits \X (1..MaxJobs))
    BY <1>1, SetsAssumption, FS_Product
  <1> QED BY <1>2, SetsAssumption, FS_Subset, FS_CardinalityType

\* The parts of a count, before and after a step.
LEMMA PartTypes ==
    ASSUME NEW S
    PROVE  /\ Queued(S) \in SUBSET (Inits \X (1..MaxJobs)) /\ Owing(S) \in SUBSET Threads
           /\ HalfOpens(S) \in SUBSET Spis /\ Moving(S) \in SUBSET Threads
           /\ Queued(S)' \in SUBSET (Inits \X (1..MaxJobs)) /\ Owing(S)' \in SUBSET Threads
           /\ HalfOpens(S)' \in SUBSET Spis /\ Moving(S)' \in SUBSET Threads
  BY DEF Queued, Owing, HalfOpens, Moving

\* All counts are natural numbers.
LEMMA CountTypes ==
    ASSUME NEW S
    PROVE  /\ Cardinality(Queued(S)) \in Nat /\ Cardinality(Owing(S)) \in Nat
           /\ Cardinality(HalfOpens(S)) \in Nat /\ Cardinality(Moving(S)) \in Nat
           /\ Count(S) \in Nat
           /\ Cardinality(Queued(S)') \in Nat /\ Cardinality(Owing(S)') \in Nat
           /\ Cardinality(HalfOpens(S)') \in Nat /\ Cardinality(Moving(S)') \in Nat
           /\ Count(S)' \in Nat
           /\ Count(S)' = Cardinality(Queued(S)') + Cardinality(Owing(S)') + Cardinality(HalfOpens(S)')
  <1>1. /\ Cardinality(Queued(S)) \in Nat /\ Cardinality(Owing(S)) \in Nat
        /\ Cardinality(HalfOpens(S)) \in Nat /\ Cardinality(Moving(S)) \in Nat
        /\ Cardinality(Queued(S)') \in Nat /\ Cardinality(Owing(S)') \in Nat
        /\ Cardinality(HalfOpens(S)') \in Nat /\ Cardinality(Moving(S)') \in Nat
    BY PartTypes, FiniteParts
  <1> QED BY <1>1 DEF Count

\* One thread goes on: what it owes is counted differently.
LEMMA OwingStep ==
    ASSUME NEW t \in Threads, \A u \in Threads \ {t} : thread'[u] = thread[u], NEW S
    PROVE  /\ Cardinality(Owing(S)') = Cardinality(Owing(S)) - B(t \in Owing(S)) + B(t \in Owing(S)')
           /\ Cardinality(Moving(S)') =
                 Cardinality(Moving(S)) - B(t \in Moving(S)) + B(t \in Moving(S)')
           /\ t \in Owing(S) <=> thread[t].owed \in S /\ thread[t].pc # "move"
           /\ t \in Owing(S)' <=> thread'[t].owed \in S /\ thread'[t].pc # "move"
           /\ t \in Moving(S) <=> thread[t].owed \in S /\ thread[t].pc = "move"
           /\ t \in Moving(S)' <=> thread'[t].owed \in S /\ thread'[t].pc = "move"
  <1>1. /\ Owing(S)' = Owing(S) \cup {t} \/ Owing(S)' = Owing(S) \ {t}
        /\ Moving(S)' = Moving(S) \cup {t} \/ Moving(S)' = Moving(S) \ {t}
    BY DEF Owing, Moving
  <1>2. /\ Cardinality(Owing(S)') = Cardinality(Owing(S)) - B(t \in Owing(S)) + B(t \in Owing(S)')
        /\ Cardinality(Moving(S)') =
              Cardinality(Moving(S)) - B(t \in Moving(S)) + B(t \in Moving(S)')
    BY <1>1, PartTypes, FiniteParts, SetChange
  <1> QED BY <1>2 DEF Owing, Moving

\* One entry changes.
LEMMA HalfStep ==
    ASSUME NEW s \in Spis, NEW S,
           \A x \in Spis \ {s} : entries'[x] = entries[x]
    PROVE  /\ Cardinality(HalfOpens(S)') =
                 Cardinality(HalfOpens(S)) - B(s \in HalfOpens(S)) + B(s \in HalfOpens(S)')
           /\ s \in HalfOpens(S) <=> entries[s].half /\ entries[s].other \in S
           /\ s \in HalfOpens(S)' <=> entries'[s].half /\ entries'[s].other \in S
  <1>1. HalfOpens(S)' = HalfOpens(S) \cup {s} \/ HalfOpens(S)' = HalfOpens(S) \ {s}
    BY DEF HalfOpens
  <1>2. Cardinality(HalfOpens(S)') =
            Cardinality(HalfOpens(S)) - B(s \in HalfOpens(S)) + B(s \in HalfOpens(S)')
    BY <1>1, PartTypes, FiniteParts, SetChange
  <1> QED BY <1>2 DEF HalfOpens

\* A job is queued, or taken from the queue.
LEMMA QueueStep ==
    ASSUME TypeOK, NEW m \in Inits, NEW S \in SUBSET Ips,
           \/ queue[m] < MaxJobs /\ queue' = [queue EXCEPT ![m] = @ + 1]
           \/ queue[m] > 0 /\ queue' = [queue EXCEPT ![m] = @ - 1]
    PROVE  Cardinality(Queued(S)') =
               IF Source[m] \in S THEN Cardinality(Queued(S)) + queue'[m] - queue[m]
               ELSE Cardinality(Queued(S))
  <1>1. queue \in [Inits -> 0..MaxJobs] /\ MaxJobs \in Nat
    BY LimitsAssumption DEF TypeOK
  <1>2. CASE queue[m] < MaxJobs /\ queue' = [queue EXCEPT ![m] = @ + 1]
    <2> DEFINE j == <<m, queue[m] + 1>>
    <2>1. /\ queue'[m] = queue[m] + 1 /\ queue[m] \in Nat
          /\ j \in Inits \X (1..MaxJobs) /\ \A n \in Inits \ {m} : queue'[n] = queue[n]
      BY <1>1, <1>2
    <2>2. \A k \in Inits \X (1..MaxJobs) : k = <<k[1], k[2]>> /\ k[1] \in Inits /\ k[2] \in 1..MaxJobs
      OBVIOUS
    <2>3. Queued(S)' = IF Source[m] \in S THEN Queued(S) \cup {j} ELSE Queued(S)
      <3>1. \A k \in Inits \X (1..MaxJobs) :
               k[2] <= queue'[k[1]] <=> k[2] <= queue[k[1]] \/ k = j
        BY <1>1, <2>1, <2>2
      <3> QED BY <2>1, <2>2, <3>1 DEF Queued
    <2>4. j \notin Queued(S)
      BY <2>1 DEF Queued
    <2>5. Source[m] \in S => Cardinality(Queued(S)') = Cardinality(Queued(S)) + 1
      <3>1. IsFiniteSet(Queued(S))
        BY PartTypes, FiniteParts
      <3> HIDE DEF j
      <3>2. Cardinality(Queued(S) \cup {j}) = Cardinality(Queued(S)) + 1
        BY <2>4, <3>1, FS_AddElement
      <3> QED BY <2>3, <3>2
    <2>6. Cardinality(Queued(S)) \in Nat
      BY CountTypes
    <2> QED BY <2>1, <2>3, <2>5, <2>6
  <1>3. CASE queue[m] > 0 /\ queue' = [queue EXCEPT ![m] = @ - 1]
    <2> DEFINE j == <<m, queue[m]>>
    <2>1. /\ queue'[m] = queue[m] - 1 /\ queue[m] \in Nat
          /\ j \in Inits \X (1..MaxJobs) /\ \A n \in Inits \ {m} : queue'[n] = queue[n]
      BY <1>1, <1>3
    <2>2. \A k \in Inits \X (1..MaxJobs) : k = <<k[1], k[2]>> /\ k[1] \in Inits /\ k[2] \in 1..MaxJobs
      OBVIOUS
    <2>3. Queued(S)' = IF Source[m] \in S THEN Queued(S) \ {j} ELSE Queued(S)
      <3>1. \A k \in Inits \X (1..MaxJobs) :
               k[2] <= queue'[k[1]] <=> k[2] <= queue[k[1]] /\ k # j
        BY <1>1, <2>1, <2>2
      <3> QED BY <2>1, <2>2, <3>1 DEF Queued
    <2>4. Source[m] \in S => j \in Queued(S)
      BY <2>1 DEF Queued
    <2>5. Source[m] \in S => Cardinality(Queued(S)') = Cardinality(Queued(S)) - 1
      <3>1. IsFiniteSet(Queued(S))
        BY PartTypes, FiniteParts
      <3> HIDE DEF j
      <3>2. Source[m] \in S => Cardinality(Queued(S) \ {j}) = Cardinality(Queued(S)) - 1
        BY <2>4, <3>1, FS_RemoveElement
      <3> QED BY <2>3, <3>2
    <2>6. Cardinality(Queued(S)) \in Nat
      BY CountTypes
    <2> QED BY <2>1, <2>3, <2>5, <2>6
  <1> QED BY <1>2, <1>3

-----------------------------------------------------------------------------
(* Books that are kept.                                                    *)

\* The limits and the sets of one address.
LEMMA BookTypes ==
    /\ block_threshold \in Nat /\ init_limit_half_open \in Nat /\ MaxMoves \in Nat
    /\ MaxJobs \in Nat /\ ikesa_limit \in Nat
    /\ Ips \in SUBSET Ips /\ \A ip \in Ips : {ip} \in SUBSET Ips
  BY LimitsAssumption

\* Nothing that is counted comes or goes.
LEMMA BooksSame ==
    ASSUME BooksInv, UNCHANGED <<half_open, total, moves>>,
           \A S \in SUBSET Ips : /\ Count(S)' = Count(S)
                                 /\ Cardinality(Moving(S)') = Cardinality(Moving(S))
    PROVE  Counts' /\ LimitsKept'
  <1>1. Counts'
    BY BookTypes DEF BooksInv, Counts
  <1>2. LimitsKept'
    BY BookTypes DEF BooksInv, LimitsKept, Within
  <1> QED BY <1>1, <1>2

\* Something that was counted goes, and is taken off: it was counted, so no count
\* gets below zero.
LEMMA BooksLess ==
    ASSUME BooksInv, NEW ip \in Ips, remove_half_open(ip), UNCHANGED moves,
           \A S \in SUBSET Ips : /\ Count(S)' = Count(S) - B(ip \in S)
                                 /\ Cardinality(Moving(S)') = Cardinality(Moving(S))
    PROVE  Counts' /\ LimitsKept' /\ half_open' \in [Ips -> Nat] /\ total' \in Nat
  <1>1. half_open \in [Ips -> Nat] /\ total \in Nat /\ moves \in Nat
    BY BookTypes DEF BooksInv, TypeOK
  <1>2. /\ \A a \in Ips : half_open'[a] = half_open[a] - B(ip \in {a})
        /\ total' = total - 1 /\ half_open' \in [Ips -> Int]
    BY <1>1 DEF remove_half_open, B
  <1>3. /\ \A a \in Ips : half_open'[a] = Count({a})'
        /\ total' = Count(Ips)'
    BY <1>2, BookTypes DEF BooksInv, Counts, B
  <1>4. Counts'
    BY <1>3 DEF Counts
  <1>5. half_open' \in [Ips -> Nat] /\ total' \in Nat
    BY <1>2, <1>3, CountTypes
  <1>6. /\ \A a \in Ips : half_open'[a] <= half_open[a] /\ half_open'[a] \in Nat
        /\ total' <= total
    BY <1>1, <1>2, <1>5 DEF B
  <1>7. \A S \in SUBSET Ips : Cardinality(Moving(S)) \in Nat
    BY CountTypes
  <1>8. LimitsKept'
    <2>1. Cardinality(Moving(Ips)') <= moves'
      BY BookTypes DEF BooksInv, LimitsKept
    <2>2. ASSUME NEW a \in Ips PROVE Within({a}, half_open[a], block_threshold)'
      <3>1. Cardinality(Moving({a})') = Cardinality(Moving({a})) /\ Cardinality(Moving({a})) \in Nat
        BY <1>7, BookTypes
      <3>2. block_threshold > 0 => half_open[a] + Cardinality(Moving({a})) <= block_threshold + moves
        BY DEF BooksInv, LimitsKept, Within
      <3> QED BY <1>1, <1>6, <3>1, <3>2, BookTypes DEF Within
    <2>3. Within(Ips, total, init_limit_half_open)'
      <3>1. Cardinality(Moving(Ips)') = Cardinality(Moving(Ips)) /\ Cardinality(Moving(Ips)) \in Nat
        BY <1>7, BookTypes
      <3>2. init_limit_half_open > 0 => total + Cardinality(Moving(Ips)) <= init_limit_half_open + moves
        BY DEF BooksInv, LimitsKept, Within
      <3> QED BY <1>1, <1>5, <1>6, <3>1, <3>2, BookTypes DEF Within
    <2> QED BY <2>1, <2>2, <2>3 DEF LimitsKept
  <1> QED BY <1>4, <1>5, <1>8

\* Something new is counted: a message that the limits let in, or an IKE_SA that was
\* on its way to a new address.
LEMMA BooksMore ==
    ASSUME BooksInv, NEW ip \in Ips, put_half_open(ip), UNCHANGED moves, NEW moved \in BOOLEAN,
           \A S \in SUBSET Ips :
              /\ Count(S)' = Count(S) + B(ip \in S)
              /\ Cardinality(Moving(S)') = Cardinality(Moving(S)) - B(moved /\ ip \in S),
           ~moved => /\ block_threshold > 0 => half_open[ip] < block_threshold
                     /\ init_limit_half_open > 0 => total < init_limit_half_open
    PROVE  Counts' /\ LimitsKept' /\ half_open' \in [Ips -> Nat] /\ total' \in Nat
  <1>1. half_open \in [Ips -> Nat] /\ total \in Nat /\ moves \in Nat
    BY BookTypes DEF BooksInv, TypeOK
  <1>2. /\ \A a \in Ips : half_open'[a] = half_open[a] + B(ip \in {a})
        /\ total' = total + 1 /\ half_open' \in [Ips -> Nat] /\ total' \in Nat
    BY <1>1 DEF put_half_open, B
  <1>3. Counts'
    BY <1>2, BookTypes DEF BooksInv, Counts, B
  <1>4. \A S \in SUBSET Ips : /\ Cardinality(Moving(S)) \in Nat /\ Cardinality(Moving(S)') \in Nat
                              /\ Cardinality(Moving(S)) <= Cardinality(Moving(Ips))
    <2>1. \A S \in SUBSET Ips : Moving(S) \subseteq Moving(Ips)
      BY DEF Moving
    <2>2. IsFiniteSet(Moving(Ips))
      BY PartTypes, FiniteParts
    <2>3. \A S \in SUBSET Ips : Cardinality(Moving(S)) <= Cardinality(Moving(Ips))
      BY <2>1, <2>2, FS_Subset
    <2> QED BY <2>3, CountTypes
  <1>5. LimitsKept'
    <2>1. Cardinality(Moving(Ips)') <= moves'
      <3>1. Cardinality(Moving(Ips)) <= moves
        BY DEF BooksInv, LimitsKept
      <3>2. Cardinality(Moving(Ips)') <= Cardinality(Moving(Ips))
        BY <1>4, BookTypes DEF B
      <3> QED BY <1>1, <1>4, <3>1, <3>2, BookTypes
    <2>2. ASSUME NEW a \in Ips PROVE Within({a}, half_open[a], block_threshold)'
      <3> DEFINE c == Cardinality(Moving({a}))
      <3>1. /\ Cardinality(Moving({a})') = c - B(moved /\ ip \in {a}) /\ c \in Nat
            /\ c <= moves
        BY <1>1, <1>4, BookTypes DEF BooksInv, LimitsKept
      <3>2. block_threshold > 0 => half_open[a] + c <= block_threshold + moves
        BY DEF BooksInv, LimitsKept, Within
      <3>3. half_open'[a] = half_open[a] + B(ip \in {a}) /\ half_open[a] \in Nat
        BY <1>1, <1>2
      <3> HIDE DEF c
      <3> QED BY <1>1, <3>1, <3>2, <3>3, BookTypes DEF Within, B
    <2>3. Within(Ips, total, init_limit_half_open)'
      <3> DEFINE c == Cardinality(Moving(Ips))
      <3>1. Cardinality(Moving(Ips)') = c - B(moved) /\ c \in Nat /\ c <= moves
        BY <1>4, BookTypes DEF BooksInv, LimitsKept, B
      <3>2. init_limit_half_open > 0 => total + c <= init_limit_half_open + moves
        BY DEF BooksInv, LimitsKept, Within
      <3> HIDE DEF c
      <3> QED BY <1>1, <1>2, <3>1, <3>2, BookTypes DEF Within, B
    <2> QED BY <2>1, <2>2, <2>3 DEF LimitsKept
  <1> QED BY <1>2, <1>3, <1>5

-----------------------------------------------------------------------------
(* Threads, entries and hashes.                                            *)

\* What a step of thread t may make of entry x.
EntryChange(t, x) ==
    /\ entries[x].out \in {NoThread, t}
    /\ entries[x].state = "none" => Holds(t) /\ thread[t].spi = x
    /\ IF entries'[x].state = "none"
       THEN /\ entries'[x] = NoEntry /\ ~Waiting(x) /\ entries[x].state # "none"
            /\ Holds(t)' /\ thread'[t].spi = x /\ thread'[t].init = entries[x].init
       ELSE /\ entries'[x].other \in Ips
            /\ entries'[x].init =
                  IF entries[x].state = "none" THEN thread[t].init ELSE entries[x].init

\* What it may make of the thread.
ThreadChange(t) ==
    /\ Owes(t)' /\ Holding(t)' /\ Using(t)'
    /\ Holds(t)' => \/ Holds(t) /\ thread'[t].spi = thread[t].spi
                    \/ entries[thread'[t].spi].state # "none"
    /\ Holds(t) => \/ Holds(t)' /\ thread'[t].spi = thread[t].spi /\ thread'[t].init = thread[t].init
                   \/ /\ entries'[thread[t].spi].state # "none"
                      /\ entries'[thread[t].spi].init = thread[t].init

\* Such steps keep what is known of threads, entries and hashes.
LEMMA ControlStep ==
    ASSUME BooksInv, NEW t \in Threads, UNCHANGED init_hashes,
           \A u \in Threads \ {t} : thread'[u] = thread[u], ThreadChange(t),
           \A x \in Spis : entries'[x] = entries[x] \/ EntryChange(t, x)
    PROVE  ThreadsSound' /\ OneHolds' /\ EntriesKnown' /\ HashesKnown'
  <1>1. /\ init_hashes \in [Inits -> Spis \cup {NoSpi}] /\ ThreadsSound /\ OneHolds
        /\ EntriesKnown /\ HashesKnown
    BY DEF BooksInv, TypeOK
  <1>2. ASSUME NEW u \in Threads \ {t}
        PROVE  Owes(u)' /\ Holding(u)' /\ Using(u)'
    <2>1. thread'[u] = thread[u] /\ Owes(u) /\ Holding(u) /\ Using(u)
      BY <1>1 DEF ThreadsSound
    <2>2. Owes(u)'
      BY <2>1 DEF Owes
    <2>3. Holding(u)'
      <3> SUFFICES ASSUME Holds(u)' PROVE entries'[thread[u].spi].state = "none"
        BY <2>1 DEF Holding, Holds
      <3>1. Holds(u) /\ thread[u].spi \in Spis /\ entries[thread[u].spi].state = "none"
        BY <2>1 DEF Holding, Holds
      <3>2. ~(Holds(t) /\ thread[t].spi = thread[u].spi)
        BY <1>1, <3>1 DEF OneHolds
      <3> QED BY <3>1, <3>2 DEF EntryChange
    <2>4. Using(u)'
      <3>1. ASSUME thread[u].pc = "wait"
            PROVE  thread[u].spi \in Spis /\ entries'[thread[u].spi].state # "none"
        <4>1. /\ thread[u].spi \in Spis /\ entries[thread[u].spi].state # "none"
              /\ Waiting(thread[u].spi)
          BY <2>1, <3>1 DEF Using, Waiting, At
        <4> QED BY <4>1 DEF EntryChange
      <3>2. ASSUME Uses(u)
            PROVE  thread[u].spi \in Spis /\ entries'[thread[u].spi] = entries[thread[u].spi]
        <4>1. thread[u].spi \in Spis /\ entries[thread[u].spi].out = u
          BY <2>1, <3>2 DEF Using
        <4>2. u \notin {NoThread, t}
          BY SetsAssumption
        <4> QED BY <4>1, <4>2 DEF EntryChange
      <3> QED BY <2>1, <3>1, <3>2 DEF Using, Uses
    <2> QED BY <2>2, <2>3, <2>4
  <1>3. ThreadsSound'
    BY <1>2 DEF ThreadsSound, ThreadChange
  <1>4. OneHolds'
    <2> SUFFICES ASSUME NEW u \in Threads \ {t}, Holds(t)', Holds(u)', thread'[t].spi = thread'[u].spi
                 PROVE  FALSE
      BY <1>1 DEF OneHolds, Holds
    <2>1. thread'[u] = thread[u] /\ Holds(u) /\ entries[thread[u].spi].state = "none"
      BY <1>1 DEF Holds, ThreadsSound, Holding
    <2>2. Holds(t) /\ thread'[t].spi = thread[t].spi
      BY <2>1 DEF ThreadChange
    <2> QED BY <1>1, <2>1, <2>2 DEF OneHolds
  <1>5. EntriesKnown'
    <2> SUFFICES ASSUME NEW x \in Spis
                 PROVE  IF entries'[x].state = "none" THEN entries'[x] = NoEntry
                        ELSE /\ entries'[x].other \in Ips /\ entries'[x].init \in Inits
                             /\ init_hashes[entries'[x].init] = x
      BY DEF EntriesKnown
    <2>1. CASE entries'[x] = entries[x]
      BY <1>1, <2>1 DEF EntriesKnown
    <2>2. CASE EntryChange(t, x)
      BY <1>1, <2>2 DEF EntryChange, EntriesKnown, ThreadsSound, Holding
    <2> QED BY <2>1, <2>2
  <1>6. HashesKnown'
    <2> SUFFICES ASSUME NEW m \in Inits, init_hashes[m] # NoSpi
                 PROVE  \/ entries'[init_hashes[m]].state # "none" /\ entries'[init_hashes[m]].init = m
                        \/ \E u \in Threads : Holds(u)' /\ thread'[u].spi = init_hashes[m]
                                              /\ thread'[u].init = m
      BY DEF HashesKnown
    <2> DEFINE s == init_hashes[m]
    <2>1. s \in Spis
      BY <1>1
    <2>2. CASE entries[s].state # "none" /\ entries[s].init = m
      BY <2>1, <2>2 DEF EntryChange
    <2>3. CASE \E u \in Threads : Holds(u) /\ thread[u].spi = s /\ thread[u].init = m
      <3>1. PICK u \in Threads : Holds(u) /\ thread[u].spi = s /\ thread[u].init = m
        BY <2>3
      <3>2. CASE u # t
        BY <3>1, <3>2 DEF Holds
      <3>3. CASE u = t
        BY <3>1, <3>3 DEF ThreadChange
      <3> QED BY <3>2, <3>3
    <2> QED BY <1>1, <2>2, <2>3 DEF HashesKnown
  <1> QED BY <1>3, <1>4, <1>5, <1>6

\* What a thread, and an entry, contributes to the counts of the addresses in S.
OwedTo(r, S) == B(r.owed \in S /\ r.pc # "move")
MovedTo(r, S) == B(r.owed \in S /\ r.pc = "move")
HalfAt(e, S) == B(e.half /\ e.other \in S)

\* A contribution is nothing or one.
LEMMA BTypes ==
    ASSUME NEW r, NEW e, NEW S, NEW b
    PROVE  /\ B(b) \in {0, 1} /\ OwedTo(r, S) \in {0, 1} /\ MovedTo(r, S) \in {0, 1}
           /\ HalfAt(e, S) \in {0, 1}
  BY DEF B, OwedTo, MovedTo, HalfAt

\* What one thread does to the counts when no entry changes.
LEMMA ThreadStep ==
    ASSUME TypeOK, NEW t \in Threads, NEW r \in ThreadRec, thread' = [thread EXCEPT ![t] = r],
           UNCHANGED entries, NEW S \in SUBSET Ips
    PROVE  /\ UNCHANGED queue => Count(S)' = Count(S) - OwedTo(thread[t], S) + OwedTo(r, S)
           /\ Cardinality(Moving(S)') = Cardinality(Moving(S)) - MovedTo(thread[t], S) + MovedTo(r, S)
           /\ Cardinality(Owing(S)') = Cardinality(Owing(S)) - OwedTo(thread[t], S) + OwedTo(r, S)
           /\ Cardinality(HalfOpens(S)') = Cardinality(HalfOpens(S))
  <1>1. thread'[t] = r /\ \A u \in Threads \ {t} : thread'[u] = thread[u]
    BY TypeRecords
  <1>2. /\ Cardinality(Moving(S)') = Cardinality(Moving(S)) - MovedTo(thread[t], S) + MovedTo(r, S)
        /\ Cardinality(Owing(S)') = Cardinality(Owing(S)) - OwedTo(thread[t], S) + OwedTo(r, S)
    BY <1>1, OwingStep DEF OwedTo, MovedTo, B
  <1>3. HalfOpens(S)' = HalfOpens(S) /\ (UNCHANGED queue => Queued(S)' = Queued(S))
    BY DEF HalfOpens, Queued
  <1>4. OwedTo(thread[t], S) \in Int /\ OwedTo(r, S) \in Int
    BY BTypes
  <1> QED BY <1>2, <1>3, <1>4, CountTypes DEF Count

\* What one thread and a change of one entry do to the counts.
LEMMA EntryStep ==
    ASSUME TypeOK, NEW t \in Threads, NEW r \in ThreadRec, thread' = [thread EXCEPT ![t] = r],
           NEW s \in Spis, NEW e \in EntryRec, entries' = [entries EXCEPT ![s] = e], UNCHANGED queue,
           NEW S \in SUBSET Ips
    PROVE  /\ Count(S)' = Count(S) - OwedTo(thread[t], S) + OwedTo(r, S)
                           - HalfAt(entries[s], S) + HalfAt(e, S)
           /\ Cardinality(Moving(S)') = Cardinality(Moving(S)) - MovedTo(thread[t], S) + MovedTo(r, S)
  <1>1. /\ thread'[t] = r /\ \A u \in Threads \ {t} : thread'[u] = thread[u]
        /\ entries'[s] = e /\ \A x \in Spis \ {s} : entries'[x] = entries[x]
    BY TypeRecords
  <1>2. /\ Cardinality(Moving(S)') = Cardinality(Moving(S)) - MovedTo(thread[t], S) + MovedTo(r, S)
        /\ Cardinality(Owing(S)') = Cardinality(Owing(S)) - OwedTo(thread[t], S) + OwedTo(r, S)
    BY <1>1, OwingStep DEF OwedTo, MovedTo, B
  <1>3. Cardinality(HalfOpens(S)') = Cardinality(HalfOpens(S)) - HalfAt(entries[s], S) + HalfAt(e, S)
    BY <1>1, HalfStep DEF HalfAt, B
  <1>4. Queued(S)' = Queued(S)
    BY DEF Queued
  <1>5. /\ OwedTo(thread[t], S) \in Int /\ OwedTo(r, S) \in Int
        /\ HalfAt(entries[s], S) \in Int /\ HalfAt(e, S) \in Int
    BY BTypes
  <1> QED BY <1>2, <1>3, <1>4, <1>5, CountTypes DEF Count

\* All parts of the invariant together.
LEMMA BooksTogether ==
    ASSUME BooksInv, NEW t \in Threads, UNCHANGED init_hashes,
           thread' \in [Threads -> ThreadRec], entries' \in [Spis -> EntryRec],
           queue' \in [Inits -> 0..MaxJobs], half_open' \in [Ips -> Nat], total' \in Nat,
           moves' \in 0..MaxMoves,
           \A u \in Threads \ {t} : thread'[u] = thread[u], ThreadChange(t),
           \A x \in Spis : entries'[x] = entries[x] \/ EntryChange(t, x),
           Counts', LimitsKept'
    PROVE  BooksInv'
  <1>1. TypeOK'
    BY DEF TypeOK, BooksInv, EntryRec, ThreadRec
  <1>2. ThreadsSound' /\ OneHolds' /\ EntriesKnown' /\ HashesKnown'
    BY ControlStep
  <1> QED BY <1>1, <1>2 DEF BooksInv

-----------------------------------------------------------------------------
(* The actions of a thread that change no entry and no hash.               *)

\* What the invariant says of the thread that goes on.
LEMMA Parts ==
    ASSUME BooksInv, NEW t \in Threads
    PROVE  /\ TypeOK /\ thread[t] \in ThreadRec /\ Owes(t) /\ Holding(t) /\ Using(t)
           /\ queue \in [Inits -> 0..MaxJobs] /\ half_open \in [Ips -> Nat] /\ total \in Nat
           /\ init_hashes \in [Inits -> Spis \cup {NoSpi}] /\ moves \in 0..MaxMoves
           /\ entries \in [Spis -> EntryRec] /\ thread \in [Threads -> ThreadRec]
           /\ \A S : Count(S) \in Int /\ Cardinality(Moving(S)) \in Int
  BY TypeRecords, CountTypes DEF BooksInv, ThreadsSound

\* A step of a thread that is counted as before.
LEMMA ControlKeeps ==
    ASSUME BooksInv, NEW t \in Threads, NEW r \in ThreadRec, thread' = [thread EXCEPT ![t] = r],
           UNCHANGED <<queue, half_open, total, init_hashes, entries, moves>>,
           r.owed = thread[t].owed, thread[t].pc # "move", r.pc # "move", ThreadChange(t)
    PROVE  BooksInv'
  <1>1. /\ thread' \in [Threads -> ThreadRec] /\ entries' \in [Spis -> EntryRec]
        /\ \A u \in Threads \ {t} : thread'[u] = thread[u]
    BY Parts
  <1>2. ASSUME NEW S \in SUBSET Ips
        PROVE  Count(S)' = Count(S) /\ Cardinality(Moving(S)') = Cardinality(Moving(S))
    <2>1. /\ Count(S)' = Count(S) - OwedTo(thread[t], S) + OwedTo(r, S)
          /\ Cardinality(Moving(S)') = Cardinality(Moving(S)) - MovedTo(thread[t], S) + MovedTo(r, S)
      BY Parts, ThreadStep
    <2>2. OwedTo(thread[t], S) = OwedTo(r, S) /\ MovedTo(thread[t], S) = MovedTo(r, S)
      BY DEF OwedTo, MovedTo
    <2>3. OwedTo(r, S) \in Int /\ MovedTo(r, S) \in Int
      BY BTypes
    <2> QED BY <2>1, <2>2, <2>3, CountTypes
  <1>3. Counts' /\ LimitsKept'
    BY <1>2, BooksSame
  <1> QED BY <1>1, <1>3, Parts, BooksTogether

\* A step of a thread that takes off what it was counted for.
LEMMA UntrackKeeps ==
    ASSUME BooksInv, NEW t \in Threads, NEW r \in ThreadRec, thread' = [thread EXCEPT ![t] = r],
           UNCHANGED <<queue, init_hashes, entries, moves>>, remove_half_open(thread[t].owed),
           thread[t].owed \in Ips, r.owed = NoIp, thread[t].pc # "move", r.pc # "move", ThreadChange(t)
    PROVE  BooksInv'
  <1> DEFINE ip == thread[t].owed
  <1>1. /\ thread' \in [Threads -> ThreadRec] /\ entries' \in [Spis -> EntryRec]
        /\ \A u \in Threads \ {t} : thread'[u] = thread[u]
    BY Parts
  <1>2. ASSUME NEW S \in SUBSET Ips
        PROVE  Count(S)' = Count(S) - B(ip \in S) /\ Cardinality(Moving(S)') = Cardinality(Moving(S))
    <2>1. /\ Count(S)' = Count(S) - OwedTo(thread[t], S) + OwedTo(r, S)
          /\ Cardinality(Moving(S)') = Cardinality(Moving(S)) - MovedTo(thread[t], S) + MovedTo(r, S)
      BY Parts, ThreadStep
    <2>2. /\ OwedTo(thread[t], S) = B(ip \in S) /\ OwedTo(r, S) = 0
          /\ MovedTo(thread[t], S) = 0 /\ MovedTo(r, S) = 0
      BY SetsAssumption DEF OwedTo, MovedTo, B
    <2>3. B(ip \in S) \in Int
      BY BTypes
    <2> QED BY <2>1, <2>2, <2>3, CountTypes
  <1>3. Counts' /\ LimitsKept' /\ half_open' \in [Ips -> Nat] /\ total' \in Nat
    BY <1>2, BooksLess
  <1> QED BY <1>1, <1>3, Parts, BooksTogether

\* Receiving an initial message.
LEMMA ReceiveKeeps ==
    ASSUME BooksInv, NEW m \in Inits, Receive(m)
    PROVE  BooksInv'
  <1> DEFINE ip == Source[m]
  <1>1. /\ queue[m] < MaxJobs /\ queue' = [queue EXCEPT ![m] = @ + 1] /\ ip \in Ips
        /\ UNCHANGED <<init_hashes, entries, thread, moves>> /\ put_half_open(ip)
    BY SourceAssumption DEF Receive
  <1>2. TypeOK /\ queue \in [Inits -> 0..MaxJobs] /\ MaxJobs \in Nat
    BY LimitsAssumption DEF BooksInv, TypeOK
  <1>3. queue' \in [Inits -> 0..MaxJobs] /\ queue'[m] = queue[m] + 1 /\ queue[m] \in Int
    BY <1>1, <1>2
  <1>4. \A S \in SUBSET Ips : /\ Count(S)' = Count(S) + B(ip \in S)
                              /\ Cardinality(Moving(S)') = Cardinality(Moving(S)) - B(FALSE)
    <2> SUFFICES ASSUME NEW S \in SUBSET Ips
                 PROVE  /\ Count(S)' = Count(S) + B(ip \in S)
                        /\ Cardinality(Moving(S)') = Cardinality(Moving(S)) - B(FALSE)
      OBVIOUS
    <2>1. Cardinality(Queued(S)') = Cardinality(Queued(S)) + B(ip \in S)
      <3>1. Cardinality(Queued(S)') = IF Source[m] \in S THEN Cardinality(Queued(S)) + queue'[m] - queue[m]
                                      ELSE Cardinality(Queued(S))
        BY <1>1, <1>2, QueueStep
      <3> QED BY <1>3, <3>1, CountTypes DEF B
    <2>2. Owing(S)' = Owing(S) /\ HalfOpens(S)' = HalfOpens(S) /\ Moving(S)' = Moving(S)
      BY <1>1 DEF Owing, HalfOpens, Moving
    <2>3. B(ip \in S) \in Int /\ B(FALSE) = 0
      BY BTypes DEF B
    <2> QED BY <2>1, <2>2, <2>3, CountTypes DEF Count, B
  <1>5. /\ block_threshold > 0 => half_open[ip] < block_threshold
        /\ init_limit_half_open > 0 => total < init_limit_half_open
    <2>1. half_open[ip] \in Int /\ total \in Int
      BY <1>1 DEF BooksInv, TypeOK
    <2> QED BY <2>1, BookTypes DEF Receive, drop_ike_sa_init
  <1>6. Counts' /\ LimitsKept' /\ half_open' \in [Ips -> Nat] /\ total' \in Nat
    <2>1. \A S \in SUBSET Ips :
             /\ Count(S)' = Count(S) + B(ip \in S)
             /\ Cardinality(Moving(S)') = Cardinality(Moving(S)) - B(FALSE /\ ip \in S)
      BY <1>4 DEF B
    <2> HIDE DEF ip
    <2> QED BY <1>1, <1>5, <2>1, BooksMore
  <1>7. ThreadsSound' /\ OneHolds' /\ EntriesKnown' /\ HashesKnown'
    BY <1>1 DEF BooksInv, ThreadsSound, Owes, Holding, Using, Holds, Uses, OneHolds, EntriesKnown,
                HashesKnown
  <1>8. TypeOK'
    BY <1>1, <1>2, <1>3, <1>6 DEF TypeOK
  <1> QED BY <1>6, <1>7, <1>8 DEF BooksInv

\* Checking the limit of IKE_SAs.
LEMMA CheckLimitKeeps ==
    ASSUME BooksInv, NEW t \in Threads, CheckLimit(t)
    PROVE  BooksInv'
  <1>1. PICK p \in {"put", "unhash"} : Goto(t, p)
    BY DEF CheckLimit
  <1> DEFINE r == [thread[t] EXCEPT !.pc = p]
  <1>2. /\ r \in ThreadRec /\ r.pc = p /\ r.owed = thread[t].owed /\ r.spi = thread[t].spi
        /\ r.init = thread[t].init
    <2>1. thread[t] \in ThreadRec /\ p \in Pcs /\ NoIp \in Ips \cup {NoIp}
      BY Parts DEF Pcs
    <2> QED BY <2>1, GotoType
  <1>3. /\ thread[t].pc = "limit" /\ thread' = [thread EXCEPT ![t] = r]
        /\ UNCHANGED <<queue, half_open, total, init_hashes, entries, moves>>
    BY <1>1, Parts DEF CheckLimit, At, Goto, Counted
  <1> HIDE DEF r
  <1>4. thread'[t] = r
    BY <1>2, <1>3, Parts
  <1>5. ThreadChange(t)
    BY <1>2, <1>3, <1>4, Parts DEF ThreadChange, Owes, Holding, Using, Holds, Uses
  <1> QED BY <1>2, <1>3, <1>5, ControlKeeps

\* An initial message that gets no IKE_SA is not counted any more.
LEMMA UntrackOfThread ==
    ASSUME BooksInv, NEW t \in Threads, Untrack(t)
    PROVE  BooksInv'
  <1>1. /\ thread[t].pc = "untrack" /\ thread' = [thread EXCEPT ![t] = Idle]
        /\ remove_half_open(thread[t].owed) /\ UNCHANGED <<queue, init_hashes, entries, moves>>
    BY DEF Untrack, At, Done
  <1>2. thread'[t] = Idle /\ thread[t].owed \in Ips
    BY <1>1, Parts DEF Owes
  <1>3. ThreadChange(t)
    BY <1>1, <1>2, IdleType DEF ThreadChange, Owes, Holding, Using, Holds, Uses
  <1> QED BY <1>1, <1>2, <1>3, IdleType, UntrackKeeps

\* A retransmit is not counted any more.
LEMMA UntrackDuplicateKeeps ==
    ASSUME BooksInv, NEW t \in Threads, UntrackDuplicate(t)
    PROVE  BooksInv'
  <1> DEFINE r == [thread[t] EXCEPT !.pc = "lookup", !.owed = NoIp]
  <1>1. /\ r \in ThreadRec /\ r.pc = "lookup" /\ r.owed = NoIp /\ r.spi = thread[t].spi
    <2>1. thread[t] \in ThreadRec /\ "lookup" \in Pcs /\ NoIp \in Ips \cup {NoIp}
      BY Parts DEF Pcs
    <2> QED BY <2>1 DEF ThreadRec
  <1>2. /\ thread[t].pc = "duplicate" /\ thread' = [thread EXCEPT ![t] = r]
        /\ remove_half_open(thread[t].owed) /\ UNCHANGED <<queue, init_hashes, entries, moves>>
    BY Parts DEF UntrackDuplicate, At
  <1> HIDE DEF r
  <1>3. thread'[t] = r /\ thread[t].owed \in Ips
    BY <1>1, <1>2, Parts DEF Owes
  <1>4. ThreadChange(t)
    BY <1>1, <1>2, <1>3, Parts DEF ThreadChange, Owes, Holding, Using, Holds, Uses
  <1> QED BY <1>1, <1>2, <1>3, <1>4, UntrackKeeps

\* A later message, or a timeout, is to be processed.
LEMMA StartJobKeeps ==
    ASSUME BooksInv, NEW t \in Threads, NEW job, NEW s \in Spis, StartJob(t, job, s)
    PROVE  BooksInv'
  <1> DEFINE r == [Idle EXCEPT !.pc = "lookup", !.job = job, !.spi = s]
  <1>1. r \in ThreadRec /\ r.pc = "lookup" /\ r.owed = NoIp /\ r.spi = s
    BY DEF Idle, ThreadRec, Pcs, StartJob
  <1>2. /\ thread[t].pc = "idle" /\ thread' = [thread EXCEPT ![t] = r]
        /\ UNCHANGED <<queue, half_open, total, init_hashes, entries, moves>>
    BY DEF StartJob, At, Counted
  <1> HIDE DEF r
  <1>3. thread'[t] = r /\ thread[t].owed = NoIp
    BY <1>1, <1>2, Parts DEF Owes
  <1>4. ThreadChange(t)
    BY <1>1, <1>2, <1>3, Parts DEF ThreadChange, Owes, Holding, Using, Holds, Uses
  <1> QED BY <1>1, <1>2, <1>3, <1>4, ControlKeeps

\* A destroyed IKE_SA that was half open is not counted any more.
LEMMA UncountKeeps ==
    ASSUME BooksInv, NEW t \in Threads, Uncount(t)
    PROVE  BooksInv'
  <1> DEFINE r == [thread[t] EXCEPT !.pc = "forget", !.owed = NoIp]
  <1>1. /\ r \in ThreadRec /\ r.pc = "forget" /\ r.owed = NoIp /\ r.spi = thread[t].spi
        /\ r.init = thread[t].init
    <2>1. thread[t] \in ThreadRec /\ "forget" \in Pcs /\ NoIp \in Ips \cup {NoIp}
      BY Parts DEF Pcs
    <2> QED BY <2>1 DEF ThreadRec
  <1>2. /\ thread[t].pc = "uncount" /\ thread' = [thread EXCEPT ![t] = r]
        /\ UNCHANGED <<queue, init_hashes, entries, moves>>
    BY Parts DEF Uncount, At
  <1> HIDE DEF r
  <1>3. thread'[t] = r
    BY <1>1, <1>2, Parts
  <1>4. ThreadChange(t)
    BY <1>1, <1>2, <1>3, Parts DEF ThreadChange, Owes, Holding, Using, Holds, Uses
  <1>5. CASE thread[t].owed = NoIp
    <2>1. UNCHANGED <<half_open, total>>
      BY <1>5 DEF Uncount, Counted
    <2> QED BY <1>1, <1>2, <1>4, <1>5, <2>1, ControlKeeps
  <1>6. CASE thread[t].owed # NoIp
    <2>1. remove_half_open(thread[t].owed) /\ thread[t].owed \in Ips
      BY <1>6, Parts, ThreadFields DEF Uncount
    <2> QED BY <1>1, <1>2, <1>4, <2>1, UntrackKeeps
  <1> QED BY <1>5, <1>6

-----------------------------------------------------------------------------
(* The actions of a thread that change an entry.                           *)

\* A step of a thread and of an entry that together are counted as before.
LEMMA EntryKeeps ==
    ASSUME BooksInv, NEW t \in Threads, NEW r \in ThreadRec, thread' = [thread EXCEPT ![t] = r],
           NEW s \in Spis, NEW e \in EntryRec, entries' = [entries EXCEPT ![s] = e],
           UNCHANGED <<queue, half_open, total, init_hashes, moves>>,
           ThreadChange(t), EntryChange(t, s),
           \A S \in SUBSET Ips :
              /\ OwedTo(thread[t], S) + HalfAt(entries[s], S) = OwedTo(r, S) + HalfAt(e, S)
              /\ MovedTo(thread[t], S) = MovedTo(r, S)
    PROVE  BooksInv'
  <1>1. /\ thread' \in [Threads -> ThreadRec] /\ entries' \in [Spis -> EntryRec]
        /\ \A u \in Threads \ {t} : thread'[u] = thread[u]
        /\ \A x \in Spis : entries'[x] = entries[x] \/ EntryChange(t, x)
    BY Parts
  <1>2. ASSUME NEW S \in SUBSET Ips
        PROVE  Count(S)' = Count(S) /\ Cardinality(Moving(S)') = Cardinality(Moving(S))
    <2>1. /\ Count(S)' = Count(S) - OwedTo(thread[t], S) + OwedTo(r, S)
                          - HalfAt(entries[s], S) + HalfAt(e, S)
          /\ Cardinality(Moving(S)') = Cardinality(Moving(S)) - MovedTo(thread[t], S) + MovedTo(r, S)
      BY Parts, EntryStep
    <2>2. /\ OwedTo(thread[t], S) \in Int /\ OwedTo(r, S) \in Int
          /\ HalfAt(entries[s], S) \in Int /\ HalfAt(e, S) \in Int /\ MovedTo(r, S) \in Int
      BY BTypes
    <2> QED BY <2>1, <2>2, CountTypes
  <1>3. Counts' /\ LimitsKept'
    BY <1>2, BooksSame
  <1> QED BY <1>1, <1>3, Parts, BooksTogether

\* What the invariant says of a registered entry.
LEMMA KnownEntry ==
    ASSUME BooksInv, NEW s \in Spis
    PROVE  /\ entries[s] \in EntryRec
           /\ entries[s].state = "none" => entries[s] = NoEntry /\ ~entries[s].half
           /\ entries[s].state # "none" => /\ entries[s].other \in Ips /\ entries[s].init \in Inits
                                           /\ init_hashes[entries[s].init] = s
  BY TypeRecords, IdleType DEF BooksInv, EntriesKnown

\* Creating the entry of a new IKE_SA.
LEMMA PutEntryKeeps ==
    ASSUME BooksInv, NEW t \in Threads, PutEntry(t)
    PROVE  BooksInv'
  <1> DEFINE s == thread[t].spi
             e == [state |-> "created", half |-> TRUE, other |-> thread[t].owed,
                   init |-> thread[t].init, out |-> t, processing |-> TRUE, driveout |-> FALSE]
             r == [thread[t] EXCEPT !.pc = "use", !.owed = NoIp]
  <1>1. thread[t].pc = "put"
    BY DEF PutEntry, At
  <1>2. /\ thread[t].owed \in Ips /\ thread[t].init \in Inits /\ s \in Spis
        /\ init_hashes[thread[t].init] = s /\ entries[s].state = "none" /\ thread[t] \in ThreadRec
    BY <1>1, Parts DEF Owes, Holding, Holds
  <1>3. r \in ThreadRec /\ r.pc = "use" /\ r.owed = NoIp /\ r.spi = s
    <2>1. thread[t] \in ThreadRec /\ "use" \in Pcs /\ NoIp \in Ips \cup {NoIp}
      BY <1>2 DEF Pcs
    <2> QED BY <2>1 DEF ThreadRec
  <1>4. e \in EntryRec
    BY <1>2 DEF EntryRec
  <1>5. /\ e.state = "created" /\ e.half /\ e.other = thread[t].owed /\ e.init = thread[t].init
        /\ e.out = t
    OBVIOUS
  <1>6. /\ thread' = [thread EXCEPT ![t] = r] /\ entries' = [entries EXCEPT ![s] = e]
        /\ UNCHANGED <<queue, half_open, total, init_hashes, moves>>
    BY Parts DEF PutEntry, Counted
  <1> HIDE DEF r, e
  <1>7. thread'[t] = r /\ entries'[s] = e
    BY <1>2, <1>6, Parts
  <1>8. ~entries[s].half /\ entries[s].out = NoThread
    BY <1>2, KnownEntry DEF NoEntry
  <1>9. ThreadChange(t)
    BY <1>1, <1>2, <1>3, <1>5, <1>7 DEF ThreadChange, Owes, Holding, Using, Holds, Uses
  <1>10. EntryChange(t, s)
    BY <1>1, <1>2, <1>3, <1>5, <1>7, <1>8 DEF EntryChange, Holds
  <1>11. \A S \in SUBSET Ips :
            /\ OwedTo(thread[t], S) + HalfAt(entries[s], S) = OwedTo(r, S) + HalfAt(e, S)
            /\ MovedTo(thread[t], S) = MovedTo(r, S)
    BY <1>1, <1>2, <1>3, <1>5, <1>8, SetsAssumption DEF OwedTo, HalfAt, MovedTo, B
  <1> HIDE DEF s
  <1> QED BY <1>2, <1>3, <1>4, <1>6, <1>9, <1>10, <1>11, EntryKeeps, ZenonT(60)

\* A thread that is done without having changed anything.
LEMMA DoneKeeps ==
    ASSUME BooksInv, NEW t \in Threads, thread[t].pc \in {"lookup", "wait"}, Done(t),
           UNCHANGED <<queue, half_open, total, init_hashes, entries, moves>>
    PROVE  BooksInv'
  <1>1. thread' = [thread EXCEPT ![t] = Idle] /\ thread'[t] = Idle /\ thread[t].owed = NoIp
    BY Parts DEF Done, Owes
  <1>2. ThreadChange(t)
    BY <1>1, IdleType DEF ThreadChange, Owes, Holding, Using, Holds, Uses
  <1> QED BY <1>1, <1>2, IdleType, ControlKeeps

\* Checking out an entry that is free.
LEMMA TakeKeeps ==
    ASSUME BooksInv, NEW t \in Threads, thread[t].pc \in {"lookup", "wait"},
           thread[t].spi \in Spis, entries[thread[t].spi].state # "none",
           entries[thread[t].spi].out = NoThread, Take(t, thread[t].spi),
           UNCHANGED <<queue, half_open, total, init_hashes, moves>>
    PROVE  BooksInv'
  <1> DEFINE s == thread[t].spi
             b == thread[t].job = "init"
             e == [entries[s] EXCEPT !.out = t, !.processing = b]
             r == [thread[t] EXCEPT !.pc = "use"]
  <1>1. thread[t] \in ThreadRec /\ entries[s] \in EntryRec /\ thread[t].owed = NoIp
    BY Parts, KnownEntry DEF Owes
  <1>2. r \in ThreadRec /\ r.pc = "use" /\ r.owed = NoIp /\ r.spi = s
    BY <1>1 DEF ThreadRec, Pcs
  <1>3. /\ e \in EntryRec /\ e.state = entries[s].state /\ e.half = entries[s].half
        /\ e.other = entries[s].other /\ e.init = entries[s].init /\ e.out = t
    BY <1>1 DEF EntryRec
  <1>4. thread' = [thread EXCEPT ![t] = r] /\ entries' = [entries EXCEPT ![s] = e]
    BY Parts DEF Take, Goto
  <1> HIDE DEF r, e
  <1>5. thread'[t] = r /\ entries'[s] = e
    BY <1>4, Parts
  <1>6. ThreadChange(t)
    BY <1>1, <1>2, <1>3, <1>5 DEF ThreadChange, Owes, Holding, Using, Holds, Uses
  <1>7. EntryChange(t, s)
    BY <1>3, <1>5, KnownEntry DEF EntryChange
  <1>8. \A S \in SUBSET Ips :
           /\ OwedTo(thread[t], S) + HalfAt(entries[s], S) = OwedTo(r, S) + HalfAt(e, S)
           /\ MovedTo(thread[t], S) = MovedTo(r, S)
    BY <1>1, <1>2, <1>3 DEF OwedTo, HalfAt, MovedTo
  <1>9. s \in Spis /\ r \in ThreadRec /\ e \in EntryRec
    BY <1>2, <1>3
  <1> HIDE DEF s
  <1> QED BY <1>4, <1>6, <1>7, <1>8, <1>9, EntryKeeps

\* Looking an entry up.
LEMMA LookupKeeps ==
    ASSUME BooksInv, NEW t \in Threads, Lookup(t)
    PROVE  BooksInv'
  <1> DEFINE s == thread[t].spi
  <1>1. /\ thread[t].pc = "lookup" /\ UNCHANGED <<queue, half_open, total, init_hashes, moves>>
    BY DEF Lookup, At, Counted
  <1>2. s \in Spis /\ thread[t].owed = NoIp /\ thread[t] \in ThreadRec
    BY <1>1, Parts DEF Using, Owes
  <1>3. CASE Done(t) /\ UNCHANGED entries
    BY <1>1, <1>3, DoneKeeps
  <1>4. CASE s \in Registered /\ entries[s].out = NoThread /\ Take(t, s)
    <2>1. entries[s].state # "none"
      BY <1>4 DEF Registered
    <2> QED BY <1>1, <1>2, <1>4, <2>1, TakeKeeps
  <1>5. CASE s \in Registered /\ Goto(t, "wait") /\ UNCHANGED entries
    <2> DEFINE r == [thread[t] EXCEPT !.pc = "wait"]
    <2>1. r \in ThreadRec /\ r.pc = "wait" /\ r.owed = NoIp /\ r.spi = s
      BY <1>2 DEF ThreadRec, Pcs
    <2>2. thread' = [thread EXCEPT ![t] = r]
      BY <1>5, Parts DEF Goto
    <2> HIDE DEF r
    <2>3. thread'[t] = r /\ entries[s].state # "none"
      BY <1>5, <2>2, Parts DEF Registered
    <2>4. ThreadChange(t)
      BY <1>1, <1>2, <1>5, <2>1, <2>3 DEF ThreadChange, Owes, Holding, Using, Holds, Uses
    <2> QED BY <1>1, <1>2, <1>5, <2>1, <2>2, <2>4, ControlKeeps
  <1> QED BY <1>3, <1>4, <1>5 DEF Lookup

\* A waiting thread has its turn.
LEMMA TurnKeeps ==
    ASSUME BooksInv, NEW t \in Threads, Turn(t)
    PROVE  BooksInv'
  <1> DEFINE s == thread[t].spi
  <1>1. /\ thread[t].pc = "wait" /\ UNCHANGED <<queue, half_open, total, init_hashes, moves>>
    BY DEF Turn, At, Counted
  <1>2. s \in Spis /\ entries[s].state # "none"
    BY <1>1, Parts DEF Using
  <1>3. CASE Done(t) /\ UNCHANGED entries
    BY <1>1, <1>3, DoneKeeps
  <1>4. CASE entries[s].out = NoThread /\ Take(t, s)
    BY <1>1, <1>2, <1>4, TakeKeeps
  <1> QED BY <1>3, <1>4 DEF Turn

\* An IKE_SA is on its way to another address: it is not counted for the old one any
\* more, and its move lets the limits be exceeded by one.
LEMMA BooksMoved ==
    ASSUME BooksInv, NEW old \in Ips, NEW ip \in Ips, remove_half_open(old), moves' = moves + 1,
           \A S \in SUBSET Ips :
              /\ Count(S)' = Count(S) - B(old \in S)
              /\ Cardinality(Moving(S)') = Cardinality(Moving(S)) + B(ip \in S)
    PROVE  Counts' /\ LimitsKept' /\ half_open' \in [Ips -> Nat] /\ total' \in Nat
  <1>1. half_open \in [Ips -> Nat] /\ total \in Nat /\ moves \in Nat
    BY BookTypes DEF BooksInv, TypeOK
  <1>2. /\ \A a \in Ips : half_open'[a] = half_open[a] - B(old \in {a})
        /\ total' = total - 1 /\ half_open' \in [Ips -> Int]
    BY <1>1 DEF remove_half_open, B
  <1>3. /\ \A a \in Ips : half_open'[a] = Count({a})'
        /\ total' = Count(Ips)'
    <2>1. /\ \A a \in Ips : half_open[a] = Count({a})
          /\ total = Count(Ips)
      BY DEF BooksInv, Counts
    <2>2. ASSUME NEW a \in Ips
          PROVE  half_open'[a] = Count({a})'
      <3>1. Count({a})' = Count({a}) - B(old \in {a})
        BY BookTypes
      <3> QED BY <1>2, <2>1, <3>1
    <2>3. total' = Count(Ips)'
      <3>1. Count(Ips)' = Count(Ips) - 1
        BY BookTypes DEF B
      <3> QED BY <1>2, <2>1, <3>1
    <2> QED BY <2>2, <2>3
  <1>4. Counts'
    BY <1>3 DEF Counts
  <1>5. half_open' \in [Ips -> Nat] /\ total' \in Nat
    <2>1. Count(Ips)' \in Nat /\ \A a \in Ips : Count({a})' \in Nat
      BY CountTypes
    <2> QED BY <1>2, <1>3, <2>1
  <1>6. LimitsKept'
    <2>1. Cardinality(Moving(Ips)') <= moves'
      <3>1. Cardinality(Moving(Ips)) <= moves /\ Cardinality(Moving(Ips)) \in Nat
        BY CountTypes DEF BooksInv, LimitsKept
      <3>2. Cardinality(Moving(Ips)') = Cardinality(Moving(Ips)) + 1
        BY BookTypes DEF B
      <3> QED BY <1>1, <3>1, <3>2
    <2>2. ASSUME NEW a \in Ips PROVE Within({a}, half_open[a], block_threshold)'
      <3> DEFINE c == Cardinality(Moving({a}))
      <3>1. Cardinality(Moving({a})') = c + B(ip \in {a}) /\ c \in Nat
        BY CountTypes, BookTypes
      <3>2. block_threshold > 0 => half_open[a] + c <= block_threshold + moves
        BY DEF BooksInv, LimitsKept, Within
      <3>3. half_open'[a] = half_open[a] - B(old \in {a}) /\ half_open[a] \in Nat
        BY <1>1, <1>2
      <3> HIDE DEF c
      <3> QED BY <1>1, <3>1, <3>2, <3>3, BookTypes DEF Within, B
    <2>3. Within(Ips, total, init_limit_half_open)'
      <3> DEFINE c == Cardinality(Moving(Ips))
      <3>1. Cardinality(Moving(Ips)') = c + 1 /\ c \in Nat
        BY CountTypes, BookTypes DEF B
      <3>2. init_limit_half_open > 0 => total + c <= init_limit_half_open + moves
        BY DEF BooksInv, LimitsKept, Within
      <3> HIDE DEF c
      <3> QED BY <1>1, <1>2, <3>1, <3>2, BookTypes DEF Within
    <2> QED BY <2>1, <2>2, <2>3 DEF LimitsKept
  <1> QED BY <1>4, <1>5, <1>6

\* A step of a thread and of an entry that keeps the books in another way.
LEMMA EntryTogether ==
    ASSUME BooksInv, NEW t \in Threads, NEW r \in ThreadRec, thread' = [thread EXCEPT ![t] = r],
           NEW s \in Spis, NEW e \in EntryRec, entries' = [entries EXCEPT ![s] = e],
           UNCHANGED <<queue, init_hashes>>, ThreadChange(t), EntryChange(t, s),
           half_open' \in [Ips -> Nat], total' \in Nat, moves' \in 0..MaxMoves, Counts', LimitsKept'
    PROVE  BooksInv'
  <1>1. /\ thread' \in [Threads -> ThreadRec] /\ entries' \in [Spis -> EntryRec]
        /\ \A u \in Threads \ {t} : thread'[u] = thread[u]
        /\ \A x \in Spis : entries'[x] = entries[x] \/ EntryChange(t, x)
    BY Parts
  <1> QED BY <1>1, Parts, BooksTogether

\* What the invariant says of a thread and the entry it has checked out.
LEMMA InUse ==
    ASSUME BooksInv, NEW t \in Threads, Uses(t)
    PROVE  /\ thread[t].spi \in Spis /\ entries[thread[t].spi].state # "none"
           /\ entries[thread[t].spi].out = t /\ entries[thread[t].spi] \in EntryRec
           /\ entries[thread[t].spi].other \in Ips /\ entries[thread[t].spi].init \in Inits
           /\ init_hashes[entries[thread[t].spi].init] = thread[t].spi
  BY Parts, KnownEntry DEF Using

\* Checking in an IKE_SA that is not half open any more.
LEMMA CloseKeeps ==
    ASSUME BooksInv, NEW t \in Threads, thread[t].pc = "use", Checkin(t, "established"),
           entries[thread[t].spi].half, UNCHANGED <<queue, init_hashes, moves>>
    PROVE  BooksInv'
  <1> DEFINE s == thread[t].spi
             ip == entries[s].other
             e == [entries[s] EXCEPT !.state = "established", !.out = NoThread,
                                     !.processing = FALSE, !.half = FALSE]
  <1>1. /\ s \in Spis /\ entries[s].state # "none" /\ entries[s].out = t
        /\ entries[s] \in EntryRec /\ ip \in Ips /\ thread[t].owed = NoIp
    BY InUse, Parts DEF Uses, Owes
  <1>2. /\ e \in EntryRec /\ e.state = "established" /\ e.half = FALSE
        /\ e.other = ip /\ e.init = entries[s].init /\ e.out = NoThread
    BY <1>1 DEF EntryRec
  <1>3. thread' = [thread EXCEPT ![t] = Idle] /\ remove_half_open(ip)
    BY DEF Checkin, Done
  <1>4. entries' = [entries EXCEPT ![s] = e]
    BY <1>1, Parts DEF Checkin
  <1> HIDE DEF e
  <1>5. thread'[t] = Idle /\ entries'[s] = e
    BY <1>1, <1>3, <1>4, Parts
  <1>6. ThreadChange(t)
    BY <1>5, IdleType DEF ThreadChange, Owes, Holding, Using, Holds, Uses
  <1>7. EntryChange(t, s)
    BY <1>1, <1>2, <1>5 DEF EntryChange
  <1>8. ASSUME NEW S \in SUBSET Ips
        PROVE  Count(S)' = Count(S) - B(ip \in S) /\ Cardinality(Moving(S)') = Cardinality(Moving(S))
    <2>1. /\ Count(S)' = Count(S) - OwedTo(thread[t], S) + OwedTo(Idle, S)
                          - HalfAt(entries[s], S) + HalfAt(e, S)
          /\ Cardinality(Moving(S)') = Cardinality(Moving(S)) - MovedTo(thread[t], S) + MovedTo(Idle, S)
      <3> HIDE DEF s
      <3> QED BY <1>1, <1>2, <1>3, <1>4, IdleType, Parts, EntryStep
    <2>2. /\ OwedTo(thread[t], S) = 0 /\ OwedTo(Idle, S) = 0 /\ HalfAt(e, S) = 0
          /\ HalfAt(entries[s], S) = B(ip \in S)
          /\ MovedTo(thread[t], S) = 0 /\ MovedTo(Idle, S) = 0
      BY <1>1, <1>2, IdleType, SetsAssumption DEF OwedTo, MovedTo, HalfAt, B
    <2>3. B(ip \in S) \in Int
      BY BTypes
    <2> QED BY <2>1, <2>2, <2>3, CountTypes
  <1>9. Counts' /\ LimitsKept' /\ half_open' \in [Ips -> Nat] /\ total' \in Nat
    BY <1>1, <1>3, <1>8, BooksLess
  <1>10. s \in Spis /\ e \in EntryRec /\ Idle \in ThreadRec /\ moves' \in 0..MaxMoves
    BY <1>1, <1>2, IdleType, Parts
  <1> HIDE DEF s, ip
  <1> QED BY <1>3, <1>4, <1>6, <1>7, <1>9, <1>10, EntryTogether

\* Checking in an IKE_SA that is half open as before.
LEMMA CheckinKeeps ==
    ASSUME BooksInv, NEW t \in Threads, thread[t].pc = "use",
           NEW state \in {"connecting", "established"}, Checkin(t, state),
           entries[thread[t].spi].half => state = "connecting",
           UNCHANGED <<queue, init_hashes, moves>>
    PROVE  BooksInv'
  <1> DEFINE s == thread[t].spi
             closed == entries[s].half /\ state # "connecting"
             e == [entries[s] EXCEPT !.state = state, !.out = NoThread, !.processing = FALSE,
                                     !.half = @ /\ ~closed]
  <1>1. /\ s \in Spis /\ entries[s].state # "none" /\ entries[s].out = t
        /\ entries[s] \in EntryRec /\ entries[s].other \in Ips /\ thread[t].owed = NoIp
    BY InUse, Parts DEF Uses, Owes
  <1>2. /\ e \in EntryRec /\ e.state = state /\ e.half = entries[s].half
        /\ e.other = entries[s].other /\ e.init = entries[s].init /\ e.out = NoThread
    BY <1>1 DEF EntryRec
  <1>3. thread' = [thread EXCEPT ![t] = Idle] /\ UNCHANGED <<half_open, total>>
    BY DEF Checkin, Done, Counted
  <1>4. entries' = [entries EXCEPT ![s] = e]
    BY Parts DEF Checkin
  <1> HIDE DEF e
  <1>5. thread'[t] = Idle /\ entries'[s] = e
    BY <1>1, <1>3, <1>4, Parts
  <1>6. ThreadChange(t)
    BY <1>5, IdleType DEF ThreadChange, Owes, Holding, Using, Holds, Uses
  <1>7. EntryChange(t, s)
    BY <1>1, <1>2, <1>5 DEF EntryChange
  <1>8. \A S \in SUBSET Ips :
           /\ OwedTo(thread[t], S) + HalfAt(entries[s], S) = OwedTo(Idle, S) + HalfAt(e, S)
           /\ MovedTo(thread[t], S) = MovedTo(Idle, S)
    BY <1>1, <1>2, IdleType DEF OwedTo, HalfAt, MovedTo
  <1>9. s \in Spis /\ e \in EntryRec /\ Idle \in ThreadRec
    BY <1>1, <1>2, IdleType
  <1> HIDE DEF s
  <1> QED BY <1>3, <1>4, <1>6, <1>7, <1>8, <1>9, EntryKeeps

\* Checking in an IKE_SA whose address changed.
LEMMA CheckinMovedKeeps ==
    ASSUME BooksInv, NEW t \in Threads, thread[t].pc = "use", NEW ip \in Ips, CheckinMoved(t, ip),
           moves < MaxMoves, moves' = moves + 1, UNCHANGED <<queue, init_hashes>>
    PROVE  BooksInv'
  <1> DEFINE s == thread[t].spi
             old == entries[s].other
             e == [entries[s] EXCEPT !.state = "connecting", !.other = ip, !.half = FALSE]
             r == [thread[t] EXCEPT !.pc = "move", !.owed = ip]
  <1>1. /\ s \in Spis /\ entries[s].state # "none" /\ entries[s].out = t
        /\ entries[s] \in EntryRec /\ old \in Ips /\ thread[t].owed = NoIp /\ entries[s].half
    BY InUse, Parts DEF Uses, Owes, CheckinMoved
  <1>2. /\ e \in EntryRec /\ e.state = "connecting" /\ e.half = FALSE
        /\ e.other = ip /\ e.init = entries[s].init /\ e.out = t
    BY <1>1 DEF EntryRec
  <1>3. r \in ThreadRec /\ r.pc = "move" /\ r.owed = ip /\ r.spi = s
    <2>1. thread[t] \in ThreadRec /\ "move" \in Pcs
      BY Parts DEF Pcs
    <2> QED BY <2>1 DEF ThreadRec
  <1>4. /\ thread' = [thread EXCEPT ![t] = r] /\ entries' = [entries EXCEPT ![s] = e]
        /\ remove_half_open(old)
    BY Parts DEF CheckinMoved
  <1> HIDE DEF e, r
  <1>5. thread'[t] = r /\ entries'[s] = e
    BY <1>1, <1>4, Parts
  <1>6. ThreadChange(t)
    BY <1>1, <1>2, <1>3, <1>5 DEF ThreadChange, Owes, Holding, Using, Holds, Uses
  <1>7. EntryChange(t, s)
    BY <1>1, <1>2, <1>5 DEF EntryChange
  <1>8. ASSUME NEW S \in SUBSET Ips
        PROVE  /\ Count(S)' = Count(S) - B(old \in S)
               /\ Cardinality(Moving(S)') = Cardinality(Moving(S)) + B(ip \in S)
    <2>1. /\ Count(S)' = Count(S) - OwedTo(thread[t], S) + OwedTo(r, S)
                          - HalfAt(entries[s], S) + HalfAt(e, S)
          /\ Cardinality(Moving(S)') = Cardinality(Moving(S)) - MovedTo(thread[t], S) + MovedTo(r, S)
      <3> HIDE DEF s
      <3> QED BY <1>1, <1>2, <1>3, <1>4, Parts, EntryStep
    <2>2. /\ OwedTo(thread[t], S) = 0 /\ OwedTo(r, S) = 0 /\ HalfAt(e, S) = 0
          /\ HalfAt(entries[s], S) = B(old \in S)
          /\ MovedTo(thread[t], S) = 0 /\ MovedTo(r, S) = B(ip \in S)
      BY <1>1, <1>2, <1>3, SetsAssumption DEF OwedTo, MovedTo, HalfAt, B
    <2>3. B(ip \in S) \in Int /\ B(old \in S) \in Int
      BY BTypes
    <2> QED BY <2>1, <2>2, <2>3, CountTypes
  <1>9. Counts' /\ LimitsKept' /\ half_open' \in [Ips -> Nat] /\ total' \in Nat
    BY <1>1, <1>4, <1>8, BooksMoved
  <1>10. s \in Spis /\ e \in EntryRec /\ r \in ThreadRec /\ moves' \in 0..MaxMoves
    BY <1>1, <1>2, <1>3, Parts, BookTypes
  <1> HIDE DEF s, old
  <1> QED BY <1>4, <1>6, <1>7, <1>9, <1>10, EntryTogether

\* An IKE_SA is to be destroyed.
LEMMA DriveoutKeeps ==
    ASSUME BooksInv, NEW t \in Threads, thread[t].pc = "use", Driveout(t),
           UNCHANGED <<queue, init_hashes, moves>>
    PROVE  BooksInv'
  <1> DEFINE s == thread[t].spi
             e == [entries[s] EXCEPT !.driveout = TRUE]
             r == [thread[t] EXCEPT !.pc = "drive"]
  <1>1. /\ s \in Spis /\ entries[s].state # "none" /\ entries[s].out = t
        /\ entries[s] \in EntryRec /\ entries[s].other \in Ips /\ thread[t].owed = NoIp
    BY InUse, Parts DEF Uses, Owes
  <1>2. /\ e \in EntryRec /\ e.state = entries[s].state /\ e.half = entries[s].half
        /\ e.other = entries[s].other /\ e.init = entries[s].init /\ e.out = t
    BY <1>1 DEF EntryRec
  <1>3. r \in ThreadRec /\ r.pc = "drive" /\ r.owed = NoIp /\ r.spi = s
    <2>1. thread[t] \in ThreadRec /\ "drive" \in Pcs
      BY Parts DEF Pcs
    <2> QED BY <1>1, <2>1 DEF ThreadRec
  <1>4. /\ thread' = [thread EXCEPT ![t] = r] /\ entries' = [entries EXCEPT ![s] = e]
        /\ UNCHANGED <<half_open, total>>
    BY Parts DEF Driveout, Goto, Counted
  <1> HIDE DEF e, r
  <1>5. thread'[t] = r /\ entries'[s] = e
    BY <1>1, <1>4, Parts
  <1>6. ThreadChange(t)
    BY <1>1, <1>2, <1>3, <1>5 DEF ThreadChange, Owes, Holding, Using, Holds, Uses
  <1>7. EntryChange(t, s)
    BY <1>1, <1>2, <1>5 DEF EntryChange
  <1>8. \A S \in SUBSET Ips :
           /\ OwedTo(thread[t], S) + HalfAt(entries[s], S) = OwedTo(r, S) + HalfAt(e, S)
           /\ MovedTo(thread[t], S) = MovedTo(r, S)
    BY <1>1, <1>2, <1>3 DEF OwedTo, HalfAt, MovedTo
  <1>9. s \in Spis /\ e \in EntryRec /\ r \in ThreadRec
    BY <1>1, <1>2, <1>3
  <1> HIDE DEF s
  <1> QED BY <1>4, <1>6, <1>7, <1>8, <1>9, EntryKeeps

\* What processing makes of a registered IKE_SA.
LEMMA OutcomesType ==
    ASSUME NEW job, NEW old \in {"created", "connecting", "established"},
           NEW state \in Outcomes(job, old), state # "destroy"
    PROVE  state \in {"connecting", "established"}
  BY DEF Outcomes

\* A thread is done with an IKE_SA that it has checked out.
LEMMA FinishKeeps ==
    ASSUME BooksInv, NEW t \in Threads, Finish(t)
    PROVE  BooksInv'
  <1> DEFINE s == thread[t].spi
  <1>1. /\ thread[t].pc = "use" /\ UNCHANGED <<queue, init_hashes>>
        /\ moves' = moves + (IF thread'[t].pc = "move" THEN 1 ELSE 0)
    BY DEF Finish, At
  <1>2. /\ s \in Spis /\ entries[s].state \in {"created", "connecting", "established"}
        /\ moves \in Nat /\ thread \in [Threads -> ThreadRec]
    BY <1>1, InUse, Parts, EntryFields DEF Uses
  <1>3. PICK state \in Outcomes(thread[t].job, entries[s].state) :
            IF state = "destroy" THEN Driveout(t)
            ELSE \/ Checkin(t, state)
                 \/ moves < MaxMoves /\ \E ip \in Ips : CheckinMoved(t, ip)
    BY DEF Finish
  <1>4. CASE state = "destroy"
    <2>1. Driveout(t)
      BY <1>3, <1>4
    <2>2. thread'[t].pc = "drive"
      BY <1>2, <2>1 DEF Driveout, Goto, ThreadRec
    <2>3. moves' = moves
      BY <1>1, <1>2, <2>2
    <2> QED BY <1>1, <2>1, <2>3, DriveoutKeeps
  <1>5. CASE state # "destroy" /\ Checkin(t, state)
    <2>1. state \in {"connecting", "established"}
      BY <1>2, <1>5, OutcomesType
    <2>2. thread'[t].pc = "idle"
      BY <1>2, <1>5, IdleType DEF Checkin, Done
    <2>3. moves' = moves
      BY <1>1, <1>2, <2>2
    <2>4. CASE entries[s].half => state = "connecting"
      BY <1>1, <1>5, <2>1, <2>3, <2>4, CheckinKeeps
    <2>5. CASE entries[s].half /\ state # "connecting"
      <3>1. state = "established" /\ Checkin(t, "established")
        BY <1>5, <2>1, <2>5
      <3> QED BY <1>1, <2>3, <2>5, <3>1, CloseKeeps
    <2> QED BY <2>4, <2>5
  <1>6. CASE state # "destroy" /\ moves < MaxMoves /\ \E ip \in Ips : CheckinMoved(t, ip)
    <2>1. PICK ip \in Ips : CheckinMoved(t, ip)
      BY <1>6
    <2>2. thread'[t].pc = "move"
      BY <1>2, <2>1 DEF CheckinMoved, ThreadRec
    <2>3. moves' = moves + 1 /\ moves < MaxMoves
      BY <1>1, <1>6, <2>2
    <2> QED BY <1>1, <2>1, <2>3, CheckinMovedKeeps
  <1> QED BY <1>3, <1>4, <1>5, <1>6

\* An IKE_SA is counted for its new address.
LEMMA PutMovedKeeps ==
    ASSUME BooksInv, NEW t \in Threads, PutMoved(t)
    PROVE  BooksInv'
  <1> DEFINE s == thread[t].spi
             ip == thread[t].owed
             e == [entries[s] EXCEPT !.half = TRUE, !.out = NoThread, !.processing = FALSE]
  <1>1. /\ thread[t].pc = "move" /\ s \in Spis /\ entries[s].state # "none" /\ entries[s].out = t
        /\ entries[s] \in EntryRec /\ ip \in Ips /\ ~entries[s].half /\ entries[s].other = ip
    BY InUse, Parts DEF Uses, Owes, Using, PutMoved, At
  <1>2. /\ e \in EntryRec /\ e.state = entries[s].state /\ e.half = TRUE
        /\ e.other = ip /\ e.init = entries[s].init /\ e.out = NoThread
    BY <1>1 DEF EntryRec
  <1>3. /\ thread' = [thread EXCEPT ![t] = Idle] /\ put_half_open(ip)
        /\ entries' = [entries EXCEPT ![s] = e] /\ UNCHANGED <<queue, init_hashes, moves>>
    BY Parts DEF PutMoved, Done
  <1> HIDE DEF e
  <1>4. thread'[t] = Idle /\ entries'[s] = e
    BY <1>1, <1>3, Parts
  <1>5. ThreadChange(t)
    BY <1>1, <1>4, IdleType DEF ThreadChange, Owes, Holding, Using, Holds, Uses
  <1>6. EntryChange(t, s)
    BY <1>1, <1>2, <1>4 DEF EntryChange
  <1>7. ASSUME NEW S \in SUBSET Ips
        PROVE  /\ Count(S)' = Count(S) + B(ip \in S)
               /\ Cardinality(Moving(S)') = Cardinality(Moving(S)) - B(TRUE /\ ip \in S)
    <2>1. /\ Count(S)' = Count(S) - OwedTo(thread[t], S) + OwedTo(Idle, S)
                          - HalfAt(entries[s], S) + HalfAt(e, S)
          /\ Cardinality(Moving(S)') = Cardinality(Moving(S)) - MovedTo(thread[t], S) + MovedTo(Idle, S)
      <3> HIDE DEF s, ip
      <3> QED BY <1>1, <1>2, <1>3, IdleType, Parts, EntryStep
    <2>2. /\ OwedTo(thread[t], S) = 0 /\ OwedTo(Idle, S) = 0 /\ HalfAt(entries[s], S) = 0
          /\ HalfAt(e, S) = B(ip \in S)
          /\ MovedTo(thread[t], S) = B(TRUE /\ ip \in S) /\ MovedTo(Idle, S) = 0
      BY <1>1, <1>2, IdleType, SetsAssumption DEF OwedTo, MovedTo, HalfAt, B
    <2>3. B(ip \in S) \in Int /\ B(TRUE /\ ip \in S) \in Int
      BY BTypes
    <2> QED BY <2>1, <2>2, <2>3, CountTypes
  <1>8. Counts' /\ LimitsKept' /\ half_open' \in [Ips -> Nat] /\ total' \in Nat
    <2> HIDE DEF ip
    <2> QED BY <1>1, <1>3, <1>7, BooksMore
  <1>9. s \in Spis /\ e \in EntryRec /\ Idle \in ThreadRec /\ moves' \in 0..MaxMoves
    BY <1>1, <1>2, <1>3, IdleType, Parts
  <1> HIDE DEF s, ip
  <1> QED BY <1>3, <1>5, <1>6, <1>8, <1>9, EntryTogether

\* Removing the entry of a destroyed IKE_SA, which nobody waits for.
LEMMA RemoveEntryKeeps ==
    ASSUME BooksInv, NEW t \in Threads, RemoveEntry(t)
    PROVE  BooksInv'
  <1> DEFINE s == thread[t].spi
             owed == IF entries[s].half THEN entries[s].other ELSE NoIp
             r == [thread[t] EXCEPT !.pc = "uncount", !.init = entries[s].init, !.owed = owed]
  <1>1. /\ thread[t].pc = "drive" /\ s \in Spis /\ entries[s].state # "none" /\ entries[s].out = t
        /\ entries[s] \in EntryRec /\ entries[s].other \in Ips /\ entries[s].init \in Inits
        /\ init_hashes[entries[s].init] = s /\ thread[t].owed = NoIp /\ ~Waiting(s)
    BY InUse, Parts DEF Uses, Owes, RemoveEntry, At
  <1>2. r \in ThreadRec /\ r.pc = "uncount" /\ r.owed = owed /\ r.spi = s /\ r.init = entries[s].init
    <2>1. thread[t] \in ThreadRec /\ "uncount" \in Pcs
      BY Parts DEF Pcs
    <2>2. owed \in Ips \cup {NoIp} /\ entries[s].init \in Inits
      BY <1>1
    <2> HIDE DEF owed
    <2> QED BY <2>1, <2>2 DEF ThreadRec
  <1>3. /\ thread' = [thread EXCEPT ![t] = r] /\ entries' = [entries EXCEPT ![s] = NoEntry]
        /\ UNCHANGED <<queue, half_open, total, init_hashes, moves>>
    BY Parts DEF RemoveEntry, Counted
  <1> HIDE DEF r
  <1>4. thread'[t] = r /\ entries'[s] = NoEntry
    BY <1>1, <1>3, Parts
  <1>5. ThreadChange(t)
    BY <1>1, <1>2, <1>3, <1>4, IdleType DEF ThreadChange, Owes, Holding, Using, Holds, Uses
  <1>6. EntryChange(t, s)
    BY <1>1, <1>2, <1>4, IdleType DEF EntryChange, Holds
  <1>7. \A S \in SUBSET Ips :
           /\ OwedTo(thread[t], S) + HalfAt(entries[s], S) = OwedTo(r, S) + HalfAt(NoEntry, S)
           /\ MovedTo(thread[t], S) = MovedTo(r, S)
    BY <1>1, <1>2, IdleType, SetsAssumption DEF OwedTo, HalfAt, MovedTo, B
  <1>8. s \in Spis /\ NoEntry \in EntryRec /\ r \in ThreadRec
    BY <1>1, <1>2, IdleType
  <1> HIDE DEF s
  <1> QED BY <1>3, <1>5, <1>6, <1>7, <1>8, EntryKeeps

-----------------------------------------------------------------------------
(* The actions that store or remove a hash.                                *)

\* A queued message is taken by a thread, which is counted for it from then on.
LEMMA TakeMessageBooks ==
    ASSUME BooksInv, NEW t \in Threads, NEW m \in Inits, thread[t].pc = "idle", queue[m] > 0,
           queue' = [queue EXCEPT ![m] = @ - 1], NEW r \in ThreadRec, r.owed = Source[m],
           r.pc # "move", thread' = [thread EXCEPT ![t] = r],
           UNCHANGED <<half_open, total, entries, moves>>
    PROVE  /\ Counts' /\ LimitsKept' /\ queue' \in [Inits -> 0..MaxJobs]
           /\ thread' \in [Threads -> ThreadRec] /\ thread'[t] = r
           /\ \A u \in Threads \ {t} : thread'[u] = thread[u]
  <1>1. /\ thread' \in [Threads -> ThreadRec] /\ thread'[t] = r
        /\ \A u \in Threads \ {t} : thread'[u] = thread[u]
    BY Parts
  <1>2. /\ queue' \in [Inits -> 0..MaxJobs] /\ queue'[m] = queue[m] - 1 /\ queue[m] \in Int
    BY Parts, BookTypes
  <1>3. ASSUME NEW S \in SUBSET Ips
        PROVE  Count(S)' = Count(S) /\ Cardinality(Moving(S)') = Cardinality(Moving(S))
    <2>1. Cardinality(Queued(S)') = IF Source[m] \in S THEN Cardinality(Queued(S)) + queue'[m] - queue[m]
                                    ELSE Cardinality(Queued(S))
      BY Parts, QueueStep
    <2>2. /\ Cardinality(Moving(S)') = Cardinality(Moving(S)) - MovedTo(thread[t], S) + MovedTo(r, S)
          /\ Cardinality(Owing(S)') = Cardinality(Owing(S)) - OwedTo(thread[t], S) + OwedTo(r, S)
          /\ Cardinality(HalfOpens(S)') = Cardinality(HalfOpens(S))
      BY Parts, ThreadStep
    <2>3. thread[t].owed = NoIp /\ NoIp \notin S
      BY Parts, SetsAssumption DEF Owes
    <2>4. /\ MovedTo(thread[t], S) = 0 /\ MovedTo(r, S) = 0 /\ OwedTo(thread[t], S) = 0
          /\ OwedTo(r, S) = IF Source[m] \in S THEN 1 ELSE 0
      BY <2>3 DEF MovedTo, OwedTo, B
    <2> QED BY <1>2, <2>1, <2>2, <2>4, CountTypes DEF Count
  <1>4. Counts' /\ LimitsKept'
    BY <1>3, BooksSame
  <1> QED BY <1>1, <1>2, <1>4

\* Storing the hash of a message with a new SPI.
LEMMA StoreHashKeeps ==
    ASSUME BooksInv, NEW t \in Threads, NEW m \in Inits, NEW s \in Spis, thread[t].pc = "idle",
           init_hashes[m] = NoSpi, Fresh(s), init_hashes' = [init_hashes EXCEPT ![m] = s],
           thread'[t].pc = "limit", thread'[t].init = m, thread'[t].spi = s, thread'[t].owed \in Ips,
           \A u \in Threads \ {t} : thread'[u] = thread[u], UNCHANGED entries
    PROVE  ThreadsSound' /\ OneHolds' /\ EntriesKnown' /\ HashesKnown'
  <1>1. /\ init_hashes \in [Inits -> Spis \cup {NoSpi}] /\ ThreadsSound /\ OneHolds
        /\ EntriesKnown /\ HashesKnown /\ NoSpi \notin Spis /\ entries \in [Spis -> EntryRec]
    BY TypeRecords, SetsAssumption DEF BooksInv
  <1>2. /\ init_hashes'[m] = s /\ \A n \in Inits \ {m} : init_hashes'[n] = init_hashes[n]
        /\ entries[s].state = "none" /\ \A u \in Threads : thread[u].spi # s
    BY <1>1 DEF Fresh, Registered
  <1>3. Owes(t)' /\ Holding(t)' /\ Using(t)'
    BY <1>2 DEF Owes, Holding, Using, Holds, Uses
  <1>4. ASSUME NEW u \in Threads \ {t} PROVE Owes(u)' /\ Holding(u)' /\ Using(u)'
    <2>1. Owes(u) /\ Holding(u) /\ Using(u) /\ thread'[u] = thread[u]
      BY <1>1 DEF ThreadsSound
    <2>2. Holds(u) => thread[u].init # m /\ thread[u].init \in Inits
      BY <1>1, <2>1 DEF Holding
    <2> QED BY <1>2, <2>1, <2>2 DEF Owes, Holding, Using, Holds, Uses
  <1>5. ThreadsSound'
    BY <1>3, <1>4 DEF ThreadsSound
  <1>6. OneHolds'
    BY <1>1, <1>2 DEF OneHolds, Holds
  <1>7. EntriesKnown'
    BY <1>1, <1>2 DEF EntriesKnown
  <1>8. HashesKnown'
    <2> SUFFICES ASSUME NEW n \in Inits, init_hashes'[n] # NoSpi
                 PROVE  \/ entries[init_hashes'[n]].state # "none" /\ entries[init_hashes'[n]].init = n
                        \/ \E u \in Threads : Holds(u)' /\ thread'[u].spi = init_hashes'[n]
                                              /\ thread'[u].init = n
      BY DEF HashesKnown
    <2>1. CASE n = m
      BY <1>2, <2>1 DEF Holds
    <2>2. CASE n # m
      <3>1. init_hashes'[n] = init_hashes[n]
        BY <1>2, <2>2
      <3>2. CASE entries[init_hashes[n]].state # "none" /\ entries[init_hashes[n]].init = n
        BY <3>1, <3>2
      <3>3. CASE \E u \in Threads : Holds(u) /\ thread[u].spi = init_hashes[n] /\ thread[u].init = n
        <4>1. PICK u \in Threads : Holds(u) /\ thread[u].spi = init_hashes[n] /\ thread[u].init = n
          BY <3>3
        <4>2. u # t
          BY <4>1 DEF Holds
        <4> QED BY <3>1, <4>1, <4>2 DEF Holds
      <3> QED BY <1>1, <3>1, <3>2, <3>3 DEF HashesKnown
    <2> QED BY <2>1, <2>2
  <1> QED BY <1>5, <1>6, <1>7, <1>8

\* A thread takes an initial message and looks up its hash.
LEMMA ProcessInitKeeps ==
    ASSUME BooksInv, NEW t \in Threads, NEW m \in Inits, ProcessInit(t, m)
    PROVE  BooksInv'
  <1> DEFINE R(pc, s) == [pc |-> pc, job |-> "init", init |-> m, spi |-> s, owed |-> Source[m]]
  <1>1. /\ thread[t].pc = "idle" /\ queue[m] > 0 /\ queue' = [queue EXCEPT ![m] = @ - 1]
        /\ UNCHANGED <<half_open, total, entries, moves>> /\ check_and_put_init_hash(t, m)
    BY DEF ProcessInit, At, Counted
  <1>2. ASSUME NEW pc \in Pcs, NEW s \in Spis \cup {NoSpi}
        PROVE  /\ R(pc, s) \in ThreadRec /\ R(pc, s).pc = pc /\ R(pc, s).owed = Source[m]
               /\ R(pc, s).spi = s /\ R(pc, s).init = m /\ Source[m] \in Ips
    BY SourceAssumption DEF ThreadRec
  <1>3. /\ init_hashes \in [Inits -> Spis \cup {NoSpi}] /\ half_open \in [Ips -> Nat] /\ total \in Nat
        /\ moves \in 0..MaxMoves /\ entries \in [Spis -> EntryRec]
    BY Parts
  <1>4. ASSUME NEW pc \in {"duplicate", "untrack"}, NEW s \in Spis \cup {NoSpi},
               pc = "duplicate" => s \in Spis,
               thread' = [thread EXCEPT ![t] = R(pc, s)], UNCHANGED init_hashes
        PROVE  BooksInv'
    <2> DEFINE r == R(pc, s)
    <2>1. r \in ThreadRec /\ r.pc = pc /\ r.owed = Source[m] /\ r.spi = s /\ Source[m] \in Ips
      <3>1. pc \in Pcs
        BY DEF Pcs
      <3> QED BY <1>2, <3>1
    <2>2. thread' = [thread EXCEPT ![t] = r]
      BY <1>4
    <2> HIDE DEF r, R
    <2>3. /\ Counts' /\ LimitsKept' /\ queue' \in [Inits -> 0..MaxJobs]
          /\ thread' \in [Threads -> ThreadRec] /\ thread'[t] = r
          /\ \A u \in Threads \ {t} : thread'[u] = thread[u]
      BY <1>1, <2>1, <2>2, TakeMessageBooks
    <2>4. ThreadChange(t)
      BY <1>1, <1>4, <2>1, <2>3 DEF ThreadChange, Owes, Holding, Using, Holds, Uses
    <2> QED BY <1>1, <1>3, <1>4, <2>3, <2>4, BooksTogether
  <1>5. CASE init_hashes[m] # NoSpi
    <2>1. /\ thread' = [thread EXCEPT ![t] = R("duplicate", init_hashes[m])] /\ UNCHANGED init_hashes
          /\ init_hashes[m] \in Spis
      BY <1>1, <1>3, <1>5 DEF check_and_put_init_hash
    <2> HIDE DEF R
    <2> QED BY <1>4, <2>1
  <1>6. CASE init_hashes[m] = NoSpi /\ thread' = [thread EXCEPT ![t] = R("untrack", NoSpi)]
             /\ UNCHANGED init_hashes
    <2> HIDE DEF R
    <2> QED BY <1>4, <1>6
  <1>7. ASSUME NEW s \in Spis, init_hashes[m] = NoSpi, Fresh(s),
               thread' = [thread EXCEPT ![t] = R("limit", s)],
               init_hashes' = [init_hashes EXCEPT ![m] = s]
        PROVE  BooksInv'
    <2> DEFINE r == R("limit", s)
    <2>1. /\ r \in ThreadRec /\ r.pc = "limit" /\ r.owed = Source[m] /\ r.spi = s /\ r.init = m
          /\ Source[m] \in Ips
      <3>1. "limit" \in Pcs
        BY DEF Pcs
      <3> QED BY <1>2, <3>1
    <2>2. thread' = [thread EXCEPT ![t] = r]
      BY <1>7
    <2> HIDE DEF r, R
    <2>3. /\ Counts' /\ LimitsKept' /\ queue' \in [Inits -> 0..MaxJobs]
          /\ thread' \in [Threads -> ThreadRec] /\ thread'[t] = r
          /\ \A u \in Threads \ {t} : thread'[u] = thread[u]
      BY <1>1, <2>1, <2>2, TakeMessageBooks
    <2>4. ThreadsSound' /\ OneHolds' /\ EntriesKnown' /\ HashesKnown'
      BY <1>1, <1>7, <2>1, <2>3, StoreHashKeeps
    <2>5. TypeOK'
      <3>1. init_hashes' \in [Inits -> Spis \cup {NoSpi}]
        BY <1>3, <1>7
      <3> QED BY <1>1, <1>3, <2>3, <3>1 DEF TypeOK, EntryRec, ThreadRec
    <2> QED BY <2>3, <2>4, <2>5 DEF BooksInv
  <1>8. CASE init_hashes[m] = NoSpi
    <2>1. \/ \E s \in Spis : /\ Fresh(s) /\ thread' = [thread EXCEPT ![t] = R("limit", s)]
                             /\ init_hashes' = [init_hashes EXCEPT ![m] = s]
          \/ thread' = [thread EXCEPT ![t] = R("untrack", NoSpi)] /\ UNCHANGED init_hashes
      BY <1>1, <1>8 DEF check_and_put_init_hash
    <2> HIDE DEF R
    <2> QED BY <1>6, <1>7, <1>8, <2>1
  <1> QED BY <1>5, <1>8

\* The thread that is responsible for a hash removes it.
LEMMA DropHashKeeps ==
    ASSUME BooksInv, NEW t \in Threads, Holds(t), NEW r \in ThreadRec,
           thread' = [thread EXCEPT ![t] = r], remove_init_hash(thread[t].init),
           r.owed = thread[t].owed, \/ r.pc = "untrack" /\ r.owed \in Ips
                                    \/ r.pc = "idle" /\ r.owed = NoIp,
           UNCHANGED <<queue, half_open, total, entries, moves>>
    PROVE  BooksInv'
  <1> DEFINE i == thread[t].init
  <1>1. /\ init_hashes \in [Inits -> Spis \cup {NoSpi}] /\ ThreadsSound /\ OneHolds
        /\ EntriesKnown /\ HashesKnown /\ NoSpi \notin Spis
    BY SetsAssumption DEF BooksInv, TypeOK
  <1>2. /\ i \in Inits /\ thread[t].spi \in Spis /\ init_hashes[i] = thread[t].spi
        /\ entries[thread[t].spi].state = "none" /\ thread[t].pc # "move"
    BY <1>1 DEF ThreadsSound, Holding, Holds
  <1>3. /\ init_hashes'[i] = NoSpi /\ \A n \in Inits \ {i} : init_hashes'[n] = init_hashes[n]
        /\ init_hashes' \in [Inits -> Spis \cup {NoSpi}]
    BY <1>1, <1>2 DEF remove_init_hash
  <1>4. /\ thread' \in [Threads -> ThreadRec] /\ thread'[t] = r
        /\ \A u \in Threads \ {t} : thread'[u] = thread[u]
    BY Parts
  <1>5. Owes(t)' /\ Holding(t)' /\ Using(t)' /\ ~Holds(t)'
    BY <1>4 DEF Owes, Holding, Using, Holds, Uses
  <1>6. ASSUME NEW u \in Threads \ {t} PROVE Owes(u)' /\ Holding(u)' /\ Using(u)'
    <2>1. Owes(u) /\ Holding(u) /\ Using(u) /\ thread'[u] = thread[u]
      BY <1>1, <1>4 DEF ThreadsSound
    <2>2. Holds(u) => thread[u].init # i /\ thread[u].init \in Inits
      BY <1>1, <1>2, <2>1 DEF Holding, OneHolds
    <2> QED BY <1>3, <2>1, <2>2 DEF Owes, Holding, Using, Holds, Uses
  <1>7. ThreadsSound'
    BY <1>5, <1>6 DEF ThreadsSound
  <1>8. OneHolds'
    BY <1>1, <1>4, <1>5 DEF OneHolds, Holds
  <1>9. EntriesKnown'
    BY <1>1, <1>2, <1>3 DEF EntriesKnown
  <1>10. HashesKnown'
    <2> SUFFICES ASSUME NEW n \in Inits, init_hashes'[n] # NoSpi
                 PROVE  \/ entries[init_hashes'[n]].state # "none" /\ entries[init_hashes'[n]].init = n
                        \/ \E u \in Threads : Holds(u)' /\ thread'[u].spi = init_hashes'[n]
                                              /\ thread'[u].init = n
      BY DEF HashesKnown
    <2>1. n # i /\ init_hashes'[n] = init_hashes[n]
      BY <1>3
    <2>2. CASE entries[init_hashes[n]].state # "none" /\ entries[init_hashes[n]].init = n
      BY <2>1, <2>2
    <2>3. CASE \E u \in Threads : Holds(u) /\ thread[u].spi = init_hashes[n] /\ thread[u].init = n
      <3>1. PICK u \in Threads : Holds(u) /\ thread[u].spi = init_hashes[n] /\ thread[u].init = n
        BY <2>3
      <3>2. u # t
        BY <2>1, <3>1
      <3> QED BY <1>4, <2>1, <3>1, <3>2 DEF Holds
    <2> QED BY <1>1, <2>1, <2>2, <2>3 DEF HashesKnown
  <1>11. ASSUME NEW S \in SUBSET Ips
         PROVE  Count(S)' = Count(S) /\ Cardinality(Moving(S)') = Cardinality(Moving(S))
    <2>1. /\ Count(S)' = Count(S) - OwedTo(thread[t], S) + OwedTo(r, S)
          /\ Cardinality(Moving(S)') = Cardinality(Moving(S)) - MovedTo(thread[t], S) + MovedTo(r, S)
      BY Parts, ThreadStep
    <2>2. OwedTo(thread[t], S) = OwedTo(r, S) /\ MovedTo(thread[t], S) = MovedTo(r, S)
      BY <1>2 DEF OwedTo, MovedTo
    <2>3. OwedTo(r, S) \in Int /\ MovedTo(r, S) \in Int
      BY BTypes
    <2> QED BY <2>1, <2>2, <2>3, CountTypes
  <1>12. Counts' /\ LimitsKept'
    BY <1>11, BooksSame
  <1>13. TypeOK'
    BY <1>3, <1>4, Parts DEF TypeOK, EntryRec, ThreadRec
  <1> QED BY <1>7, <1>8, <1>9, <1>10, <1>12, <1>13 DEF BooksInv

\* The hash of a message that gets no IKE_SA is removed.
LEMMA UnhashKeeps ==
    ASSUME BooksInv, NEW t \in Threads, Unhash(t)
    PROVE  BooksInv'
  <1> DEFINE r == [thread[t] EXCEPT !.pc = "untrack"]
  <1>1. r \in ThreadRec /\ r.pc = "untrack" /\ r.owed = thread[t].owed
    <2>1. thread[t] \in ThreadRec /\ "untrack" \in Pcs
      BY Parts DEF Pcs
    <2> QED BY <2>1 DEF ThreadRec
  <1>2. /\ thread[t].pc = "unhash" /\ thread' = [thread EXCEPT ![t] = r]
        /\ UNCHANGED <<queue, half_open, total, entries, moves>> /\ remove_init_hash(thread[t].init)
    BY Parts DEF Unhash, At, Goto, Counted
  <1>3. Holds(t) /\ thread[t].owed \in Ips
    BY <1>2, Parts DEF Holds, Owes
  <1> HIDE DEF r
  <1> QED BY <1>1, <1>2, <1>3, DropHashKeeps

\* The hash of a destroyed IKE_SA is removed.
LEMMA ForgetKeeps ==
    ASSUME BooksInv, NEW t \in Threads, Forget(t)
    PROVE  BooksInv'
  <1>1. /\ thread[t].pc = "forget" /\ thread' = [thread EXCEPT ![t] = Idle]
        /\ UNCHANGED <<queue, half_open, total, entries, moves>> /\ remove_init_hash(thread[t].init)
    BY DEF Forget, At, Done, Counted
  <1>2. Holds(t) /\ thread[t].owed = NoIp
    BY <1>1, Parts DEF Holds, Owes
  <1> QED BY <1>1, <1>2, IdleType, DropHashKeeps

-----------------------------------------------------------------------------
(* The theorems.                                                           *)

\* The invariant holds initially: nothing is counted.
LEMMA InitBooks == Init => BooksInv
  <1> SUFFICES ASSUME Init PROVE BooksInv
    OBVIOUS
  <1>1. TypeOK
    BY IdleType, BookTypes DEF Init, TypeOK, EntryRec, ThreadRec
  <1>2. /\ ThreadsSound /\ OneHolds
    BY IdleType DEF Init, ThreadsSound, Owes, Holding, Using, Holds, Uses, OneHolds
  <1>3. EntriesKnown /\ HashesKnown
    BY IdleType DEF Init, EntriesKnown, HashesKnown
  <1>4. \A S \in SUBSET Ips : Queued(S) = {} /\ Owing(S) = {} /\ HalfOpens(S) = {} /\ Moving(S) = {}
    <2> SUFFICES ASSUME NEW S \in SUBSET Ips
                 PROVE  Queued(S) = {} /\ Owing(S) = {} /\ HalfOpens(S) = {} /\ Moving(S) = {}
      OBVIOUS
    <2>1. Queued(S) = {}
      <3>1. ASSUME NEW j \in Inits \X (1..MaxJobs) PROVE ~(j[2] <= queue[j[1]])
        <4>1. j[1] \in Inits /\ j[2] \in 1..MaxJobs
          OBVIOUS
        <4>2. queue[j[1]] = 0
          BY <4>1 DEF Init
        <4> QED BY <4>1, <4>2, BookTypes
      <3> QED BY <3>1 DEF Queued
    <2>2. Owing(S) = {} /\ Moving(S) = {}
      BY IdleType, SetsAssumption DEF Init, Owing, Moving
    <2>3. HalfOpens(S) = {}
      BY IdleType DEF Init, HalfOpens
    <2> QED BY <2>1, <2>2, <2>3
  <1>5. Cardinality({}) = 0
    BY FS_EmptySet
  <1>6. \A S \in SUBSET Ips : Count(S) = 0 /\ Cardinality(Moving(S)) = 0
    BY <1>4, <1>5 DEF Count
  <1>7. Counts
    BY <1>6, BookTypes DEF Counts, Init
  <1>8. LimitsKept
    BY <1>6, BookTypes DEF LimitsKept, Within, Init
  <1> QED BY <1>1, <1>2, <1>3, <1>7, <1>8 DEF BooksInv

\* Every step keeps the invariant.
LEMMA NextBooks == BooksInv /\ [Next]_vars => BooksInv'
  <1> SUFFICES ASSUME BooksInv, [Next]_vars PROVE BooksInv'
    OBVIOUS
  <1>1. ASSUME NEW m \in Inits, Receive(m) PROVE BooksInv'
    BY <1>1, ReceiveKeeps
  <1>2. ASSUME NEW t \in Threads, Proceed(t) PROVE BooksInv'
    BY <1>2, CheckLimitKeeps, PutEntryKeeps, UnhashKeeps, UntrackOfThread, UntrackDuplicateKeeps,
       LookupKeeps, TurnKeeps, FinishKeeps, PutMovedKeeps, RemoveEntryKeeps, UncountKeeps,
       ForgetKeeps DEF Proceed
  <1>3. ASSUME NEW t \in Threads, NEW m \in Inits, ProcessInit(t, m) PROVE BooksInv'
    BY <1>3, ProcessInitKeeps
  <1>4. ASSUME NEW t \in Threads, NEW s \in Spis, NEW job \in {"message", "timeout"},
               StartJob(t, job, s)
        PROVE  BooksInv'
    BY <1>4, StartJobKeeps
  <1>5. CASE UNCHANGED vars
    <2>1. \A S : /\ Queued(S)' = Queued(S) /\ Owing(S)' = Owing(S)
                 /\ HalfOpens(S)' = HalfOpens(S) /\ Moving(S)' = Moving(S)
      BY <1>5 DEF vars, Queued, Owing, HalfOpens, Moving
    <2>2. Counts' /\ LimitsKept'
      BY <1>5, <2>1 DEF vars, BooksInv, Counts, Count, LimitsKept, Within
    <2>3. TypeOK' /\ ThreadsSound' /\ OneHolds' /\ EntriesKnown' /\ HashesKnown'
      BY <1>5 DEF vars, BooksInv, TypeOK, ThreadsSound, Owes, Holding, Using, Holds, Uses, OneHolds,
                  EntriesKnown, HashesKnown
    <2> QED BY <2>2, <2>3 DEF BooksInv
  <1> QED BY <1>1, <1>2, <1>3, <1>4, <1>5 DEF Next

\* The invariant says that the books are exact.
LEMMA BooksAreExact == BooksInv => BooksExact
  <1> SUFFICES ASSUME BooksInv PROVE BooksExact
    OBVIOUS
  <1>1. ASSUME NEW ip \in Ips
        PROVE  half_open[ip] =
                  Cardinality({j \in Inits \X (1..MaxJobs) : Source[j[1]] = ip /\ j[2] <= queue[j[1]]})
                  + Cardinality({t \in Threads : thread[t].owed = ip /\ ~At(t, "move")})
                  + Cardinality({s \in Registered : entries[s].half /\ entries[s].other = ip})
    <2>1. half_open[ip] = Cardinality(Queued({ip})) + Cardinality(Owing({ip}))
                          + Cardinality(HalfOpens({ip}))
      BY DEF BooksInv, Counts, Count
    <2>2. Queued({ip}) = {j \in Inits \X (1..MaxJobs) : Source[j[1]] = ip /\ j[2] <= queue[j[1]]}
      BY DEF Queued
    <2>3. Owing({ip}) = {t \in Threads : thread[t].owed = ip /\ ~At(t, "move")}
      BY DEF Owing, At
    <2>4. HalfOpens({ip}) = {s \in Registered : entries[s].half /\ entries[s].other = ip}
      BY KnownEntry DEF HalfOpens, Registered
    <2> QED BY <2>1, <2>2, <2>3, <2>4
  <1>2. CountExact
    BY <1>1 DEF CountExact
  <1>3. HashesExact
    BY DEF BooksInv, HashesExact, HashesKnown, EntriesKnown, Registered, Holds
  <1> QED BY <1>2, <1>3 DEF BooksExact, BooksInv

\* However messages, duplicates, failures, timeouts and changes of the address interleave,
\* the counts that drop_ike_sa_init() reads and the hashes that checkout_by_message()
\* looks up agree with the messages and IKE_SAs there are.
THEOREM BooksExactCorrect == Spec => []BooksExact
  <1>1. Spec => []BooksInv
    BY InitBooks, NextBooks, PTL DEF Spec
  <1> QED BY <1>1, BooksAreExact, PTL

\* The limits on half-open IKE_SAs are exceeded by the changes of addresses at most.
THEOREM HalfOpenLimitedCorrect == Spec => []HalfOpenLimited
  <1>1. Spec => []BooksInv
    BY InitBooks, NextBooks, PTL DEF Spec
  <1>2. BooksInv => HalfOpenLimited
    <2> SUFFICES ASSUME BooksInv PROVE HalfOpenLimited
      OBVIOUS
    <2>1. half_open \in [Ips -> Nat] /\ total \in Nat /\ moves \in Nat
      BY BookTypes DEF BooksInv, TypeOK
    <2>2. \A S \in SUBSET Ips : Cardinality(Moving(S)) \in Nat
      BY CountTypes
    <2>3. ASSUME block_threshold > 0, NEW ip \in Ips
          PROVE  half_open[ip] <= block_threshold + moves
      <3>1. half_open[ip] + Cardinality(Moving({ip})) <= block_threshold + moves
        BY <2>3 DEF BooksInv, LimitsKept, Within
      <3>2. Cardinality(Moving({ip})) \in Nat
        BY <2>2, BookTypes
      <3> QED BY <2>1, <3>1, <3>2, BookTypes
    <2>4. ASSUME init_limit_half_open > 0 PROVE total <= init_limit_half_open + moves
      <3>1. total + Cardinality(Moving(Ips)) <= init_limit_half_open + moves
        BY <2>4 DEF BooksInv, LimitsKept, Within
      <3>2. Cardinality(Moving(Ips)) \in Nat
        BY <2>2, BookTypes
      <3> QED BY <2>1, <3>1, <3>2, BookTypes
    <2> QED BY <2>3, <2>4 DEF HalfOpenLimited
  <1> QED BY <1>1, <1>2, PTL

-----------------------------------------------------------------------------
(* Cookies: times, secrets and thresholds.                                 *)

\* New secrets are available, and when the receiver was created the time was ahead of
\* the random offset by more than a cookie lives.
CookiesHypothesis == ~RngFails /\ MaxOffset + Lifetime <= Start

\* A cookie holds the time it was made at and the secret of that time: the current one
\* since its first use, before that the old one unless it has expired.
CookieSound(c) ==
    /\ c.at \in Nat /\ c.secret \in Nat
    /\ Start <= c.at /\ c.at <= now /\ c.t = c.at - secret_offset
    /\ c.ip \in Hosts
    /\ c.at >= secret_first_use =>
          c.secret = secret /\ c.at <= secret_first_use + SecretSwitch
    /\ c.at < secret_first_use =>
          c.secret = secret_old \/ c.at + SecretSwitch < secret_first_use

\* Thresholds that were reached are recorded for their bucket.
ThresholdsSound ==
    /\ reached \in [{0} \cup Hosts -> Times]
    /\ \A i \in {0} \cup Hosts : reached[i] <= now
    /\ reached[0] = 0 \/ (Global /\ reached[0] <= last_threshold[0])
    /\ \A ip \in Hosts :
          reached[ip] = 0 \/ (PerIp /\ reached[ip] <= last_threshold[Bucket[ip]])

\* The inductive invariant.
SecretsInv ==
    /\ Start <= now /\ secret_first_use <= now
    /\ secret_first_use = 0 => cookies = {}
    /\ \A c \in cookies : CookieSound(c)

\* Types, of what a cookie holds too.
TypesInv == CookiesTypeOK /\ \A c \in cookies : c.at \in Nat /\ c.secret \in Nat

CalmInv == ThresholdsSound /\ CalmForAll /\ CalmForIp

\* Times are numbers below the modulus.
LEMMA TimeFacts ==
    ASSUME CookiesTypeOK
    PROVE  /\ now \in Nat /\ now <= MaxTime /\ secret_offset \in Nat
           /\ secret_offset <= MaxOffset /\ secret_first_use \in Nat
           /\ {Modulus, Lifetime, CalmdownDelay, SecretSwitch} \subseteq Nat
           /\ {Start, MaxOffset, MaxTime} \subseteq Nat
           /\ MaxOffset < Start /\ Start <= MaxTime /\ MaxTime + CalmdownDelay < Modulus
           /\ SecretSwitch >= Lifetime /\ Modulus > 0
  BY TimesAssumption DEF CookiesTypeOK, Times

\* What is below the modulus is its own remainder.
LEMMA SmallMod ==
    ASSUME NEW n \in Nat, NEW a \in 0..(n - 1)
    PROVE  a % n = a
  OBVIOUS

\* Subtraction of unsigned numbers that does not wrap.
LEMMA MinusSmall ==
    ASSUME Modulus \in Nat, NEW a \in Nat, NEW b \in Nat, b <= a, a < Modulus
    PROVE  Minus(a, b) = a - b
  <1>1. a - b \in 0..(Modulus - 1)
    OBVIOUS
  <1> QED BY <1>1, SmallMod DEF Minus

\* A message from an address.
Receives ==
    \E ip \in Hosts, held \in {{}} \cup {{c} : c \in cookies}, above, aboveIp \in BOOLEAN :
        ReceiveInit(ip, held, above, aboveIp)

\* Type correctness of the first state.
LEMMA InitCookies == CookiesInit => TypesInv /\ SecretsInv /\ CalmInv
  <1> SUFFICES ASSUME CookiesInit PROVE TypesInv /\ SecretsInv /\ CalmInv
    OBVIOUS
  <1>0. /\ Start \in Times /\ 0 \in Times /\ Start \in Nat
        /\ last.ip \in Hosts /\ last.required = TRUE
    <2>1. PICK yes : yes = TRUE
      OBVIOUS
    <2>2. last \in [ip : Hosts, required : {yes}]
      BY <2>1 DEF CookiesInit
    <2>3. last.ip \in Hosts /\ last.required = yes
      BY <2>2
    <2> QED BY <2>1, <2>3, TimesAssumption DEF Times
  <1>1. CookiesTypeOK
    <2>1. /\ now \in Times /\ secret_offset \in 0..MaxOffset
          /\ secret = 1 /\ secret_old = 1 /\ secret_first_use \in Times
      BY <1>0 DEF CookiesInit
    <2>2. last_threshold \in [0..Buckets -> Times] /\ cookies = {}
      BY <1>0 DEF CookiesInit
    <2>3. last.required \in BOOLEAN
      BY <1>0, Zenon
    <2> QED BY <1>0, <2>1, <2>2, <2>3 DEF CookiesTypeOK
  <1>2. SecretsInv
    BY TimesAssumption DEF CookiesInit, SecretsInv
  <1>3. ThresholdsSound
    BY <1>0 DEF CookiesInit, ThresholdsSound
  <1>4. CalmInv
    BY <1>0, <1>3 DEF CalmInv, CalmForAll, CalmForIp
  <1>5. TypesInv
    BY <1>1 DEF CookiesInit, TypesInv
  <1> QED BY <1>2, <1>4, <1>5

\* Time passes.
LEMMA TickCookies ==
    ASSUME TypesInv, CalmInv, Tick
    PROVE  TypesInv' /\ CalmInv' /\ (SecretsInv => SecretsInv')
  <1>0. CookiesTypeOK
    BY DEF TypesInv
  <1>1. /\ now' = now + 1 /\ now' <= MaxTime
        /\ UNCHANGED <<secret_offset, secret, secret_old, secret_first_use, last_threshold,
                       cookies, reached, last>>
    BY <1>0, TimeFacts DEF Tick
  <1>2. CookiesTypeOK'
    <2>1. now' \in Times
      BY <1>0, <1>1, TimeFacts DEF Times
    <2>2. \A c \in cookies : c.at <= now'
      BY <1>0, <1>1, TimeFacts DEF TypesInv, CookiesTypeOK
    <2> QED BY <1>0, <1>1, <2>1, <2>2 DEF CookiesTypeOK
  <1>3. ASSUME SecretsInv PROVE SecretsInv'
    BY <1>0, <1>1, <1>3, TimeFacts DEF SecretsInv, CookieSound
  <1>4. CalmInv'
    <2>1. \A i \in {0} \cup Hosts : reached[i] \in Nat
      BY TimesAssumption DEF CalmInv, ThresholdsSound, Times
    <2>2. \A i \in {0} \cup Hosts : Calmed(i) => Calmed(i)'
      BY <1>1, <2>1, <1>0, TimeFacts DEF Calmed
    <2>3. last.ip \in Hosts
      BY <1>0 DEF CookiesTypeOK
    <2>4. \A i \in {0} \cup Hosts : reached[i] <= now'
      BY <1>1, <2>1, <1>0, TimeFacts DEF CalmInv, ThresholdsSound
    <2> QED BY <1>1, <2>2, <2>3, <2>4 DEF CalmInv, ThresholdsSound, CalmForAll, CalmForIp
  <1>5. TypesInv'
    BY <1>1, <1>2 DEF TypesInv
  <1> QED BY <1>3, <1>4, <1>5

\* A message leaves the record of thresholds in order.
LEMMA ReceiveCalm ==
    ASSUME CookiesTypeOK, CalmInv, NEW ip \in Hosts, NEW held,
           NEW above \in BOOLEAN, NEW aboveIp \in BOOLEAN,
           ReceiveInit(ip, held, above, aboveIp)
    PROVE  /\ last_threshold' \in [0..Buckets -> Times]
           /\ last'.ip \in Hosts /\ last'.required \in BOOLEAN
           /\ CalmInv'
  <1> DEFINE b == Bucket[ip]
             forAll == Global /\ cookie_required(0, above)
             forIp == PerIp /\ ~forAll /\ cookie_required(b, aboveIp)
  <1>1. /\ b \in 1..Buckets /\ b \in 0..Buckets /\ 0 \in 0..Buckets /\ ip # 0 /\ Buckets \in Nat
        /\ 0 \notin Hosts
    BY BucketsAssumption
  <1>2. /\ above => Global
        /\ aboveIp => PerIp
        /\ last_threshold' = IF forAll THEN Record(0, above) ELSE Record(b, aboveIp)
        /\ last' = [ip |-> ip, required |-> forAll \/ forIp]
        /\ reached' = [i \in {0} \cup Hosts |->
                          IF (i = 0 /\ above) \/ (i = ip /\ aboveIp /\ ~forAll)
                          THEN now ELSE reached[i]]
        /\ now' = now
    BY DEF ReceiveInit
  <1>3. now \in Times /\ now \in Nat
    BY TimeFacts DEF CookiesTypeOK
  <1>4. last_threshold' \in [0..Buckets -> Times]
    BY <1>1, <1>2 DEF Record, CookiesTypeOK
  <1>5. last'.ip = ip /\ last'.required = (forAll \/ forIp)
    BY <1>2
  <1>6. \A idx \in 0..Buckets : /\ last_threshold[idx] \in Nat
                                /\ \/ last_threshold'[idx] = last_threshold[idx]
                                   \/ last_threshold'[idx] = now
    <2>1. SUFFICES ASSUME NEW idx \in 0..Buckets
                   PROVE  /\ last_threshold[idx] \in Nat
                          /\ \/ last_threshold'[idx] = last_threshold[idx]
                             \/ last_threshold'[idx] = now
      OBVIOUS
    <2>2. last_threshold[idx] \in Nat
      BY TimesAssumption DEF CookiesTypeOK, Times
    <2>3. \/ last_threshold'[idx] = last_threshold[idx]
          \/ last_threshold'[idx] = now
      BY <1>1, <1>2 DEF Record, CookiesTypeOK
    <2> QED BY <2>2, <2>3
  <1>7. /\ reached' \in [{0} \cup Hosts -> Times]
        /\ \A i \in {0} \cup Hosts : reached[i] \in Nat /\ reached[i] <= now
    BY <1>2, <1>3, TimesAssumption DEF CookiesTypeOK, CalmInv, ThresholdsSound, Times
  <1>8. above => forAll /\ last_threshold'[0] = now
    BY <1>1, <1>2 DEF Record, cookie_required, CookiesTypeOK
  <1>9. aboveIp /\ ~forAll => forIp /\ last_threshold'[b] = now
    BY <1>1, <1>2 DEF Record, cookie_required, CookiesTypeOK
  <1> HIDE DEF forAll, forIp, b
  <1>10. ThresholdsSound'
    <2>1. \A i \in {0} \cup Hosts : reached'[i] <= now'
      BY <1>2, <1>3, <1>7
    <2>2. reached'[0] = 0 \/ (Global /\ reached'[0] <= last_threshold'[0])
      BY <1>1, <1>2, <1>3, <1>6, <1>7, <1>8 DEF CalmInv, ThresholdsSound
    <2>3. ASSUME NEW h \in Hosts
          PROVE  reached'[h] = 0 \/ (PerIp /\ reached'[h] <= last_threshold'[Bucket[h]])
      <3>1. CASE h = ip /\ aboveIp /\ ~forAll
        <4>1. reached'[h] = now /\ last_threshold'[Bucket[h]] = now
          BY <1>1, <1>2, <1>9, <3>1 DEF b
        <4>2. PerIp
          BY <1>2, <3>1, Zenon
        <4> QED BY <1>3, <4>1, <4>2
      <3>2. CASE ~(h = ip /\ aboveIp /\ ~forAll)
        <4>1. reached'[h] = reached[h] /\ h # 0 /\ Bucket[h] \in 0..Buckets
          BY <1>1, <1>2, <3>2, BucketsAssumption
        <4> QED BY <1>3, <1>6, <1>7, <4>1 DEF CalmInv, ThresholdsSound
      <3> QED BY <3>1, <3>2
    <2> QED BY <1>7, <2>1, <2>2, <2>3 DEF ThresholdsSound
  <1>11. ASSUME ~last'.required PROVE Calmed(0)' /\ Calmed(ip)'
    <2>1. ~forAll /\ ~forIp /\ ~above /\ ~aboveIp
      BY <1>5, <1>8, <1>9, <1>11
    <2>2. reached'[0] = reached[0] /\ reached'[ip] = reached[ip]
      BY <1>1, <1>2, <2>1
    <2>3. /\ Global => ~Calm(0)
          /\ PerIp => ~Calm(b)
      BY <2>1 DEF forAll, forIp, cookie_required
    <2>4. reached[0] = 0 \/ (~Calm(0) /\ reached[0] <= last_threshold[0])
      BY <2>3 DEF CalmInv, ThresholdsSound
    <2>5. reached[ip] = 0 \/ (~Calm(b) /\ reached[ip] <= last_threshold[b])
      BY <2>3 DEF CalmInv, ThresholdsSound, b
    <2>6. /\ reached[0] \in Nat /\ reached[ip] \in Nat /\ now' = now
          /\ last_threshold[0] \in Nat /\ last_threshold[b] \in Nat /\ CalmdownDelay \in Nat
      BY <1>1, <1>2, <1>6, <1>7, TimeFacts DEF b
    <2>7. Calmed(0)'
      BY <1>3, <2>2, <2>4, <2>6 DEF Calm, Calmed
    <2>8. Calmed(ip)'
      BY <1>3, <2>2, <2>5, <2>6 DEF Calm, Calmed
    <2> QED BY <2>7, <2>8
  <1>12. CalmInv'
    BY <1>5, <1>10, <1>11 DEF CalmInv, CalmForAll, CalmForIp
  <1> QED BY <1>4, <1>5, <1>12

\* A cookie is made with the secret of its time.
LEMMA SendSecrets ==
    ASSUME CookiesHypothesis, CookiesTypeOK, SecretsInv, NEW ip \in Hosts,
           SendCookie(ip), UNCHANGED <<now, secret_offset>>
    PROVE  /\ secret' \in Nat /\ secret_old' \in Nat /\ secret_old' <= secret'
           /\ secret <= secret' /\ secret_first_use' \in Times
           /\ SecretsInv'
           /\ \A c \in cookies' : c.t \in 0..(Modulus - 1)
  <1>0. PICK new : new = [t |-> Minus(now, secret_offset), ip |-> ip,
                          secret |-> secret', at |-> now]
    OBVIOUS
  <1>1. /\ now \in Nat /\ Start <= now /\ now < Modulus /\ secret_offset \in Nat
        /\ secret_offset <= now /\ secret_first_use \in Nat /\ secret_first_use <= now
        /\ SecretSwitch \in Nat /\ Start \in Nat /\ Start > 0 /\ Modulus \in Nat
        /\ MaxOffset \in Nat /\ secret_offset <= MaxOffset /\ MaxOffset < Start
        /\ secret \in Nat /\ secret_old \in Nat /\ secret_old <= secret
    BY TimeFacts DEF SecretsInv, CookiesTypeOK
  <1>2. /\ cookies' = cookies \cup {new} /\ now' = now /\ secret_offset' = secret_offset
        /\ new.at = now /\ new.secret = secret' /\ new.ip = ip
        /\ new.t = now - secret_offset
    BY <1>0, <1>1, MinusSmall DEF SendCookie
  <1>3. CASE /\ secret_first_use = 0 /\ secret_first_use' = now
             /\ UNCHANGED <<secret, secret_old>>
    <2>1. cookies = {}
      BY <1>3 DEF SecretsInv
    <2>2. CookieSound(new)'
      BY <1>1, <1>2, <1>3 DEF CookieSound
    <2>3. SecretsInv'
      BY <1>1, <1>2, <1>3, <2>1, <2>2 DEF SecretsInv
    <2> QED BY <1>1, <1>2, <1>3, <2>1, <2>3 DEF CookiesTypeOK
  <1>4. CASE /\ secret_first_use > 0 /\ now - secret_first_use <= SecretSwitch
             /\ UNCHANGED <<secret, secret_old, secret_first_use>>
    <2>1. \A c \in cookies : CookieSound(c)'
      BY <1>2, <1>4 DEF SecretsInv, CookieSound
    <2>2. CookieSound(new)'
      BY <1>1, <1>2, <1>4 DEF CookieSound
    <2>3. SecretsInv'
      BY <1>1, <1>2, <1>4, <2>1, <2>2 DEF SecretsInv
    <2> QED BY <1>1, <1>2, <1>4, <2>3 DEF CookiesTypeOK
  <1>5. CASE /\ secret_first_use > 0 /\ now - secret_first_use > SecretSwitch
             /\ secret_old' = secret /\ secret' = secret + 1 /\ secret_first_use' = now
    <2>1. ASSUME NEW c \in cookies PROVE CookieSound(c)'
      <3>1. CookieSound(c)
        BY DEF SecretsInv
      <3>2. c.at \in Nat /\ c.at < now
        BY <1>1, <1>5, <3>1 DEF CookieSound
      <3> QED BY <1>1, <1>2, <1>5, <3>1, <3>2 DEF CookieSound
    <2>2. CookieSound(new)'
      BY <1>1, <1>2, <1>5 DEF CookieSound
    <2>3. SecretsInv'
      BY <1>1, <1>2, <1>5, <2>1, <2>2 DEF SecretsInv
    <2> QED BY <1>1, <1>2, <1>5, <2>3 DEF CookiesTypeOK
  <1> QED BY <1>3, <1>4, <1>5 DEF SendCookie, Secrets, CookiesHypothesis

\* A new cookie and the secrets have their types.
LEMMA SendTypes ==
    ASSUME TypesInv, NEW ip \in Hosts, SendCookie(ip), UNCHANGED <<now, secret_offset>>
    PROVE  /\ secret' \in Nat /\ secret_old' \in Nat /\ secret_old' <= secret'
           /\ secret_first_use' \in Times
           /\ \A c \in cookies' : /\ c.t \in 0..(Modulus - 1) /\ c.ip \in Hosts
                                  /\ c.secret <= secret' /\ c.at <= now'
                                  /\ c.at \in Nat /\ c.secret \in Nat
  <1>1. /\ now \in Nat /\ now \in Times /\ secret_offset \in Nat /\ Modulus \in Nat \ {0}
        /\ secret \in Nat /\ secret_old \in Nat /\ secret_old <= secret
        /\ secret_first_use \in Times
    BY TimeFacts DEF TypesInv, CookiesTypeOK
  <1>2. /\ secret' \in Nat /\ secret_old' \in Nat /\ secret_old' <= secret'
        /\ secret_first_use' \in Times /\ secret <= secret'
    BY <1>1 DEF SendCookie, Secrets
  <1>3. PICK new : new = [t |-> Minus(now, secret_offset), ip |-> ip,
                          secret |-> secret', at |-> now]
    OBVIOUS
  <1>4. /\ new.t \in 0..(Modulus - 1) /\ new.ip = ip /\ new.secret = secret' /\ new.at = now
        /\ cookies' = cookies \cup {new} /\ now' = now
    BY <1>1, <1>3 DEF Minus, SendCookie
  <1>5. \A c \in cookies : /\ c.t \in 0..(Modulus - 1) /\ c.ip \in Hosts
                           /\ c.secret <= secret' /\ c.at <= now'
                           /\ c.at \in Nat /\ c.secret \in Nat
    BY <1>1, <1>2, <1>4 DEF TypesInv, CookiesTypeOK
  <1> QED BY <1>1, <1>2, <1>4, <1>5

\* A message keeps the invariants.
LEMMA ReceiveCookies ==
    ASSUME TypesInv, CalmInv, Receives
    PROVE  TypesInv' /\ CalmInv' /\ (CookiesHypothesis /\ SecretsInv => SecretsInv')
  <1>0. CookiesTypeOK
    BY DEF TypesInv
  <1>1. PICK ip \in Hosts, held \in {{}} \cup {{c} : c \in cookies},
             above \in BOOLEAN, aboveIp \in BOOLEAN : ReceiveInit(ip, held, above, aboveIp)
    BY DEF Receives
  <1>2. /\ last_threshold' \in [0..Buckets -> Times]
        /\ last'.ip \in Hosts /\ last'.required \in BOOLEAN
        /\ CalmInv'
    BY <1>0, <1>1, ReceiveCalm
  <1>3. UNCHANGED <<now, secret_offset>>
    BY <1>1 DEF ReceiveInit
  <1>4. CASE SendCookie(ip)
    <2>1. /\ secret' \in Nat /\ secret_old' \in Nat /\ secret_old' <= secret'
          /\ secret_first_use' \in Times
          /\ \A c \in cookies' : /\ c.t \in 0..(Modulus - 1) /\ c.ip \in Hosts
                                 /\ c.secret <= secret' /\ c.at <= now'
                                 /\ c.at \in Nat /\ c.secret \in Nat
      BY <1>3, <1>4, SendTypes
    <2>2. TypesInv'
      BY <1>0, <1>2, <1>3, <2>1 DEF TypesInv, CookiesTypeOK
    <2> QED BY <1>0, <1>2, <1>3, <1>4, <2>2, SendSecrets
  <1>5. CASE UNCHANGED <<secret, secret_old, secret_first_use, cookies>>
    <2>1. TypesInv'
      BY <1>0, <1>2, <1>3, <1>5 DEF TypesInv, CookiesTypeOK
    <2>2. SecretsInv => SecretsInv'
      BY <1>3, <1>5 DEF SecretsInv, CookieSound
    <2> QED BY <1>2, <2>1, <2>2
  <1> QED BY <1>1, <1>4, <1>5 DEF ReceiveInit

\* Every step keeps the invariants, that of the secrets under the hypothesis.
LEMMA NextCookies ==
    ASSUME TypesInv, CalmInv, [CookiesNext]_cookieVars
    PROVE  TypesInv' /\ CalmInv' /\ (CookiesHypothesis /\ SecretsInv => SecretsInv')
  <1>1. CASE Tick
    BY <1>1, TickCookies
  <1>2. CASE Receives
    BY <1>2, ReceiveCookies
  <1>3. CASE UNCHANGED cookieVars
    BY <1>3 DEF cookieVars, TypesInv, CookiesTypeOK, SecretsInv, CookieSound, CalmInv,
       ThresholdsSound, CalmForAll, CalmForIp, Calmed
  <1> QED BY <1>1, <1>2, <1>3 DEF CookiesNext, Receives

\* Types and thresholds are right in every reachable state.
LEMMA CookiesCorrect == CookiesSpec => [](TypesInv /\ CalmInv)
  <1>1. CookiesInit => TypesInv /\ CalmInv
    BY InitCookies
  <1>2. TypesInv /\ CalmInv /\ [CookiesNext]_cookieVars => TypesInv' /\ CalmInv'
    BY NextCookies
  <1> QED BY <1>1, <1>2, PTL DEF CookiesSpec

\* A cookie is accepted for COOKIE_LIFETIME and no longer, whenever secrets are switched
\* and whatever the times are up to the last one (cookie_verify).  A new secret that is
\* not available at once could be switched to in the second a cookie was made with the
\* old one; an offset close to the time since boot makes the age of a cookie wrap.
THEOREM CookieValidityCorrect ==
    ASSUME CookiesHypothesis
    PROVE  CookiesSpec => []CookieValidity
  <1>1. ASSUME CookiesTypeOK, SecretsInv, NEW c \in cookies
        PROVE  cookie_verify(c.ip, c) <=> now <= c.at + Lifetime
    <2>1. /\ now \in Nat /\ Start <= now /\ now < Modulus /\ secret_offset \in Nat
          /\ secret_first_use \in Nat /\ secret_first_use <= now
          /\ SecretSwitch \in Nat /\ Lifetime \in Nat /\ Lifetime <= SecretSwitch
          /\ Start \in Nat /\ Modulus \in Nat /\ MaxOffset \in Nat
          /\ secret_offset <= MaxOffset /\ MaxOffset + Lifetime <= Start
      BY <1>1, TimeFacts DEF SecretsInv, CookiesHypothesis
    <2>2. CookieSound(c)
      BY <1>1 DEF SecretsInv
    <2>3. Minus(Minus(now, secret_offset), Lifetime) = now - secret_offset - Lifetime
      <3>1. Minus(now, secret_offset) = now - secret_offset
        BY <2>1, MinusSmall
      <3>2. now - secret_offset \in Nat /\ Lifetime <= now - secret_offset
            /\ now - secret_offset < Modulus
        BY <2>1
      <3> QED BY <2>1, <3>1, <3>2, MinusSmall
    <2>4. (c.t + secret_offset) % Modulus = c.at
      <3>1. c.t + secret_offset = c.at /\ c.at \in 0..(Modulus - 1)
        BY <2>1, <2>2 DEF CookieSound
      <3> QED BY <2>1, <3>1, SmallMod
    <2>5. cookie_verify(c.ip, c) <=>
              /\ now <= c.at + Lifetime
              /\ c.secret = IF c.at >= secret_first_use THEN secret ELSE secret_old
      BY <2>1, <2>2, <2>3, <2>4 DEF cookie_verify, SecretOf, CookieSound
    <2>6. now <= c.at + Lifetime =>
              c.secret = IF c.at >= secret_first_use THEN secret ELSE secret_old
      BY <2>1, <2>2 DEF CookieSound
    <2> QED BY <2>5, <2>6
  <1>2. TypesInv /\ SecretsInv => CookieValidity
    BY <1>1 DEF CookieValidity, TypesInv
  <1>3. CookiesInit => SecretsInv
    BY InitCookies
  <1>4. TypesInv /\ CalmInv /\ SecretsInv /\ [CookiesNext]_cookieVars => SecretsInv'
    BY NextCookies
  <1> QED BY <1>2, <1>3, <1>4, CookiesCorrect, PTL DEF CookiesSpec

\* Cookies are required until the threshold, for all or for an address, was not reached
\* for COOKIE_CALMDOWN_DELAY, though addresses share buckets (cookie_required).
THEOREM RequiredUntilCalmCorrect == CookiesSpec => []RequiredUntilCalm
  <1>1. TypesInv /\ CalmInv => RequiredUntilCalm
    BY DEF TypesInv, CalmInv, RequiredUntilCalm
  <1> QED BY <1>1, CookiesCorrect, PTL
=============================================================================
