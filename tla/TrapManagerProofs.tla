------------------------- MODULE TrapManagerProofs -------------------------
(***************************************************************************)
(* Theorems about TrapManager, for any number of threads, connections,     *)
(* IKE_SAs and entries, and whatever operations the threads perform.       *)
(***************************************************************************)
EXTENDS TrapManager, FiniteSetTheorems, TLAPS

-----------------------------------------------------------------------------
(* The inductive invariant.                                                *)

EntryRec == [name : Names \cup {NoName}, installed : BOOLEAN, external : BOOLEAN, freed : BOOLEAN]
AcquireRec == [pending : BOOLEAN, ike_sa : Sas \cup {NoSa}]
ThreadRec == [pc : Pcs, op : AllOps \cup {"none"}, name : Names \cup {NoName},
              entry : 0..MaxEntries, found : 0..MaxEntries]

Types ==
    /\ allocated \in 0..MaxEntries /\ entry \in [Entries -> EntryRec]
    /\ traps \subseteq 1..allocated
    /\ acquires \in [Names -> AcquireRec] /\ thread \in [Threads -> ThreadRec]

\* How many threads install is known until the list is flushed, when none does.
Installers == {t \in Threads : Installs(t)}
InstallingKnown == installing \in {Disabled, Cardinality(Installers)}
NobodyAfterFlush == installing = Disabled => Installers = {}

\* The entry a thread is installing, and the one it took from the list to destroy it
\* or owns as that of its CHILD_SA: no other thread refers to them.
Installed(t) == thread[t].pc \in {"installing", "external"}
Took(t) == thread[t].pc \in {"installing", "replace", "destroy"}
Held(t) ==
    {e \in Entries : \/ Installed(t) /\ e = thread[t].entry
                     \/ (Took(t) \/ thread[t].pc = "keep") /\ e = thread[t].found}
Exclusive == \A t, u \in Threads : t # u => Held(t) \cap Held(u) = {}

\* An entry of the list that flush() does not wait for.
Listed(e) == e \in traps \/ installing = Disabled
ThreadSound(t) ==
    /\ thread[t].pc = "installing" =>
          /\ thread[t].entry \in traps /\ thread[t].entry # thread[t].found
          /\ ~entry[thread[t].entry].installed
    /\ Took(t) => \/ thread[t].found = 0 /\ thread[t].pc = "installing"
                  \/ /\ thread[t].found \in (1..allocated) \ traps
                     /\ ~entry[thread[t].found].freed
    /\ thread[t].pc = "external" =>
          /\ thread[t].entry \in 1..allocated /\ Listed(thread[t].entry)
          /\ entry[thread[t].entry].external
    /\ thread[t].pc = "keep" =>
          /\ thread[t].found \in 1..allocated /\ Listed(thread[t].found)
          /\ entry[thread[t].found].external
    /\ thread[t].pc = "checkout" =>
          /\ thread[t].name \in Names
          /\ acquires[thread[t].name] = [pending |-> TRUE, ike_sa |-> NoSa]
ThreadsSound == \A t \in Threads : ThreadSound(t)

\* Entries are fresh, listed, freed, or taken by the thread that will free them.
AccountedFor(e) ==
    /\ e > allocated => entry[e] = NoEntry
    /\ e \in traps => ~entry[e].freed
    /\ e <= allocated => \/ e \in traps \/ entry[e].freed
                         \/ \E t \in Threads : Took(t) /\ thread[t].found = e
Accounted == \A e \in Entries : AccountedFor(e)
Alike(d, e) == entry[d].name = entry[e].name /\ ~entry[d].external /\ ~entry[e].external
RoutedOnce == \A d, e \in traps : Alike(d, e) => d = e

TrapInv ==
    /\ Types /\ InstallingKnown /\ NobodyAfterFlush /\ Exclusive /\ ThreadsSound
    /\ Accounted /\ RoutedOnce /\ OneAcquire

-----------------------------------------------------------------------------
(* Records, and the number of threads that install.                        *)

\* The fields of entries, acquires and threads.
LEMMA RecordFields ==
    /\ \A e \in EntryRec : e.installed \in BOOLEAN /\ e.external \in BOOLEAN /\ e.freed \in BOOLEAN
    /\ \A r \in ThreadRec : r.entry \in 0..MaxEntries /\ r.found \in 0..MaxEntries /\ r.pc \in Pcs
                            /\ r.name \in Names \cup {NoName}
    /\ Idle \in ThreadRec /\ NoEntry \in EntryRec /\ NoAcquire \in AcquireRec
    /\ Idle.pc = "idle" /\ Idle.entry = 0 /\ Idle.found = 0
    /\ ~NoEntry.freed /\ ~NoEntry.installed /\ ~NoEntry.external
    /\ MaxEntries \in Nat
  <1>1. MaxEntries \in Nat
    BY OpsAssumption
  <1>2. \A e \in EntryRec : e.installed \in BOOLEAN /\ e.external \in BOOLEAN /\ e.freed \in BOOLEAN
    BY DEF EntryRec
  <1>3. \A r \in ThreadRec : r.entry \in 0..MaxEntries /\ r.found \in 0..MaxEntries /\ r.pc \in Pcs
                             /\ r.name \in Names \cup {NoName}
    BY DEF ThreadRec
  <1>4. Idle \in ThreadRec /\ Idle.pc = "idle" /\ Idle.entry = 0 /\ Idle.found = 0
    BY <1>1 DEF Idle, ThreadRec, Pcs
  <1>5. /\ NoEntry \in EntryRec /\ ~NoEntry.freed /\ ~NoEntry.installed /\ ~NoEntry.external
    BY DEF NoEntry, EntryRec
  <1>6. NoAcquire \in AcquireRec
    BY DEF NoAcquire, AcquireRec
  <1> QED BY <1>1, <1>2, <1>3, <1>4, <1>5, <1>6

\* Freeing an entry changes nothing else of it.
LEMMA FreedEntry ==
    ASSUME NEW e \in EntryRec
    PROVE  /\ [e EXCEPT !.freed = TRUE] \in EntryRec /\ [e EXCEPT !.freed = TRUE].freed
           /\ [e EXCEPT !.freed = TRUE].external = e.external
           /\ [e EXCEPT !.freed = TRUE].name = e.name
           /\ [e EXCEPT !.freed = TRUE].installed = e.installed
  BY DEF EntryRec

\* The entries after one of them was freed.
LEMMA FreeStep ==
    ASSUME Types, NEW e \in Entries
    PROVE  /\ Free(e) \in [Entries -> EntryRec] /\ Free(e)[e].freed
           /\ Free(e)[e].external = entry[e].external /\ Free(e)[e].name = entry[e].name
           /\ \A d \in Entries \ {e} : Free(e)[d] = entry[d]
  <1> DEFINE r == [entry[e] EXCEPT !.freed = TRUE]
  <1>1. entry \in [Entries -> EntryRec] /\ entry[e] \in EntryRec
    BY DEF Types
  <1>2. r \in EntryRec /\ r.freed /\ r.external = entry[e].external /\ r.name = entry[e].name
    BY <1>1, FreedEntry
  <1>3. Free(e) = [entry EXCEPT ![e] = r]
    BY <1>1 DEF Free
  <1> HIDE DEF r
  <1> QED BY <1>1, <1>2, <1>3

\* One thread goes on.
LEMMA ThreadStep ==
    ASSUME Types, NEW t \in Threads, NEW r \in ThreadRec, thread' = [thread EXCEPT ![t] = r]
    PROVE  /\ thread' \in [Threads -> ThreadRec] /\ thread'[t] = r
           /\ \A u \in Threads \ {t} : thread'[u] = thread[u]
  BY DEF Types

\* Threads that install are finitely many.
LEMMA InstallersFinite ==
    /\ IsFiniteSet(Installers) /\ Cardinality(Installers) \in Nat
    /\ IsFiniteSet(Installers') /\ Cardinality(Installers') \in Nat
  <1>1. Installers \subseteq Threads /\ Installers' \subseteq Threads
    BY DEF Installers
  <1> QED BY <1>1, SetsAssumption, FS_Subset, FS_CardinalityType

\* Nobody starts or ends to install.
LEMMA InstallersSame ==
    ASSUME TrapInv, NEW t \in Threads, \A u \in Threads \ {t} : thread'[u] = thread[u],
           Installs(t)' <=> Installs(t), UNCHANGED installing
    PROVE  InstallingKnown' /\ NobodyAfterFlush'
  <1>1. Installers' = Installers
    BY DEF Installers, Installs
  <1> QED BY <1>1 DEF TrapInv, InstallingKnown, NobodyAfterFlush

\* No thread does anything.
LEMMA InstallersUnchanged ==
    ASSUME TrapInv, UNCHANGED <<thread, installing>>
    PROVE  InstallingKnown' /\ NobodyAfterFlush'
  <1>1. Installers' = Installers
    BY DEF Installers, Installs
  <1> QED BY <1>1 DEF TrapInv, InstallingKnown, NobodyAfterFlush

-----------------------------------------------------------------------------
(* Steps of one thread that concern the entries in a set C.                *)

\* What a thread refers to is in the list of entries allocated.
LEMMA HeldAllocated ==
    ASSUME TrapInv, NEW u \in Threads
    PROVE  /\ ThreadSound(u) /\ thread[u] \in ThreadRec
           /\ \A e \in Held(u) : e \in 1..allocated
  <1>1. ThreadSound(u) /\ thread[u] \in ThreadRec /\ allocated \in Nat /\ traps \subseteq 1..allocated
    BY RecordFields DEF TrapInv, ThreadsSound, Types
  <1> QED BY <1>1 DEF Held, ThreadSound, Installed, Took, Entries

\* A thread that a step does not concern.
LEMMA OtherSound ==
    ASSUME TrapInv, NEW u \in Threads, thread'[u] = thread[u],
           allocated' \in Nat, allocated' >= allocated, installing = Disabled => installing' = Disabled,
           \A e \in Held(u) : entry'[e] = entry[e] /\ (e \in traps' <=> e \in traps),
           thread[u].pc = "checkout" => acquires'[thread[u].name] = acquires[thread[u].name]
    PROVE  ThreadSound(u)' /\ Held(u)' = Held(u)
  <1>1. /\ ThreadSound(u) /\ thread[u] \in ThreadRec /\ allocated \in 0..MaxEntries
        /\ traps \subseteq 1..allocated /\ MaxEntries \in Nat /\ 1..allocated \subseteq Entries
    BY HeldAllocated, RecordFields DEF TrapInv, Types, Entries
  <1>2. Held(u)' = Held(u)
    BY DEF Held, Installed, Took
  <1>3. thread[u].entry \in Nat /\ thread[u].found \in Nat
    BY <1>1, RecordFields
  <1>4. ASSUME thread[u].pc = "installing"
        PROVE  /\ thread[u].entry \in traps' /\ thread[u].entry # thread[u].found
               /\ ~entry'[thread[u].entry].installed
    <2>1. /\ thread[u].entry \in traps /\ thread[u].entry # thread[u].found
          /\ ~entry[thread[u].entry].installed
      BY <1>1, <1>4 DEF ThreadSound
    <2>2. thread[u].entry \in Held(u)
      BY <1>1, <1>4, <2>1 DEF Held, Installed
    <2> QED BY <2>1, <2>2
  <1>5. ASSUME Took(u)
        PROVE  \/ thread[u].found = 0 /\ thread[u].pc = "installing"
               \/ thread[u].found \in (1..allocated') \ traps' /\ ~entry'[thread[u].found].freed
    <2>1. CASE thread[u].found \in (1..allocated) \ traps /\ ~entry[thread[u].found].freed
      <3>1. thread[u].found \in Held(u)
        BY <1>1, <1>5, <2>1 DEF Held
      <3> QED BY <1>1, <2>1, <3>1
    <2> QED BY <1>1, <1>5, <2>1 DEF ThreadSound
  <1>6. ASSUME thread[u].pc = "external"
        PROVE  /\ thread[u].entry \in 1..allocated' /\ Listed(thread[u].entry)'
               /\ entry'[thread[u].entry].external
    <2>1. /\ thread[u].entry \in 1..allocated /\ Listed(thread[u].entry)
          /\ entry[thread[u].entry].external
      BY <1>1, <1>6 DEF ThreadSound
    <2>2. thread[u].entry \in Held(u)
      BY <1>1, <1>6, <2>1 DEF Held, Installed
    <2> QED BY <1>1, <2>1, <2>2 DEF Listed
  <1>7. ASSUME thread[u].pc = "keep"
        PROVE  /\ thread[u].found \in 1..allocated' /\ Listed(thread[u].found)'
               /\ entry'[thread[u].found].external
    <2>1. /\ thread[u].found \in 1..allocated /\ Listed(thread[u].found)
          /\ entry[thread[u].found].external
      BY <1>1, <1>7 DEF ThreadSound
    <2>2. thread[u].found \in Held(u)
      BY <1>1, <1>7, <2>1 DEF Held
    <2> QED BY <1>1, <2>1, <2>2 DEF Listed
  <1>8. ThreadSound(u)'
    BY <1>1, <1>4, <1>5, <1>6, <1>7 DEF ThreadSound, Took, Listed
  <1> QED BY <1>2, <1>8

\* Such a step keeps the invariant if it does for the thread and for C.
LEMMA TrapStep ==
    ASSUME TrapInv, NEW t \in Threads, NEW C \in SUBSET Entries, Types',
           \A u \in Threads \ {t} : thread'[u] = thread[u],
           \A e \in Entries \ C : entry'[e] = entry[e] /\ (e \in traps' <=> e \in traps),
           \A u \in Threads \ {t} : Held(u) \cap C = {},
           allocated' = allocated \/ (allocated' = allocated + 1 /\ allocated + 1 \in C),
           installing = Disabled => installing' = Disabled, InstallingKnown', NobodyAfterFlush',
           ThreadSound(t)', Held(t)' \subseteq Held(t) \cup C,
           \A u \in Threads \ {t} : thread[u].pc = "checkout" =>
               /\ acquires'[thread[u].name] = acquires[thread[u].name]
               /\ ~(thread'[t].pc = "checkout" /\ thread'[t].name = thread[u].name),
           \A e \in C : AccountedFor(e)',
           Took(t) => \/ thread[t].found \in C \cup {0}
                      \/ Took(t)' /\ thread'[t].found = thread[t].found,
           \A d \in C, e \in Entries : d \in traps' /\ e \in traps' /\ Alike(d, e)' => d = e
    PROVE  TrapInv'
  <1>1. /\ allocated \in 0..MaxEntries /\ allocated' \in 0..MaxEntries /\ MaxEntries \in Nat
        /\ traps \subseteq Entries /\ traps' \subseteq Entries
    BY RecordFields DEF TrapInv, Types, Entries
  <1>2. ASSUME NEW u \in Threads \ {t} PROVE ThreadSound(u)' /\ Held(u)' = Held(u)
    <2>1. Held(u) \subseteq Entries \ C
      BY DEF Held
    <2> QED BY <1>1, <2>1, OtherSound
  <1>3. ThreadsSound'
    BY <1>2 DEF ThreadsSound
  <1>4. Exclusive'
    <2>1. Exclusive
      BY DEF TrapInv
    <2>2. ASSUME NEW u \in Threads \ {t} PROVE Held(t)' \cap Held(u)' = {}
      <3>1. Held(t) \cap Held(u) = {} /\ C \cap Held(u) = {} /\ Held(u)' = Held(u)
        BY <1>2, <2>1 DEF Exclusive
      <3> QED BY <3>1
    <2>3. ASSUME NEW u \in Threads \ {t}, NEW v \in Threads \ {t}, u # v
          PROVE  Held(u)' \cap Held(v)' = {}
      <3>1. Held(u) \cap Held(v) = {} /\ Held(u)' = Held(u) /\ Held(v)' = Held(v)
        BY <1>2, <2>1, <2>3 DEF Exclusive
      <3> QED BY <3>1
    <2> QED BY <2>2, <2>3 DEF Exclusive
  <1>5. Accounted'
    <2> SUFFICES ASSUME NEW e \in Entries \ C PROVE AccountedFor(e)'
      BY DEF Accounted
    <2>1. AccountedFor(e) /\ entry'[e] = entry[e] /\ (e \in traps' <=> e \in traps) /\ e \in Nat
      BY <1>1 DEF TrapInv, Accounted, Entries
    <2>2. e > allocated' => e > allocated
      BY <1>1, <2>1
    <2>3. e <= allocated' => e <= allocated
      BY <1>1, <2>1
    <2>4. ASSUME NEW u \in Threads, Took(u), thread[u].found = e
          PROVE  Took(u)' /\ thread'[u].found = e
      BY <1>1, <2>4 DEF Took, Entries
    <2> QED BY <2>1, <2>2, <2>3, <2>4 DEF AccountedFor
  <1>6. RoutedOnce'
    <2> SUFFICES ASSUME NEW d \in traps', NEW e \in traps', Alike(d, e)' PROVE d = e
      BY DEF RoutedOnce
    <2>1. d \in Entries /\ e \in Entries /\ Alike(e, d)'
      BY <1>1 DEF Alike
    <2>2. CASE d \notin C /\ e \notin C
      BY <2>1, <2>2 DEF TrapInv, RoutedOnce, Alike
    <2> QED BY <2>1, <2>2
  <1>7. OneAcquire'
    BY DEF TrapInv, OneAcquire
  <1> QED BY <1>3, <1>4, <1>5, <1>6, <1>7 DEF TrapInv

\* A step of a thread that changes no entry.
LEMMA QuietStep ==
    ASSUME TrapInv, NEW t \in Threads, NEW r \in ThreadRec, thread' = [thread EXCEPT ![t] = r],
           UNCHANGED <<entry, allocated, traps, installing>>, acquires' \in [Names -> AcquireRec],
           Installs(t)' <=> Installs(t), ThreadSound(t)', Held(t)' \subseteq Held(t),
           \A u \in Threads \ {t} : thread[u].pc = "checkout" =>
               /\ acquires'[thread[u].name] = acquires[thread[u].name]
               /\ ~(r.pc = "checkout" /\ r.name = thread[u].name),
           ~Took(t)
    PROVE  TrapInv'
  <1>1. /\ thread' \in [Threads -> ThreadRec] /\ thread'[t] = r
        /\ \A u \in Threads \ {t} : thread'[u] = thread[u]
    BY ThreadStep DEF TrapInv
  <1>2. Types'
    BY <1>1 DEF TrapInv, Types
  <1>3. InstallingKnown' /\ NobodyAfterFlush'
    BY <1>1, InstallersSame
  <1> DEFINE C == {}
  <1>4. /\ C \in SUBSET Entries /\ Held(t)' \subseteq Held(t) \cup C
        /\ \A u \in Threads \ {t} : Held(u) \cap C = {}
        /\ \A e \in C : AccountedFor(e)'
        /\ \A d \in C, e \in Entries : d \in traps' /\ e \in traps' /\ Alike(d, e)' => d = e
    OBVIOUS
  <1> HIDE DEF C
  <1> QED BY <1>1, <1>2, <1>3, <1>4, TrapStep

\* A thread frees an entry that it holds.
LEMMA FreeHeldStep ==
    ASSUME TrapInv, NEW t \in Threads, NEW r \in ThreadRec, thread' = [thread EXCEPT ![t] = r],
           NEW e \in Held(t), entry' = Free(e), traps' = traps \ {e},
           UNCHANGED <<allocated, installing, acquires>>, r.pc # "checkout",
           Installs(t)' <=> Installs(t), ThreadSound(t)', Held(t)' \subseteq Held(t),
           Took(t) => \/ thread[t].found \in {0, e}
                      \/ Took(t)' /\ thread'[t].found = thread[t].found
    PROVE  TrapInv'
  <1>1. /\ thread' \in [Threads -> ThreadRec] /\ thread'[t] = r
        /\ \A u \in Threads \ {t} : thread'[u] = thread[u]
    BY ThreadStep DEF TrapInv
  <1>2. e \in Entries /\ e \in 1..allocated /\ allocated \in Nat
    BY HeldAllocated, RecordFields DEF TrapInv, Types, Held
  <1>3. /\ entry' \in [Entries -> EntryRec] /\ entry'[e].freed
        /\ \A d \in Entries \ {e} : entry'[d] = entry[d]
    BY <1>2, FreeStep DEF TrapInv
  <1>4. Types'
    BY <1>1, <1>3 DEF TrapInv, Types
  <1>5. InstallingKnown' /\ NobodyAfterFlush'
    BY <1>1, InstallersSame
  <1> DEFINE C == {e}
  <1>6. /\ C \in SUBSET Entries /\ Held(t)' \subseteq Held(t) \cup C
        /\ \A d \in Entries \ C : entry'[d] = entry[d] /\ (d \in traps' <=> d \in traps)
        /\ \A d \in C, f \in Entries : d \in traps' /\ f \in traps' /\ Alike(d, f)' => d = f
        /\ Took(t) => \/ thread[t].found \in C \cup {0}
                      \/ Took(t)' /\ thread'[t].found = thread[t].found
    BY <1>2, <1>3
  <1>7. \A u \in Threads \ {t} : Held(u) \cap C = {}
    BY DEF TrapInv, Exclusive
  <1>8. \A d \in C : AccountedFor(d)'
    BY <1>2, <1>3 DEF AccountedFor
  <1> HIDE DEF C
  <1> QED BY <1>1, <1>4, <1>5, <1>6, <1>7, <1>8, TrapStep

-----------------------------------------------------------------------------
(* install().                                                              *)

\* Traps that may be replaced or removed are those nobody refers to.
LEMMA RoutedFree ==
    ASSUME TrapInv, NEW e \in traps, ~entry[e].external,
           entry[e].installed \/ installing = 0, NEW u \in Threads
    PROVE  e \notin Held(u) /\ e \in Entries
  <1>1. ThreadSound(u) /\ thread[u] \in ThreadRec
    BY HeldAllocated
  <1>2. thread[u].pc = "installing" => installing # 0
    <2> SUFFICES ASSUME thread[u].pc = "installing", installing = 0 PROVE FALSE
      OBVIOUS
    <2>1. u \in Installers
      BY DEF Installers, Installs
    <2>2. Cardinality(Installers) = 0
      BY DEF TrapInv, InstallingKnown, Disabled
    <2> QED BY <2>1, <2>2, InstallersFinite, FS_EmptySet
  <1>3. e \in Entries
    BY RecordFields DEF TrapInv, Types, Entries
  <1>4. CASE e = thread[u].entry /\ Installed(u)
    BY <1>1, <1>2, <1>4 DEF ThreadSound, Installed
  <1>5. CASE e = thread[u].found /\ Took(u)
    <2>1. e # 0
      BY <1>3 DEF Entries
    <2> QED BY <1>1, <1>5, <2>1 DEF ThreadSound
  <1>6. CASE e = thread[u].found /\ thread[u].pc = "keep"
    BY <1>1, <1>6 DEF ThreadSound
  <1> QED BY <1>3, <1>4, <1>5, <1>6 DEF Held

\* A trap is put into the list, instead of one that it updates.
LEMMA InstallKeeps ==
    ASSUME TrapInv, NEW t \in Threads, NEW n \in Names, Install(t, n)
    PROVE  TrapInv'
  <1> DEFINE e == allocated + 1
             found == IF Routed(n) = {} THEN 0 ELSE CHOOSE f \in Routed(n) : TRUE
             r == [pc |-> "installing", op |-> "install", name |-> n, entry |-> e, found |-> found]
             E == [entry[e] EXCEPT !.name = n]
  <1>1. /\ thread[t].pc = "idle" /\ allocated < MaxEntries /\ installing # Disabled
        /\ installing' = installing + 1 /\ UNCHANGED acquires /\ allocated' = e
        /\ traps' = (traps \ {found}) \cup {e} /\ thread' = [thread EXCEPT ![t] = r]
        /\ \A f \in Routed(n) : entry[f].installed
    BY DEF Install, Start, Insert
  <1>2. /\ allocated \in Nat /\ MaxEntries \in Nat /\ e \in Entries /\ traps \subseteq 1..allocated
        /\ e \notin traps /\ 1..allocated \subseteq Entries
        /\ entry \in [Entries -> EntryRec] /\ thread \in [Threads -> ThreadRec]
    BY <1>1, RecordFields DEF TrapInv, Types, Entries
  <1>3. \/ found = 0 /\ Routed(n) = {}
        \/ found \in Routed(n)
    OBVIOUS
  <1>4. found \in 0..allocated
    <2> HIDE DEF found
    <2>1. CASE found = 0
      BY <1>2, <2>1
    <2>2. CASE found \in Routed(n)
      <3>1. found \in traps
        BY <2>2 DEF Routed
      <3>2. found \in 1..allocated
        BY <1>2, <3>1
      <3> QED BY <1>2, <3>2
    <2> QED BY <1>3, <2>1, <2>2
  <1>5. entry[e] = NoEntry
    BY <1>2 DEF TrapInv, Accounted, AccountedFor
  <1>6. /\ E \in EntryRec /\ E.name = n /\ ~E.installed /\ ~E.freed
    BY <1>5, RecordFields DEF NoEntry, EntryRec
  <1>7. entry' = [entry EXCEPT ![e] = E]
    BY <1>2 DEF Install
  <1> HIDE DEF found, E
  <1>8. /\ r \in ThreadRec /\ r.pc = "installing" /\ r.entry = e /\ r.found = found
    BY <1>2, <1>4, RecordFields DEF ThreadRec, Pcs, AllOps, Entries
  <1> HIDE DEF r
  <1>9. /\ thread' \in [Threads -> ThreadRec] /\ thread'[t] = r
        /\ \A u \in Threads \ {t} : thread'[u] = thread[u]
    BY <1>1, <1>8, ThreadStep DEF TrapInv
  <1>10. /\ entry' \in [Entries -> EntryRec] /\ entry'[e] = E
         /\ \A d \in Entries \ {e} : entry'[d] = entry[d]
    BY <1>2, <1>6, <1>7
  <1>11. Types'
    <2>1. allocated' \in 0..MaxEntries
      BY <1>1, <1>2
    <2>2. ASSUME NEW d \in traps' PROVE d \in 1..allocated'
      <3>1. d \in traps \/ d = e
        BY <1>1
      <3>2. CASE d = e
        BY <1>1, <1>2, <3>2
      <3>3. CASE d \in traps
        <4>1. d \in 1..allocated
          BY <1>2, <3>3
        <4> QED BY <1>1, <1>2, <4>1
      <3> QED BY <3>1, <3>2, <3>3
    <2> QED BY <1>1, <1>9, <1>10, <2>1, <2>2 DEF TrapInv, Types
  <1>12. InstallingKnown' /\ NobodyAfterFlush' /\ installing' # Disabled
    <2>1. t \notin Installers /\ Installers' = Installers \cup {t}
      BY <1>1, <1>8, <1>9 DEF Installers, Installs
    <2>2. installing = Cardinality(Installers)
      BY <1>1 DEF TrapInv, InstallingKnown
    <2>3. Cardinality(Installers') = Cardinality(Installers) + 1
      BY <2>1, InstallersFinite, FS_AddElement
    <2> QED BY <1>1, <2>2, <2>3, InstallersFinite DEF InstallingKnown, NobodyAfterFlush, Disabled
  <1>13. found # 0 => /\ found \in traps /\ found \in 1..allocated /\ ~entry[found].freed
                      /\ ~entry[found].external /\ entry[found].installed /\ entry[found].name = n
    <2> SUFFICES ASSUME found # 0
                 PROVE  /\ found \in traps /\ found \in 1..allocated /\ ~entry[found].freed
                        /\ ~entry[found].external /\ entry[found].installed /\ entry[found].name = n
      OBVIOUS
    <2>1. /\ found \in traps /\ ~entry[found].external /\ entry[found].name = n
          /\ entry[found].installed
      BY <1>1, <1>3 DEF Routed
    <2>2. found \in 1..allocated /\ ~entry[found].freed
      BY <1>2, <2>1 DEF TrapInv, Accounted, AccountedFor
    <2> QED BY <2>1, <2>2
  <1>14. ThreadSound(t)'
    <2>1. e # found
      BY <1>2, <1>4
    <2>2. found # 0 => found \in (1..allocated') \ traps' /\ ~entry'[found].freed
      BY <1>1, <1>2, <1>10, <1>13, <2>1
    <2> QED BY <1>1, <1>6, <1>8, <1>9, <1>10, <2>1, <2>2 DEF ThreadSound, Took
  <1> DEFINE C == {d \in Entries : d = e \/ d = found}
  <1>15. /\ C \in SUBSET Entries /\ Held(t)' \subseteq Held(t) \cup C
         /\ \A d \in Entries \ C : entry'[d] = entry[d] /\ (d \in traps' <=> d \in traps)
         /\ e \in C
    BY <1>1, <1>2, <1>8, <1>9, <1>10 DEF Held
  <1>16. ASSUME NEW u \in Threads \ {t} PROVE Held(u) \cap C = {}
    <2>1. e \notin Held(u)
      BY <1>2, HeldAllocated
    <2>2. found \notin Held(u)
      <3>1. CASE found = 0
        BY <1>2, <3>1, HeldAllocated
      <3>2. CASE found # 0
        BY <1>13, <3>2, RoutedFree
      <3> QED BY <3>1, <3>2
    <2> QED BY <2>1, <2>2
  <1>17. ASSUME NEW d \in C PROVE AccountedFor(d)'
    <2>1. CASE d = e
      BY <1>1, <1>2, <1>6, <1>10, <2>1 DEF AccountedFor
    <2>2. CASE d = found /\ d # e
      <3>1. Took(t)' /\ thread'[t].found = d /\ d # 0
        BY <1>8, <1>9, <2>2 DEF Took, Entries
      <3>2. d \notin traps' /\ d <= allocated'
        BY <1>1, <1>2, <1>4, <2>2
      <3>3. ~(d > allocated')
        BY <1>1, <1>2, <1>4, <2>2
      <3> QED BY <3>1, <3>2, <3>3 DEF AccountedFor
    <2> QED BY <2>1, <2>2
  <1>18. ASSUME NEW d \in C, NEW f \in Entries, d \in traps', f \in traps', Alike(d, f)'
         PROVE  d = f
    <2>1. d = e
      BY <1>1, <1>18
    <2>2. CASE f # e
      <3>1. f \in traps /\ f # found /\ entry'[f] = entry[f]
        BY <1>1, <1>10, <1>18, <2>2
      <3>2. f \in Routed(n)
        BY <1>6, <1>10, <1>18, <2>1, <3>1 DEF Routed, Alike
      <3>3. found \in Routed(n)
        BY <1>3, <3>2
      <3>4. Alike(f, found) /\ found \in traps
        BY <3>2, <3>3 DEF Routed, Alike
      <3> QED BY <3>1, <3>4 DEF TrapInv, RoutedOnce
    <2> QED BY <2>1, <2>2
  <1> HIDE DEF C
  <1>19. ~Took(t)
    BY <1>1 DEF Took
  <1> QED BY <1>1, <1>8, <1>9, <1>11, <1>12, <1>14, <1>15, <1>16, <1>17, <1>18, <1>19, TrapStep

\* Another position of a thread that keeps what it refers to, or forgets what it found.
LEMMA GotoType ==
    ASSUME NEW r \in ThreadRec, NEW pc \in Pcs
    PROVE  /\ [r EXCEPT !.pc = pc] \in ThreadRec /\ [r EXCEPT !.pc = pc].pc = pc
           /\ [r EXCEPT !.pc = pc].entry = r.entry /\ [r EXCEPT !.pc = pc].found = r.found
           /\ [r EXCEPT !.pc = pc].name = r.name
  BY DEF ThreadRec

\* The kernel installs the policies of a trap, or not.
LEMMA InstallPoliciesKeeps ==
    ASSUME TrapInv, NEW t \in Threads, InstallPolicies(t)
    PROVE  TrapInv'
  <1> DEFINE e == thread[t].entry
             pc == IF thread[t].found = 0 THEN "finish" ELSE "replace"
             r == [thread[t] EXCEPT !.pc = pc]
  <1>1. /\ thread[t].pc = "installing" /\ thread' = [thread EXCEPT ![t] = r]
        /\ UNCHANGED <<allocated, installing, acquires>>
        /\ \/ entry' = [entry EXCEPT ![e].installed = TRUE] /\ UNCHANGED traps
           \/ entry' = Free(e) /\ traps' = traps \ {e}
    BY DEF InstallPolicies, Goto, TrapInv, Types
  <1>2. /\ thread[t] \in ThreadRec /\ e \in traps /\ e # thread[t].found /\ ~entry[e].installed
        /\ thread[t].found = 0 \/ /\ thread[t].found \in (1..allocated) \ traps
                                  /\ ~entry[thread[t].found].freed
    BY <1>1, HeldAllocated DEF ThreadSound, Took
  <1>3. /\ e \in Entries /\ e \in Held(t) /\ entry \in [Entries -> EntryRec] /\ e \in 1..allocated
        /\ allocated \in Nat
    <2>1. /\ traps \subseteq 1..allocated /\ allocated \in 0..MaxEntries /\ MaxEntries \in Nat
          /\ entry \in [Entries -> EntryRec]
      BY RecordFields DEF TrapInv, Types
    <2>2. e \in Entries /\ e \in 1..allocated
      <3>1. e \in traps
        BY <1>2
      <3> HIDE DEF e
      <3>2. e \in 1..allocated
        BY <2>1, <3>1
      <3> QED BY <2>1, <3>2 DEF Entries
    <2> QED BY <1>1, <2>1, <2>2 DEF Held, Installed
  <1>4. r \in ThreadRec /\ r.pc = pc /\ r.entry = e /\ r.found = thread[t].found
    <2>1. pc \in Pcs
      BY DEF Pcs
    <2> HIDE DEF pc
    <2> QED BY <1>2, <2>1, GotoType
  <1> HIDE DEF r
  <1>5. /\ thread' \in [Threads -> ThreadRec] /\ thread'[t] = r
        /\ \A u \in Threads \ {t} : thread'[u] = thread[u]
    BY <1>1, <1>4, ThreadStep DEF TrapInv
  <1>6. /\ Installs(t)' <=> Installs(t)
        /\ Held(t)' \subseteq Held(t)
        /\ Took(t) => \/ thread[t].found = 0
                      \/ Took(t)' /\ thread'[t].found = thread[t].found
    BY <1>1, <1>4, <1>5 DEF Installs, Held, Installed, Took
  <1>7. CASE entry' = Free(e) /\ traps' = traps \ {e}
    <2>1. \A d \in Entries \ {e} : entry'[d] = entry[d]
      BY <1>3, <1>7, FreeStep DEF TrapInv
    <2>2. 1..allocated \subseteq Entries
      BY RecordFields DEF TrapInv, Types, Entries
    <2>3. ThreadSound(t)'
      BY <1>1, <1>2, <1>4, <1>5, <1>7, <2>1, <2>2 DEF ThreadSound, Took
    <2>4. r.pc # "checkout"
      BY <1>4
    <2> HIDE DEF pc, e
    <2> QED BY <1>1, <1>3, <1>4, <1>6, <1>7, <2>3, <2>4, FreeHeldStep
  <1>8. CASE entry' = [entry EXCEPT ![e].installed = TRUE] /\ UNCHANGED traps
    <2> DEFINE E == [entry[e] EXCEPT !.installed = TRUE]
               C == {e}
    <2>1. /\ E \in EntryRec /\ E.name = entry[e].name /\ E.external = entry[e].external
          /\ E.freed = entry[e].freed
      BY <1>3 DEF EntryRec
    <2>2. entry' = [entry EXCEPT ![e] = E]
      BY <1>3, <1>8
    <2> HIDE DEF E
    <2>3. /\ entry' \in [Entries -> EntryRec] /\ entry'[e] = E
          /\ \A d \in Entries \ {e} : entry'[d] = entry[d]
      BY <1>3, <2>1, <2>2
    <2>4. Types'
      BY <1>1, <1>5, <1>8, <2>3 DEF TrapInv, Types
    <2>5. 1..allocated \subseteq Entries
      BY RecordFields DEF TrapInv, Types, Entries
    <2>6. ThreadSound(t)'
      BY <1>1, <1>2, <1>4, <1>5, <1>8, <2>3, <2>5 DEF ThreadSound, Took
    <2>7. InstallingKnown' /\ NobodyAfterFlush'
      BY <1>1, <1>5, <1>6, InstallersSame
    <2>8. \A u \in Threads \ {t} : Held(u) \cap C = {}
      BY <1>3 DEF TrapInv, Exclusive
    <2>9. \A d \in C : AccountedFor(d)'
      BY <1>1, <1>2, <1>3, <1>8, <2>1, <2>3 DEF TrapInv, Accounted, AccountedFor
    <2>10. \A d \in C, f \in Entries : d \in traps' /\ f \in traps' /\ Alike(d, f)' => d = f
      BY <1>2, <1>3, <1>8, <2>1, <2>3 DEF TrapInv, RoutedOnce, Alike
    <2>11. /\ C \in SUBSET Entries /\ Held(t)' \subseteq Held(t) \cup C
           /\ \A d \in Entries \ C : entry'[d] = entry[d] /\ (d \in traps' <=> d \in traps)
           /\ thread'[t].pc # "checkout"
      BY <1>3, <1>4, <1>5, <1>6, <1>8, <2>3
    <2> HIDE DEF C
    <2> QED BY <1>1, <1>5, <1>6, <2>4, <2>6, <2>7, <2>8, <2>9, <2>10, <2>11, TrapStep
  <1> QED BY <1>1, <1>7, <1>8

\* The trap that was updated is destroyed.
LEMMA DestroyFoundKeeps ==
    ASSUME TrapInv, NEW t \in Threads, DestroyFound(t)
    PROVE  TrapInv'
  <1> DEFINE e == thread[t].found
             r == [thread[t] EXCEPT !.pc = "finish", !.found = 0]
  <1>1. /\ thread[t].pc = "replace" /\ thread' = [thread EXCEPT ![t] = r] /\ entry' = Free(e)
        /\ UNCHANGED <<allocated, traps, installing, acquires>>
    BY DEF DestroyFound, TrapInv, Types
  <1>2. thread[t] \in ThreadRec /\ e \in (1..allocated) \ traps
    BY <1>1, HeldAllocated DEF ThreadSound, Took
  <1>3. e \in Held(t)
    <2>1. e \in Entries
      BY <1>2, RecordFields DEF TrapInv, Types, Entries
    <2> QED BY <1>1, <2>1 DEF Held, Took
  <1>4. r \in ThreadRec /\ r.pc = "finish"
    BY <1>2, RecordFields DEF ThreadRec, Pcs
  <1>5. traps' = traps \ {e}
    BY <1>1, <1>2
  <1> HIDE DEF r
  <1>6. thread'[t] = r
    BY <1>1, <1>4, ThreadStep DEF TrapInv
  <1>7. /\ Installs(t)' <=> Installs(t)
        /\ Held(t)' \subseteq Held(t) /\ ThreadSound(t)'
    BY <1>1, <1>4, <1>6 DEF Installs, Held, Installed, Took, ThreadSound
  <1>8. r.pc # "checkout" /\ thread[t].found \in {0, e}
    BY <1>4
  <1> HIDE DEF e
  <1> QED BY <1>1, <1>3, <1>4, <1>5, <1>7, <1>8, FreeHeldStep

\* A thread has installed a trap, and wakes one that waits for it.
LEMMA FinishKeeps ==
    ASSUME TrapInv, NEW t \in Threads, Finish(t)
    PROVE  TrapInv'
  <1> DEFINE th == [thread EXCEPT ![t] = Idle]
  <1>1. /\ thread[t].pc = "finish" /\ installing' = installing - 1
        /\ thread' \in Signal(th) /\ UNCHANGED <<entry, allocated, traps, acquires>>
    BY DEF Finish
  <1>2. /\ thread \in [Threads -> ThreadRec] /\ th \in [Threads -> ThreadRec] /\ th[t] = Idle
        /\ \A u \in Threads \ {t} : th[u] = thread[u]
    BY RecordFields DEF TrapInv, Types
  <1> HIDE DEF th
  <1>3. \/ thread' = th
        \/ \E w \in Threads : th[w].pc = "wait" /\ thread' = [th EXCEPT ![w].pc = "woken"]
    BY <1>1 DEF Signal, Waiting
  <1>4. /\ thread' \in [Threads -> ThreadRec] /\ thread'[t].pc = "idle"
        /\ \A u \in Threads \ {t} : \/ thread'[u] = thread[u]
                                    \/ thread[u].pc = "wait" /\ thread'[u].pc = "woken"
    <2>1. CASE thread' = th
      BY <1>2, <2>1, RecordFields
    <2>2. ASSUME NEW w \in Threads, th[w].pc = "wait", thread' = [th EXCEPT ![w].pc = "woken"]
          PROVE  /\ thread' \in [Threads -> ThreadRec] /\ thread'[t].pc = "idle"
                 /\ \A u \in Threads \ {t} : \/ thread'[u] = thread[u]
                                             \/ thread[u].pc = "wait" /\ thread'[u].pc = "woken"
      <3> DEFINE r == [th[w] EXCEPT !.pc = "woken"]
      <3>1. r \in ThreadRec /\ r.pc = "woken"
        <4>1. th[w] \in ThreadRec /\ "woken" \in Pcs
          BY <1>2 DEF Pcs
        <4> QED BY <4>1, GotoType
      <3>2. thread' = [th EXCEPT ![w] = r]
        BY <1>2, <2>2
      <3> HIDE DEF r
      <3>3. w # t
        BY <1>2, <2>2, RecordFields
      <3> QED BY <1>2, <2>2, <3>1, <3>2, <3>3, RecordFields
    <2> QED BY <1>3, <2>1, <2>2
  <1>5. installing = Cardinality(Installers) /\ t \in Installers /\ installing # Disabled
    BY <1>1 DEF TrapInv, InstallingKnown, NobodyAfterFlush, Installers, Installs
  <1>6. InstallingKnown' /\ NobodyAfterFlush' /\ installing' # Disabled
    <2>1. Installers' = Installers \ {t}
      BY <1>4 DEF Installers, Installs
    <2>2. Cardinality(Installers') = Cardinality(Installers) - 1
      BY <1>5, <2>1, InstallersFinite, FS_RemoveElement
    <2> QED BY <1>1, <1>5, <2>2, InstallersFinite DEF InstallingKnown, NobodyAfterFlush, Disabled
  <1>7. Types'
    BY <1>1, <1>4 DEF TrapInv, Types
  <1>8. \A u \in Threads : Held(u)' = Held(u) /\ (Took(u)' => thread'[u] = thread[u])
                           /\ (Took(u) => Took(u)' /\ thread'[u] = thread[u])
                           /\ (thread'[u].pc = "checkout" => thread'[u] = thread[u])
    BY <1>1, <1>4 DEF Held, Took, Installed
  <1>9. Exclusive'
    BY <1>8 DEF TrapInv, Exclusive
  <1>10. ThreadsSound'
    <2> SUFFICES ASSUME NEW u \in Threads PROVE ThreadSound(u)'
      BY DEF ThreadsSound
    <2>1. CASE thread'[u].pc \in {"idle", "woken"}
      BY <2>1 DEF ThreadSound, Took
    <2>2. CASE thread'[u] = thread[u]
      <3>1. ThreadSound(u)
        BY HeldAllocated
      <3> QED BY <1>1, <1>5, <2>2, <3>1 DEF ThreadSound, Took, Listed
    <2> QED BY <1>4, <2>1, <2>2
  <1>11. Accounted' /\ RoutedOnce'
    <2>1. Accounted'
      BY <1>1, <1>8 DEF TrapInv, Accounted, AccountedFor
    <2> QED BY <1>1, <2>1 DEF TrapInv, RoutedOnce, Alike
  <1>12. OneAcquire'
    BY <1>8 DEF TrapInv, OneAcquire
  <1> QED BY <1>6, <1>7, <1>9, <1>10, <1>11, <1>12 DEF TrapInv

-----------------------------------------------------------------------------
(* uninstall() and flush().                                                *)

\* A thread that waits, or is done.
LEMMA RestKeeps ==
    ASSUME TrapInv, NEW t \in Threads, NEW r \in ThreadRec, thread' = [thread EXCEPT ![t] = r],
           thread[t].pc \in {"idle", "woken"}, r.pc \in {"idle", "wait"},
           UNCHANGED <<entry, allocated, traps, installing, acquires>>
    PROVE  TrapInv'
  <1>1. thread'[t] = r
    BY ThreadStep DEF TrapInv
  <1>2. /\ Installs(t)' <=> Installs(t)
        /\ Held(t)' \subseteq Held(t) /\ ThreadSound(t)' /\ ~Took(t)
    BY <1>1 DEF Installs, Held, Installed, Took, ThreadSound
  <1>3. acquires' \in [Names -> AcquireRec] /\ r.pc # "checkout"
    BY DEF TrapInv, Types
  <1> QED BY <1>2, <1>3, QuietStep

\* A trap is removed from the list.
LEMMA RemoveTrapKeeps ==
    ASSUME TrapInv, NEW t \in Threads, NEW n, RemoveTrap(t, n), installing = 0,
           thread[t].pc \in {"idle", "woken"}, UNCHANGED <<allocated, acquires>>
    PROVE  TrapInv'
  <1>1. PICK e \in Routed(n) \cup {0} :
            /\ traps' = traps \ {e}
            /\ thread' = [thread EXCEPT ![t] =
                   IF e = 0 THEN Idle ELSE [Idle EXCEPT !.pc = "destroy", !.op = "uninstall",
                                                        !.found = e]]
    BY DEF RemoveTrap
  <1>2. /\ UNCHANGED <<entry, installing>> /\ 0 \notin traps /\ 1..allocated \subseteq Entries
        /\ allocated \in Nat /\ traps \subseteq 1..allocated
    BY RecordFields DEF RemoveTrap, TrapInv, Types, Entries
  <1>3. CASE e = 0
    <2>1. thread' = [thread EXCEPT ![t] = Idle] /\ UNCHANGED traps
      BY <1>1, <1>2, <1>3
    <2> QED BY <1>2, <2>1, RecordFields, RestKeeps
  <1>4. CASE e # 0
    <2> DEFINE r == [Idle EXCEPT !.pc = "destroy", !.op = "uninstall", !.found = e]
    <2>1. e \in traps /\ ~entry[e].external
      BY <1>1, <1>4 DEF Routed
    <2>2. e \in 1..allocated /\ e \in Entries
      BY <1>2, <2>1
    <2>3. thread' = [thread EXCEPT ![t] = r]
      BY <1>1, <1>4
    <2>4. r \in ThreadRec /\ r.pc = "destroy" /\ r.found = e
      <3>1. e \in 0..MaxEntries /\ "destroy" \in Pcs /\ "uninstall" \in AllOps \cup {"none"}
        BY <2>2, RecordFields DEF Pcs, AllOps, Entries
      <3>2. Idle \in ThreadRec
        BY RecordFields
      <3> QED BY <3>1, <3>2 DEF ThreadRec
    <2> HIDE DEF r
    <2>5. /\ thread' \in [Threads -> ThreadRec] /\ thread'[t] = r
          /\ \A u \in Threads \ {t} : thread'[u] = thread[u]
      BY <2>3, <2>4, ThreadStep DEF TrapInv
    <2>6. Types'
      BY <1>1, <1>2, <2>5 DEF TrapInv, Types
    <2>7. /\ Installs(t)' <=> Installs(t)
          /\ ~Took(t) /\ Took(t)' /\ thread'[t].pc # "checkout"
      BY <2>4, <2>5 DEF Installs, Took
    <2>8. InstallingKnown' /\ NobodyAfterFlush'
      BY <1>2, <2>5, <2>7, InstallersSame
    <2>9. ThreadSound(t)'
      <3>1. ~entry[e].freed
        BY <2>1, <2>2 DEF TrapInv, Accounted, AccountedFor
      <3> QED BY <1>1, <1>2, <2>2, <2>4, <2>5, <3>1 DEF ThreadSound, Took
    <2> DEFINE C == {e}
    <2>10. \A u \in Threads \ {t} : Held(u) \cap C = {}
      BY <2>1, RoutedFree
    <2>11. \A d \in C : AccountedFor(d)'
      BY <1>1, <1>2, <2>2, <2>4, <2>5, <2>7 DEF AccountedFor
    <2>12. /\ C \in SUBSET Entries /\ Held(t)' \subseteq Held(t) \cup C
           /\ \A d \in Entries \ C : entry'[d] = entry[d] /\ (d \in traps' <=> d \in traps)
           /\ \A d \in C, f \in Entries : d \in traps' /\ f \in traps' /\ Alike(d, f)' => d = f
      BY <1>1, <1>2, <2>2, <2>4, <2>5 DEF Held, Installed
    <2> HIDE DEF C
    <2> QED BY <1>2, <2>5, <2>6, <2>7, <2>8, <2>9, <2>10, <2>11, <2>12, TrapStep
  <1> QED BY <1>3, <1>4

\* The list is flushed while nobody installs.
LEMMA FlushTrapsKeeps ==
    ASSUME TrapInv, NEW t \in Threads, FlushTraps(t), installing = 0,
           thread[t].pc \in {"idle", "woken"}, UNCHANGED <<allocated, acquires>>
    PROVE  TrapInv'
  <1>1. /\ entry' = [e \in Entries |-> [entry[e] EXCEPT !.freed = @ \/ e \in traps]]
        /\ traps' = {} /\ installing' = Disabled /\ thread' = [thread EXCEPT ![t] = Idle]
    BY DEF FlushTraps, Done
  <1>2. /\ thread' \in [Threads -> ThreadRec] /\ thread'[t].pc = "idle"
        /\ \A u \in Threads \ {t} : thread'[u] = thread[u]
    BY <1>1, RecordFields, ThreadStep DEF TrapInv
  <1>3. ASSUME NEW e \in Entries
        PROVE  /\ entry'[e] \in EntryRec /\ entry'[e].freed = (entry[e].freed \/ e \in traps)
               /\ entry'[e].external = entry[e].external
    <2>1. entry[e] \in EntryRec /\ entry'[e] = [entry[e] EXCEPT !.freed = @ \/ e \in traps]
      BY <1>1 DEF TrapInv, Types
    <2> QED BY <2>1 DEF EntryRec
  <1>4. ASSUME NEW e \in Entries, e > allocated PROVE entry'[e] = NoEntry
    <2>1. entry[e] = NoEntry /\ e \notin traps
      BY <1>4 DEF TrapInv, Accounted, AccountedFor, Types, Entries
    <2>2. entry'[e] = [NoEntry EXCEPT !.freed = FALSE]
      BY <1>1, <2>1, RecordFields DEF NoEntry
    <2> QED BY <2>2 DEF NoEntry
  <1>5. Installers = {}
    <2>1. Cardinality(Installers) = 0
      BY DEF TrapInv, InstallingKnown, Disabled
    <2> QED BY <2>1, InstallersFinite, FS_EmptySet
  <1>6. InstallingKnown' /\ NobodyAfterFlush'
    <2>1. Installers' = {}
      BY <1>2, <1>5 DEF Installers, Installs
    <2> QED BY <1>1, <2>1 DEF InstallingKnown, NobodyAfterFlush
  <1>7. Types'
    <2>1. entry' \in [Entries -> EntryRec]
      BY <1>1, <1>3
    <2> QED BY <1>1, <1>2, <2>1 DEF TrapInv, Types
  <1>8. /\ \A u \in Threads \ {t} : Held(u)' = Held(u)
        /\ Held(t)' = {}
    BY <1>2 DEF Held, Took, Installed
  <1>9. Exclusive'
    BY <1>8 DEF TrapInv, Exclusive
  <1>10. ThreadsSound'
    <2> SUFFICES ASSUME NEW u \in Threads PROVE ThreadSound(u)'
      BY DEF ThreadsSound
    <2>1. CASE u = t
      BY <1>2, <2>1 DEF ThreadSound, Took
    <2>2. CASE u # t
      <3>1. /\ ThreadSound(u) /\ thread'[u] = thread[u] /\ 1..allocated \subseteq Entries
            /\ thread[u].pc # "installing"
        BY <1>2, <1>5, <2>2, HeldAllocated, RecordFields
           DEF TrapInv, Types, Entries, Installers, Installs
      <3>2. \A e \in 1..allocated :
               /\ entry'[e].external = entry[e].external
               /\ e \notin traps => (entry'[e].freed <=> entry[e].freed)
        <4>1. ASSUME NEW e \in 1..allocated
              PROVE  /\ entry[e] \in EntryRec
                     /\ entry'[e] = [entry[e] EXCEPT !.freed = @ \/ e \in traps]
          BY <1>1, <3>1 DEF TrapInv, Types
        <4> QED BY <4>1 DEF EntryRec
      <3>3. Took(u) => /\ thread[u].found \in (1..allocated) \ traps
                       /\ ~entry[thread[u].found].freed
        BY <3>1 DEF ThreadSound, Took
      <3>4. Took(u)' => /\ thread'[u].found \in (1..allocated') \ traps'
                        /\ ~entry'[thread'[u].found].freed
        BY <1>1, <3>1, <3>2, <3>3 DEF Took
      <3> QED BY <1>1, <3>1, <3>2, <3>4 DEF ThreadSound, Listed
    <2> QED BY <2>1, <2>2
  <1>11. Accounted'
    <2> SUFFICES ASSUME NEW e \in Entries PROVE AccountedFor(e)'
      BY DEF Accounted
    <2>1. AccountedFor(e)
      BY DEF TrapInv, Accounted
    <2>2. ASSUME NEW u \in Threads, Took(u) PROVE Took(u)' /\ thread'[u] = thread[u]
      BY <1>2, <2>2 DEF Took
    <2> QED BY <1>1, <1>3, <1>4, <2>1, <2>2 DEF AccountedFor
  <1>12. RoutedOnce'
    BY <1>1 DEF RoutedOnce
  <1>13. OneAcquire'
    BY <1>2 DEF TrapInv, OneAcquire
  <1> QED BY <1>6, <1>7, <1>9, <1>10, <1>11, <1>12, <1>13 DEF TrapInv

\* A call of uninstall() or flush() waits while somebody installs, and goes on else.
LEMMA ContinueKeeps ==
    ASSUME TrapInv, NEW t \in Threads, NEW op \in AllOps \cup {"none"}, NEW n \in Names \cup {NoName},
           Continue(t, op, n), thread[t].pc \in {"idle", "woken"}, UNCHANGED <<allocated, acquires>>
    PROVE  TrapInv'
  <1>1. CASE installing # 0
    <2> DEFINE r == [Idle EXCEPT !.pc = "wait", !.op = op, !.name = n]
    <2>1. r \in ThreadRec /\ r.pc = "wait"
      BY RecordFields DEF Idle, ThreadRec, Pcs
    <2>2. thread' = [thread EXCEPT ![t] = r] /\ UNCHANGED <<entry, traps, installing>>
      BY <1>1 DEF Continue, Busy
    <2> HIDE DEF r
    <2> QED BY <2>1, <2>2, RestKeeps
  <1>2. CASE installing = 0 /\ op = "flush"
    <2>1. FlushTraps(t)
      BY <1>2 DEF Continue, Busy
    <2> QED BY <1>2, <2>1, FlushTrapsKeeps
  <1>3. CASE installing = 0 /\ op # "flush"
    <2>1. RemoveTrap(t, n)
      BY <1>3 DEF Continue, Busy
    <2> QED BY <1>3, <2>1, RemoveTrapKeeps
  <1> QED BY <1>1, <1>2, <1>3

\* The three ways to begin or resume such a call.
LEMMA RemovalKeeps ==
    ASSUME TrapInv, NEW t \in Threads,
           Flush(t) \/ Wake(t) \/ \E n \in Names : Uninstall(t, n)
    PROVE  TrapInv'
  <1>1. CASE Flush(t)
    BY <1>1, ContinueKeeps DEF Flush, Start, AllOps
  <1>2. CASE Wake(t)
    <2>1. /\ thread[t].pc = "woken" /\ Continue(t, thread[t].op, thread[t].name)
          /\ UNCHANGED <<allocated, acquires>>
      BY <1>2 DEF Wake
    <2>2. thread[t].op \in AllOps \cup {"none"} /\ thread[t].name \in Names \cup {NoName}
      BY HeldAllocated DEF ThreadRec
    <2> QED BY <2>1, <2>2, ContinueKeeps
  <1>3. ASSUME NEW n \in Names, Uninstall(t, n) PROVE TrapInv'
    BY <1>3, ContinueKeeps DEF Uninstall, Start, AllOps
  <1> QED BY <1>1, <1>2, <1>3

\* The trap that was removed is destroyed.
LEMMA DestroyKeeps ==
    ASSUME TrapInv, NEW t \in Threads, Destroy(t)
    PROVE  TrapInv'
  <1> DEFINE e == thread[t].found
  <1>1. /\ thread[t].pc = "destroy" /\ thread' = [thread EXCEPT ![t] = Idle] /\ entry' = Free(e)
        /\ UNCHANGED <<allocated, traps, installing, acquires>>
    BY DEF Destroy, Done
  <1>2. e \in (1..allocated) \ traps
    BY <1>1, HeldAllocated DEF ThreadSound, Took
  <1>3. e \in Held(t)
    <2>1. e \in Entries
      BY <1>2, RecordFields DEF TrapInv, Types, Entries
    <2> QED BY <1>1, <2>1 DEF Held, Took
  <1>4. traps' = traps \ {e}
    BY <1>1, <1>2
  <1>5. thread'[t] = Idle
    BY <1>1, RecordFields, ThreadStep DEF TrapInv
  <1>6. /\ Installs(t)' <=> Installs(t)
        /\ Held(t)' \subseteq Held(t) /\ ThreadSound(t)'
    BY <1>1, <1>5, RecordFields DEF Installs, Held, Installed, Took, ThreadSound
  <1>7. thread[t].found \in {0, e} /\ Idle \in ThreadRec /\ Idle.pc # "checkout"
    BY RecordFields
  <1> HIDE DEF e
  <1> QED BY <1>1, <1>3, <1>4, <1>6, <1>7, FreeHeldStep

-----------------------------------------------------------------------------
(* install_external() and remove_external().                               *)

\* A trap of a CHILD_SA is put into the list.
LEMMA InstallExternalKeeps ==
    ASSUME TrapInv, NEW t \in Threads, NEW n \in Names, InstallExternal(t, n)
    PROVE  TrapInv'
  <1> DEFINE e == allocated + 1
             E == [name |-> n, installed |-> TRUE, external |-> TRUE, freed |-> FALSE]
             r == [Idle EXCEPT !.pc = "external", !.op = "external", !.entry = e]
             C == {e}
  <1>1. /\ thread[t].pc = "idle" /\ allocated < MaxEntries /\ allocated' = e
        /\ entry' = [entry EXCEPT ![e] = E] /\ traps' = traps \cup {e}
        /\ thread' = [thread EXCEPT ![t] = r] /\ UNCHANGED <<installing, acquires>>
    BY DEF InstallExternal, Start
  <1>2. /\ allocated \in Nat /\ MaxEntries \in Nat /\ e \in Entries /\ traps \subseteq 1..allocated
        /\ entry \in [Entries -> EntryRec] /\ thread \in [Threads -> ThreadRec]
    BY <1>1, RecordFields DEF TrapInv, Types, Entries
  <1>3. /\ E \in EntryRec /\ E.external /\ ~E.freed
    BY DEF EntryRec
  <1>4. r \in ThreadRec /\ r.pc = "external" /\ r.entry = e
    <2>1. e \in 0..MaxEntries /\ "external" \in Pcs /\ "external" \in AllOps \cup {"none"}
      BY <1>2, RecordFields DEF Pcs, AllOps, Entries
    <2>2. Idle \in ThreadRec
      BY RecordFields
    <2> QED BY <2>1, <2>2 DEF ThreadRec
  <1> HIDE DEF r, E
  <1>5. /\ thread' \in [Threads -> ThreadRec] /\ thread'[t] = r
        /\ \A u \in Threads \ {t} : thread'[u] = thread[u]
    BY <1>1, <1>4, ThreadStep DEF TrapInv
  <1>6. /\ entry' \in [Entries -> EntryRec] /\ entry'[e] = E
        /\ \A d \in Entries \ {e} : entry'[d] = entry[d]
    BY <1>1, <1>2, <1>3
  <1>7. Types'
    <2>1. allocated' \in 0..MaxEntries
      BY <1>1, <1>2
    <2>2. ASSUME NEW d \in traps' PROVE d \in 1..allocated'
      <3>1. CASE d = e
        BY <1>1, <1>2, <3>1
      <3>2. CASE d \in traps
        <4>1. d \in 1..allocated
          BY <1>2, <3>2
        <4> QED BY <1>1, <1>2, <4>1
      <3> QED BY <1>1, <3>1, <3>2
    <2> QED BY <1>1, <1>5, <1>6, <2>1, <2>2 DEF TrapInv, Types
  <1>8. /\ Installs(t)' <=> Installs(t)
        /\ ~Took(t) /\ thread'[t].pc # "checkout"
    BY <1>1, <1>4, <1>5 DEF Installs, Took
  <1>9. InstallingKnown' /\ NobodyAfterFlush'
    BY <1>1, <1>5, <1>8, InstallersSame
  <1>10. ThreadSound(t)'
    BY <1>1, <1>2, <1>3, <1>4, <1>5, <1>6 DEF ThreadSound, Took, Listed
  <1>11. \A u \in Threads \ {t} : Held(u) \cap C = {}
    BY <1>2, HeldAllocated
  <1>12. \A d \in C : AccountedFor(d)'
    BY <1>1, <1>2, <1>3, <1>6 DEF AccountedFor
  <1>13. \A d \in C, f \in Entries : d \in traps' /\ f \in traps' /\ Alike(d, f)' => d = f
    BY <1>3, <1>6 DEF Alike
  <1>14. /\ C \in SUBSET Entries /\ Held(t)' \subseteq Held(t) \cup C /\ allocated + 1 \in C
         /\ \A d \in Entries \ C : entry'[d] = entry[d] /\ (d \in traps' <=> d \in traps)
    BY <1>1, <1>2, <1>4, <1>5, <1>6 DEF Held, Took
  <1> HIDE DEF C
  <1> QED BY <1>1, <1>5, <1>7, <1>8, <1>9, <1>10, <1>11, <1>12, <1>13, <1>14, TrapStep

\* The policies of such a trap are installed, or not.
LEMMA ExternalPoliciesKeeps ==
    ASSUME TrapInv, NEW t \in Threads, ExternalPolicies(t)
    PROVE  TrapInv'
  <1> DEFINE e == thread[t].entry
             r == [Idle EXCEPT !.pc = "keep", !.op = "external", !.found = e]
  <1>1. /\ thread[t].pc = "external" /\ UNCHANGED <<allocated, installing, acquires>>
        /\ \/ thread' = [thread EXCEPT ![t] = r] /\ UNCHANGED <<entry, traps>>
           \/ /\ entry' = Free(e) /\ traps' = traps \ {e}
              /\ thread' = [thread EXCEPT ![t] = Idle]
    BY DEF ExternalPolicies, Done
  <1>2. e \in 1..allocated /\ Listed(e) /\ entry[e].external
    BY <1>1, HeldAllocated DEF ThreadSound
  <1>3. e \in Entries /\ e \in Held(t)
    <2>1. e \in Entries
      BY <1>2, RecordFields DEF TrapInv, Types, Entries
    <2> QED BY <1>1, <2>1 DEF Held, Installed
  <1>4. CASE thread' = [thread EXCEPT ![t] = r] /\ UNCHANGED <<entry, traps>>
    <2>1. r \in ThreadRec /\ r.pc = "keep" /\ r.found = e
      <3>1. e \in 0..MaxEntries /\ "keep" \in Pcs /\ "external" \in AllOps \cup {"none"}
        BY <1>3, RecordFields DEF Pcs, AllOps, Entries
      <3>2. Idle \in ThreadRec
        BY RecordFields
      <3> HIDE DEF e
      <3> QED BY <3>1, <3>2 DEF ThreadRec
    <2> HIDE DEF r
    <2>2. thread'[t] = r
      BY <1>4, <2>1, ThreadStep DEF TrapInv
    <2>3. /\ Installs(t)' <=> Installs(t)
          /\ Held(t)' \subseteq Held(t) /\ ThreadSound(t)' /\ ~Took(t)
      BY <1>1, <1>2, <1>3, <1>4, <2>1, <2>2
         DEF Installs, Held, Installed, Took, ThreadSound, Listed
    <2>4. acquires' \in [Names -> AcquireRec] /\ r.pc # "checkout"
      BY <1>1, <2>1 DEF TrapInv, Types
    <2> QED BY <1>1, <1>4, <2>1, <2>3, <2>4, QuietStep
  <1>5. CASE /\ entry' = Free(e) /\ traps' = traps \ {e}
             /\ thread' = [thread EXCEPT ![t] = Idle]
    <2>1. thread'[t] = Idle
      BY <1>5, RecordFields, ThreadStep DEF TrapInv
    <2>2. /\ Installs(t)' <=> Installs(t)
          /\ Held(t)' \subseteq Held(t) /\ ThreadSound(t)' /\ ~Took(t)
      BY <1>1, <2>1, RecordFields DEF Installs, Held, Installed, Took, ThreadSound
    <2>3. Idle \in ThreadRec /\ Idle.pc # "checkout"
      BY RecordFields
    <2> HIDE DEF e
    <2> QED BY <1>1, <1>3, <1>5, <2>2, <2>3, FreeHeldStep
  <1> QED BY <1>1, <1>4, <1>5

\* The trap of a CHILD_SA is removed, unless flush() did so.
LEMMA RemoveExternalKeeps ==
    ASSUME TrapInv, NEW t \in Threads, RemoveExternal(t)
    PROVE  TrapInv'
  <1> DEFINE e == thread[t].found
  <1>1. /\ thread[t].pc = "keep" /\ UNCHANGED <<allocated, installing, acquires>>
        /\ traps' = traps \ {e} /\ entry' = (IF e \in traps THEN Free(e) ELSE entry)
        /\ thread' = [thread EXCEPT ![t] = Idle]
    BY DEF RemoveExternal, Done
  <1>2. e \in 1..allocated
    BY <1>1, HeldAllocated DEF ThreadSound
  <1>3. e \in Held(t)
    <2>1. e \in Entries
      BY <1>2, RecordFields DEF TrapInv, Types, Entries
    <2> QED BY <1>1, <2>1 DEF Held
  <1>4. thread'[t] = Idle
    BY <1>1, RecordFields, ThreadStep DEF TrapInv
  <1>5. /\ Installs(t)' <=> Installs(t)
        /\ Held(t)' \subseteq Held(t) /\ ThreadSound(t)' /\ ~Took(t)
    BY <1>1, <1>4, RecordFields DEF Installs, Held, Installed, Took, ThreadSound
  <1>6. Idle \in ThreadRec /\ Idle.pc # "checkout" /\ acquires' \in [Names -> AcquireRec]
    BY <1>1, RecordFields DEF TrapInv, Types
  <1>7. CASE e \in traps
    <2>1. entry' = Free(e)
      BY <1>1, <1>7
    <2> HIDE DEF e
    <2> QED BY <1>1, <1>3, <1>5, <1>6, <2>1, FreeHeldStep
  <1>8. CASE e \notin traps
    <2>1. UNCHANGED <<entry, traps>>
      BY <1>1, <1>8
    <2> QED BY <1>1, <1>5, <1>6, <2>1, QuietStep
  <1> QED BY <1>7, <1>8

-----------------------------------------------------------------------------
(* acquire() and the listener.                                             *)

\* The acquire of a trap that has none pending.
LEMMA AcquireKeeps ==
    ASSUME TrapInv, NEW t \in Threads, NEW n \in Names, Acquire(t, n)
    PROVE  TrapInv'
  <1> DEFINE a == [pending |-> TRUE, ike_sa |-> NoSa]
             r == [Idle EXCEPT !.pc = "checkout", !.op = "acquire", !.name = n]
  <1>1. /\ thread[t].pc = "idle" /\ ~acquires[n].pending /\ acquires' = [acquires EXCEPT ![n] = a]
        /\ thread' = [thread EXCEPT ![t] = r] /\ UNCHANGED <<entry, allocated, traps, installing>>
    BY DEF Acquire, Start, Pending
  <1>2. r \in ThreadRec /\ r.pc = "checkout" /\ r.name = n
    <2>1. n \in Names \cup {NoName} /\ "checkout" \in Pcs /\ "acquire" \in AllOps \cup {"none"}
      BY DEF Pcs, AllOps
    <2>2. Idle \in ThreadRec
      BY RecordFields
    <2> QED BY <2>1, <2>2 DEF ThreadRec
  <1>3. /\ acquires \in [Names -> AcquireRec] /\ a \in AcquireRec /\ a.pending
    BY DEF TrapInv, Types, AcquireRec
  <1>4. acquires' \in [Names -> AcquireRec] /\ acquires'[n] = a
        /\ \A m \in Names \ {n} : acquires'[m] = acquires[m]
    BY <1>1, <1>3
  <1> HIDE DEF r
  <1>5. thread'[t] = r
    BY <1>1, <1>2, ThreadStep DEF TrapInv
  <1>6. ASSUME NEW u \in Threads \ {t}, thread[u].pc = "checkout"
        PROVE  /\ acquires'[thread[u].name] = acquires[thread[u].name]
               /\ ~(r.pc = "checkout" /\ r.name = thread[u].name)
    <2>1. thread[u].name \in Names /\ acquires[thread[u].name] = a
      BY <1>6, HeldAllocated DEF ThreadSound
    <2>2. thread[u].name # n
      BY <1>1, <2>1
    <2> QED BY <1>2, <1>4, <2>1, <2>2
  <1>7. /\ Installs(t)' <=> Installs(t)
        /\ Held(t)' \subseteq Held(t) /\ ThreadSound(t)' /\ ~Took(t)
    BY <1>1, <1>2, <1>4, <1>5 DEF Installs, Held, Installed, Took, ThreadSound
  <1> QED BY <1>1, <1>2, <1>4, <1>6, <1>7, QuietStep

\* The CHILD_SA is initiated by an IKE_SA, or there is none.
LEMMA InitiateKeeps ==
    ASSUME TrapInv, NEW t \in Threads, Initiate(t)
    PROVE  TrapInv'
  <1> DEFINE n == thread[t].name
  <1>1. /\ thread[t].pc = "checkout" /\ thread' = [thread EXCEPT ![t] = Idle]
        /\ UNCHANGED <<entry, allocated, traps, installing>>
        /\ \/ acquires' = [acquires EXCEPT ![n] = NoAcquire]
           \/ \E s \in Sas : acquires' = [acquires EXCEPT ![n].ike_sa = s]
    BY DEF Initiate, Done
  <1>2. acquires \in [Names -> AcquireRec] /\ n \in Names
    BY <1>1, HeldAllocated DEF TrapInv, Types, ThreadSound
  <1>3. /\ acquires' \in [Names -> AcquireRec]
        /\ \A m \in Names \ {n} : acquires'[m] = acquires[m]
    <2>1. CASE acquires' = [acquires EXCEPT ![n] = NoAcquire]
      BY <1>2, <2>1, RecordFields
    <2>2. ASSUME NEW s \in Sas, acquires' = [acquires EXCEPT ![n].ike_sa = s]
          PROVE  /\ acquires' \in [Names -> AcquireRec]
                 /\ \A m \in Names \ {n} : acquires'[m] = acquires[m]
      <3> DEFINE a == [acquires[n] EXCEPT !.ike_sa = s]
      <3>1. a \in AcquireRec
        BY <1>2 DEF AcquireRec
      <3>2. acquires' = [acquires EXCEPT ![n] = a]
        BY <1>2, <2>2
      <3> HIDE DEF a
      <3> QED BY <1>2, <3>1, <3>2
    <2> QED BY <1>1, <2>1, <2>2
  <1>4. thread'[t] = Idle
    BY <1>1, RecordFields, ThreadStep DEF TrapInv
  <1>5. ASSUME NEW u \in Threads \ {t}, thread[u].pc = "checkout"
        PROVE  acquires'[thread[u].name] = acquires[thread[u].name]
    <2>1. thread[u].name \in Names /\ thread[u].name # n
      BY <1>1, <1>5, HeldAllocated DEF ThreadSound, TrapInv, OneAcquire
    <2> QED BY <1>3, <2>1
  <1>6. /\ Installs(t)' <=> Installs(t)
        /\ Held(t)' \subseteq Held(t) /\ ThreadSound(t)' /\ ~Took(t)
    BY <1>1, <1>4, RecordFields DEF Installs, Held, Installed, Took, ThreadSound
  <1>7. Idle \in ThreadRec /\ Idle.pc # "checkout"
    BY RecordFields
  <1> QED BY <1>1, <1>3, <1>5, <1>6, <1>7, QuietStep

\* The acquires that an IKE_SA handles come to an end.
LEMMA StateChangeKeeps ==
    ASSUME TrapInv, NEW s \in Sas, NEW ns \in SUBSET Names, acquires' = complete(s, ns),
           UNCHANGED <<entry, allocated, traps, installing, thread>>
    PROVE  TrapInv'
  <1>1. UNCHANGED <<entry, allocated, traps, installing, thread>>
    OBVIOUS
  <1>2. acquires' = complete(s, ns)
    OBVIOUS
  <1>3. acquires \in [Names -> AcquireRec]
    BY DEF TrapInv, Types
  <1>4. /\ acquires' \in [Names -> AcquireRec]
        /\ \A n \in Names : acquires[n].ike_sa # s => acquires'[n] = acquires[n]
    BY <1>2, <1>3, RecordFields DEF complete
  <1>5. ASSUME NEW u \in Threads PROVE ThreadSound(u)'
    <2>1. ThreadSound(u) /\ thread'[u] = thread[u]
      BY <1>1, HeldAllocated
    <2>2. thread[u].pc = "checkout" => acquires'[thread[u].name] = acquires[thread[u].name]
      BY <1>4, <2>1, SetsAssumption DEF ThreadSound
    <2> QED BY <1>1, <2>1, <2>2 DEF ThreadSound, Took, Listed
  <1>6. ThreadsSound'
    BY <1>5 DEF ThreadsSound
  <1>7. Types' /\ OneAcquire' /\ RoutedOnce'
    BY <1>1, <1>4 DEF TrapInv, Types, OneAcquire, RoutedOnce, Alike
  <1>8. InstallingKnown' /\ NobodyAfterFlush'
    BY <1>1, InstallersUnchanged
  <1>9. Exclusive'
    BY <1>1 DEF TrapInv, Exclusive, Held, Installed, Took
  <1>10. Accounted'
    BY <1>1 DEF TrapInv, Accounted, AccountedFor, Took
  <1> QED BY <1>6, <1>7, <1>8, <1>9, <1>10 DEF TrapInv

-----------------------------------------------------------------------------
(* The theorems.                                                           *)

\* The invariant holds initially: there are no entries.
LEMMA InitTraps == Init => TrapInv
  <1> SUFFICES ASSUME Init PROVE TrapInv
    OBVIOUS
  <1>1. /\ allocated = 0 /\ traps = {} /\ installing = 0 /\ \A e \in Entries : entry[e] = NoEntry
        /\ \A t \in Threads : thread[t].pc = "idle"
    BY RecordFields DEF Init
  <1>2. Types
    <2>1. entry \in [Entries -> EntryRec] /\ acquires \in [Names -> AcquireRec]
          /\ thread \in [Threads -> ThreadRec] /\ 0 \in 0..MaxEntries
      BY RecordFields DEF Init
    <2> QED BY <1>1, <2>1 DEF Types
  <1>3. InstallingKnown /\ NobodyAfterFlush
    <2>1. Installers = {}
      BY <1>1 DEF Installers, Installs
    <2> QED BY <1>1, <2>1, FS_EmptySet DEF InstallingKnown, NobodyAfterFlush
  <1>4. Exclusive /\ ThreadsSound /\ OneAcquire
    BY <1>1 DEF Exclusive, Held, Installed, Took, ThreadsSound, ThreadSound, OneAcquire
  <1>5. Accounted /\ RoutedOnce
    BY <1>1 DEF Accounted, AccountedFor, RoutedOnce, Entries
  <1> QED BY <1>2, <1>3, <1>4, <1>5 DEF TrapInv

\* Every step keeps the invariant.
LEMMA NextTraps == TrapInv /\ [Next]_vars => TrapInv'
  <1> SUFFICES ASSUME TrapInv, [Next]_vars PROVE TrapInv'
    OBVIOUS
  <1>1. ASSUME NEW t \in Threads, Proceed(t) \/ RemoveExternal(t) \/ Flush(t) PROVE TrapInv'
    BY <1>1, InstallPoliciesKeeps, DestroyFoundKeeps, FinishKeeps, RemovalKeeps, DestroyKeeps,
       ExternalPoliciesKeeps, InitiateKeeps, RemoveExternalKeeps DEF Proceed
  <1>2. ASSUME NEW t \in Threads, NEW n \in Names,
               Install(t, n) \/ Uninstall(t, n) \/ InstallExternal(t, n) \/ Acquire(t, n)
        PROVE  TrapInv'
    BY <1>2, InstallKeeps, RemovalKeeps, InstallExternalKeeps, AcquireKeeps
  <1>3. ASSUME NEW s \in Sas, IkeStateChange(s) \/ \E n \in Names : ChildStateChange(s, n)
        PROVE  TrapInv'
    <2>1. /\ \E ns \in SUBSET Names : acquires' = complete(s, ns)
          /\ UNCHANGED <<entry, allocated, traps, installing, thread>>
      BY <1>3 DEF IkeStateChange, ChildStateChange
    <2> QED BY <2>1, StateChangeKeeps
  <1>4. CASE UNCHANGED vars
    <2>1. UNCHANGED <<entry, allocated, traps, installing, acquires, thread>>
      BY <1>4 DEF vars
    <2>2. Types' /\ OneAcquire' /\ RoutedOnce'
      BY <2>1 DEF TrapInv, Types, OneAcquire, RoutedOnce, Alike
    <2>3. InstallingKnown' /\ NobodyAfterFlush'
      BY <2>1, InstallersUnchanged
    <2>4. Exclusive'
      BY <2>1 DEF TrapInv, Exclusive, Held, Installed, Took
    <2>5. ThreadsSound'
      BY <2>1 DEF TrapInv, ThreadsSound, ThreadSound, Took, Listed
    <2>6. Accounted'
      BY <2>1 DEF TrapInv, Accounted, AccountedFor, Took
    <2> QED BY <2>2, <2>3, <2>4, <2>5, <2>6 DEF TrapInv
  <1> QED BY <1>1, <1>2, <1>3, <1>4 DEF Next

\* The invariant holds in every state.
LEMMA TrapInvariance == Spec => []TrapInv
  BY InitTraps, NextTraps, PTL DEF Spec

-----------------------------------------------------------------------------
(* Pending acquires.                                                       *)

SomeoneEnds == sas \subseteq Sas /\ AcquireAttended

\* Whoever checks out an IKE_SA goes on to do so, and the IKE_SAs are the same.
LEMMA StillAttended ==
    ASSUME SomeoneEnds, UNCHANGED <<acquires, sas>>,
           \A u \in Threads : thread[u].pc = "checkout" => thread'[u] = thread[u]
    PROVE  SomeoneEnds'
  BY DEF SomeoneEnds, AcquireAttended

\* A thread that checks out no IKE_SA takes a step.
LEMMA OneMoves ==
    ASSUME TrapInv, SomeoneEnds, UNCHANGED <<acquires, sas>>, NEW t \in Threads, NEW r,
           thread[t].pc # "checkout", thread' = [thread EXCEPT ![t] = r]
    PROVE  SomeoneEnds'
  <1>1. \A u \in Threads : thread[u].pc = "checkout" => thread'[u] = thread[u]
    BY DEF TrapInv, Types
  <1> QED BY <1>1, StillAttended

\* Threads that install, uninstall or flush.
LEMMA OthersAttended ==
    ASSUME TrapInv, SomeoneEnds, NEW t \in Threads,
           \/ InstallPolicies(t) \/ DestroyFound(t) \/ Wake(t) \/ Destroy(t) \/ ExternalPolicies(t)
           \/ RemoveExternal(t) \/ Flush(t)
           \/ \E n \in Names : Install(t, n) \/ Uninstall(t, n) \/ InstallExternal(t, n)
    PROVE  SomeoneEnds'
  <1>1. CASE InstallPolicies(t)
    <2>1. \E r : thread' = [thread EXCEPT ![t] = r]
      BY <1>1 DEF InstallPolicies, Goto
    <2> QED BY <1>1, <2>1, OneMoves DEF InstallPolicies
  <1>2. CASE DestroyFound(t)
    <2>1. \E r : thread' = [thread EXCEPT ![t] = r]
      BY <1>2 DEF DestroyFound
    <2> QED BY <1>2, <2>1, OneMoves DEF DestroyFound
  <1>3. CASE Destroy(t) \/ ExternalPolicies(t) \/ RemoveExternal(t)
    <2>1. \E r : thread' = [thread EXCEPT ![t] = r]
      BY <1>3 DEF Destroy, ExternalPolicies, RemoveExternal, Done
    <2> QED BY <1>3, <2>1, OneMoves DEF Destroy, ExternalPolicies, RemoveExternal
  <1>4. ASSUME NEW op, NEW n, Continue(t, op, n) PROVE \E r : thread' = [thread EXCEPT ![t] = r]
    BY <1>4 DEF Continue, FlushTraps, RemoveTrap, Done
  <1>5. CASE Wake(t)
    BY <1>4, <1>5, OneMoves DEF Wake
  <1>6. CASE Flush(t)
    BY <1>4, <1>6, OneMoves DEF Flush, Start
  <1>7. ASSUME NEW n \in Names, Uninstall(t, n) PROVE SomeoneEnds'
    BY <1>4, <1>7, OneMoves DEF Uninstall, Start
  <1>8. ASSUME NEW n \in Names, Install(t, n) \/ InstallExternal(t, n) PROVE SomeoneEnds'
    <2>1. \E r : thread' = [thread EXCEPT ![t] = r]
      BY <1>8 DEF Install, InstallExternal
    <2> QED BY <1>8, <2>1, OneMoves DEF Install, InstallExternal, Start
  <1> QED BY <1>1, <1>2, <1>3, <1>5, <1>6, <1>7, <1>8

\* Another thread is woken, which waits.
LEMMA FinishAttended ==
    ASSUME TrapInv, SomeoneEnds, NEW t \in Threads, Finish(t)
    PROVE  SomeoneEnds'
  <1> DEFINE th == [thread EXCEPT ![t] = Idle]
  <1>1. thread[t].pc = "finish" /\ thread' \in Signal(th) /\ UNCHANGED <<acquires, sas>>
    BY DEF Finish
  <1>2. \A u \in Threads : thread[u].pc = "checkout" => th[u] = thread[u]
    BY <1>1 DEF TrapInv, Types
  <1>3. th \in [Threads -> ThreadRec]
    BY RecordFields DEF TrapInv, Types
  <1> HIDE DEF th
  <1>4. \A u \in Threads : thread[u].pc = "checkout" => thread'[u] = thread[u]
    <2>1. CASE thread' = th
      BY <1>2, <2>1
    <2>2. ASSUME NEW w \in Waiting(th), thread' = [th EXCEPT ![w].pc = "woken"]
          PROVE  \A u \in Threads : thread[u].pc = "checkout" => thread'[u] = thread[u]
      <3>1. th[w].pc = "wait" /\ w \in Threads
        BY DEF Waiting
      <3>2. \A u \in Threads \ {w} : thread'[u] = th[u]
        BY <1>3, <2>2
      <3>3. thread[w].pc # "checkout"
        BY <1>2, <3>1
      <3> QED BY <1>2, <3>2, <3>3
    <2> QED BY <1>1, <2>1, <2>2 DEF Signal
  <1> QED BY <1>1, <1>4, StillAttended

\* A thread attends to its acquire until an IKE_SA does.
LEMMA AcquireIsAttended ==
    ASSUME TrapInv, SomeoneEnds, NEW t \in Threads,
           Initiate(t) \/ \E n \in Names : Acquire(t, n)
    PROVE  SomeoneEnds'
  <1>1. acquires \in [Names -> AcquireRec] /\ thread \in [Threads -> ThreadRec]
    BY DEF TrapInv, Types
  <1>2. ASSUME NEW n \in Names, Acquire(t, n) PROVE SomeoneEnds'
    <2>1. /\ thread[t].pc = "idle" /\ UNCHANGED sas
          /\ acquires' = [acquires EXCEPT ![n] = [pending |-> TRUE, ike_sa |-> NoSa]]
          /\ thread' = [thread EXCEPT ![t] = [Idle EXCEPT !.pc = "checkout", !.op = "acquire",
                                                           !.name = n]]
      BY <1>2 DEF Acquire, Start
    <2>2. thread'[t].pc = "checkout" /\ thread'[t].name = n
      BY <1>1, <2>1 DEF Idle
    <2>3. \A u \in Threads : thread[u].pc = "checkout" => thread'[u] = thread[u]
      BY <1>1, <2>1
    <2>4. \A m \in Names \ {n} : acquires'[m] = acquires[m]
      BY <1>1, <2>1
    <2>5. AcquireAttended'
      BY ONLY SomeoneEnds, <2>1, <2>2, <2>3, <2>4, t \in Threads DEF SomeoneEnds, AcquireAttended
    <2> QED BY <2>1, <2>5 DEF SomeoneEnds
  <1>3. CASE Initiate(t)
    <2> DEFINE n == thread[t].name
    <2>1. /\ thread[t].pc = "checkout" /\ thread' = [thread EXCEPT ![t] = Idle]
          /\ \/ acquires' = [acquires EXCEPT ![n] = NoAcquire] /\ UNCHANGED sas
             \/ \E s \in Sas : /\ acquires' = [acquires EXCEPT ![n].ike_sa = s]
                                /\ sas' = sas \cup {s}
      BY <1>3 DEF Initiate, Done
    <2>2. n \in Names
      BY <2>1, HeldAllocated DEF ThreadSound
    <2> HIDE DEF n
    <2>3. \A u \in Threads \ {t} : thread'[u] = thread[u]
      BY <1>1, <2>1
    <2>4. /\ \A m \in Names \ {n} : acquires'[m] = acquires[m]
          /\ acquires'[n].pending => acquires'[n].ike_sa \in sas'
          /\ sas \subseteq sas' /\ sas' \subseteq Sas
      BY <1>1, <2>1, <2>2 DEF NoAcquire, AcquireRec, SomeoneEnds
    <2>5. \A m \in Names \ {n} : thread[t].name # m
      BY DEF n
    <2>6. AcquireAttended'
      BY ONLY SomeoneEnds, <2>3, <2>4, <2>5 DEF SomeoneEnds, AcquireAttended
    <2> QED BY <2>4, <2>6 DEF SomeoneEnds
  <1> QED BY <1>2, <1>3

\* What an IKE_SA handled ends with it at the latest.
LEMMA StateChangeAttended ==
    ASSUME TrapInv, SomeoneEnds, NEW s \in Sas,
           IkeStateChange(s) \/ \E n \in Names : ChildStateChange(s, n)
    PROVE  SomeoneEnds'
  <1>1. acquires \in [Names -> AcquireRec]
    BY DEF TrapInv, Types
  <1>2. CASE IkeStateChange(s)
    <2>1. /\ sas' = sas \ {s} /\ UNCHANGED thread
          /\ \A n \in Names : acquires'[n] = IF acquires[n].ike_sa = s THEN NoAcquire ELSE acquires[n]
      BY <1>2 DEF IkeStateChange, complete
    <2> QED BY <2>1 DEF SomeoneEnds, AcquireAttended, NoAcquire
  <1>3. CASE \E n \in Names : ChildStateChange(s, n)
    <2>1. /\ UNCHANGED <<sas, thread>>
          /\ \A n \in Names : acquires'[n] \in {NoAcquire, acquires[n]}
      BY <1>3 DEF ChildStateChange, complete
    <2> QED BY <2>1 DEF SomeoneEnds, AcquireAttended, NoAcquire
  <1> QED BY <1>2, <1>3

\* There is always someone who ends a pending acquire.
LEMMA AttendedInvariance == Spec => []SomeoneEnds
  <1>1. Init => SomeoneEnds
    BY DEF Init, SomeoneEnds, AcquireAttended, NoAcquire
  <1>2. TrapInv /\ SomeoneEnds /\ [Next]_vars => SomeoneEnds'
    <2> SUFFICES ASSUME TrapInv, SomeoneEnds, [Next]_vars PROVE SomeoneEnds'
      OBVIOUS
    <2>1. ASSUME NEW t \in Threads, Proceed(t) \/ RemoveExternal(t) \/ Flush(t) PROVE SomeoneEnds'
      BY <2>1, OthersAttended, FinishAttended, AcquireIsAttended DEF Proceed
    <2>2. ASSUME NEW t \in Threads, NEW n \in Names,
                 Install(t, n) \/ Uninstall(t, n) \/ InstallExternal(t, n) \/ Acquire(t, n)
          PROVE  SomeoneEnds'
      BY <2>2, OthersAttended, AcquireIsAttended
    <2>3. CASE \E s \in Sas : IkeStateChange(s) \/ \E n \in Names : ChildStateChange(s, n)
      BY <2>3, StateChangeAttended
    <2>4. CASE UNCHANGED vars
      BY <2>4, StillAttended DEF vars
    <2> QED BY <2>1, <2>2, <2>3, <2>4 DEF Next
  <1> QED BY <1>1, <1>2, TrapInvariance, PTL DEF Spec

-----------------------------------------------------------------------------
(* What the runs check.                                                    *)

\* No entry is freed that the list or a thread still uses, though install(), uninstall() and
\* flush() call the kernel without the lock, and each one is freed in the end or referred to.
THEOREM EntriesSoundCorrect == Spec => []EntriesSound
  <1>1. TrapInv /\ SomeoneEnds => EntriesSound
    <2> SUFFICES ASSUME TrapInv, SomeoneEnds PROVE EntriesSound
      OBVIOUS
    <2>1. TypeOK
      BY DEF TrapInv, Types, InstallingKnown, Installers, TypeOK, EntryRec, ThreadRec, AcquireRec,
             SomeoneEnds
    <2>2. /\ allocated \in 0..MaxEntries /\ MaxEntries \in Nat /\ traps \subseteq 1..allocated
          /\ 1..allocated \subseteq Entries
      BY RecordFields DEF TrapInv, Types, Entries
    <2>3. \A e \in traps : ~entry[e].freed
      BY <2>2 DEF TrapInv, Accounted, AccountedFor
    <2>4. NoDangling
      <3> SUFFICES ASSUME NEW t \in Threads
                   PROVE  /\ thread[t].pc = "installing" => ~entry[thread[t].entry].freed
                          /\ thread[t].pc = "external" =>
                                installing = Disabled \/ ~entry[thread[t].entry].freed
                          /\ thread[t].pc \in {"replace", "destroy"} => ~entry[thread[t].found].freed
        BY <2>3 DEF NoDangling
      <3>1. ThreadSound(t)
        BY HeldAllocated
      <3> QED BY <2>3, <3>1 DEF ThreadSound, Took, Listed
    <2>5. NothingLeaked
      <3> SUFFICES ASSUME NEW e \in 1..allocated
                   PROVE  \/ e \in traps \/ entry[e].freed
                          \/ \E t \in Threads : thread[t].entry = e \/ thread[t].found = e
        BY DEF NothingLeaked
      <3>1. AccountedFor(e) /\ e <= allocated
        BY <2>2 DEF TrapInv, Accounted
      <3> QED BY <3>1 DEF AccountedFor
    <2> QED BY <2>1, <2>4, <2>5 DEF EntriesSound
  <1> QED BY <1>1, TrapInvariance, AttendedInvariance, PTL

\* No trap is routed twice, a packet that hits one acquires its CHILD_SA once, and as long as
\* that is pending a thread or an IKE_SA is there to end it.
THEOREM OnlyOnceCorrect == Spec => []OnlyOnce
  <1>1. TrapInv /\ SomeoneEnds => OnlyOnce
    <2> SUFFICES ASSUME TrapInv, NEW n \in Names PROVE Cardinality(Routed(n)) <= 1
      BY DEF OnlyOnce, OneTrap, TrapInv, SomeoneEnds
    <2>1. \A d, e \in Routed(n) : d = e
      BY DEF TrapInv, RoutedOnce, Routed, Alike
    <2>2. CASE Routed(n) = {}
      BY <2>2, FS_EmptySet
    <2>3. ASSUME NEW d \in Routed(n) PROVE Cardinality(Routed(n)) <= 1
      <3>1. Routed(n) = {d}
        BY <2>1
      <3>2. Cardinality({d}) = 1
        BY FS_Singleton
      <3> QED BY <3>1, <3>2
    <2> QED BY <2>2, <2>3
  <1> QED BY <1>1, TrapInvariance, AttendedInvariance, PTL

=============================================================================
