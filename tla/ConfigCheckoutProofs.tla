------------------------ MODULE ConfigCheckoutProofs ------------------------
(***************************************************************************)
(* Theorems about ConfigCheckout, for any threads, configurations and any  *)
(* size of the table.                                                      *)
(***************************************************************************)
EXTENDS ConfigCheckout, FiniteSetTheorems, TLAPS

-----------------------------------------------------------------------------
(* The inductive invariant.                                                *)

\* The threads that refer to the config_entry_t of a configuration, and those of
\* them that look for its IKE_SA.
Members(c) == {t \in Threads : /\ thread[t].pc \in {"wait", "woken", "search", "leave"}
                               /\ thread[t].cfg = c}
Works(t) == thread[t].pc \in {"search", "leave"}

\* The configuration of a thread that is in a call, and how far its search is.
CallsSound ==
    \A t \in Threads :
        /\ thread[t].pc # "idle" => thread[t].cfg \in Configs
        /\ thread[t].pc = "search" => thread[t].at \in 1..(Entries + 1)
        /\ thread[t].pc = "leave" => thread[t].at \in 0..Entries
        /\ thread[t].pc = "use" => thread[t].at \in Places

\* A configuration counts its threads and is marked while one of them, and only one,
\* works on it.
ThreadsCounted == \A c \in Configs : threads[c] = Cardinality(Members(c))
OneWorks ==
    /\ \A t \in Threads : Works(t) => working[thread[t].cfg]
    /\ \A t, u \in Threads : Works(t) /\ Works(u) /\ thread[t].cfg = thread[u].cfg => t = u

\* What the search has passed is not what it looks for.
Searched ==
    \A t \in Threads, i \in Places :
        thread[t].pc = "search" /\ i < thread[t].at =>
            ~(table[i].usable /\ table[i].cfg = thread[t].cfg)

CheckoutInv ==
    TypeOK /\ CallsSound /\ ThreadsCounted /\ OneWorks /\ Searched /\ OneSaPerConfig

-----------------------------------------------------------------------------
(* Counting.                                                               *)

\* The members of a configuration are finitely many.
LEMMA MembersFinite ==
    ASSUME NEW c
    PROVE  /\ IsFiniteSet(Members(c)) /\ Cardinality(Members(c)) \in Nat
           /\ Cardinality(Members(c)) <= Cardinality(Threads)
           /\ Members(c) # {} => Cardinality(Members(c)) > 0
  <1>1. Members(c) \in SUBSET Threads
    BY DEF Members
  <1>2. IsFiniteSet(Members(c)) /\ Cardinality(Members(c)) <= Cardinality(Threads)
    BY <1>1, ThreadsAssumption, FS_Subset
  <1> HIDE DEF Members
  <1>3. Cardinality(Members(c)) \in Nat /\ (Cardinality(Members(c)) = 0 <=> Members(c) = {})
    BY <1>2, FS_CardinalityType, FS_EmptySet
  <1> QED BY <1>2, <1>3

\* The same after a step.
LEMMA MembersFiniteNext ==
    ASSUME NEW c
    PROVE  Members(c)' \in SUBSET Threads
  BY DEF Members

\* Counts that are cardinalities are within the bounds of TypeOK.
LEMMA CountType ==
    ASSUME NEW S \in SUBSET Threads
    PROVE  Cardinality(S) \in 0..Cardinality(Threads)
  <1>1. IsFiniteSet(S) /\ Cardinality(S) <= Cardinality(Threads)
    BY ThreadsAssumption, FS_Subset
  <1>2. Cardinality(S) \in Nat /\ Cardinality(Threads) \in Nat
    BY <1>1, ThreadsAssumption, FS_CardinalityType
  <1> QED BY <1>1, <1>2

-----------------------------------------------------------------------------
(* The steps.                                                              *)

\* The invariant holds of a table without IKE_SAs that nobody uses.
LEMMA InitCheckout == Init => CheckoutInv
  <1> SUFFICES ASSUME Init PROVE CheckoutInv
    OBVIOUS
  <1> USE DEF Init, Idle, NoSa
  <1>1. \A c \in Configs : Members(c) = {}
    BY DEF Members
  <1>2. Cardinality({}) = 0 /\ Cardinality(Threads) \in Nat
    BY ThreadsAssumption, FS_EmptySet, FS_CardinalityType
  <1>3. ThreadsCounted
    BY <1>1, <1>2 DEF ThreadsCounted
  <1>4. TypeOK
    BY <1>2, EntriesAssumption DEF TypeOK, Places
  <1> QED
    BY <1>3, <1>4 DEF CheckoutInv, CallsSound, OneWorks, Works, Searched, OneSaPerConfig

\* A thread that begins a call, or is woken in one, waits or starts the search.
LEMMA GuardedStep ==
    ASSUME CheckoutInv, NEW t \in Threads, NEW c \in Configs, Guarded(t, c),
           thread[t].pc \in {"idle", "woken"}, UNCHANGED table
    PROVE  /\ CallsSound' /\ OneWorks' /\ Searched' /\ OneSaPerConfig'
           /\ working' \in [Configs -> BOOLEAN]
           /\ thread' \in [Threads -> [pc : {"idle", "wait", "woken", "search", "leave", "use"},
                                       cfg : Configs \cup {NoConfig}, at : 0..(Entries + 1)]]
           /\ thread'[t].pc \in {"wait", "search"} /\ thread'[t].cfg = c
           /\ \A u \in Threads \ {t} : thread'[u] = thread[u]
  <1> USE DEF CheckoutInv, TypeOK
  <1> DEFINE rec == IF working[c] THEN [pc |-> "wait", cfg |-> c, at |-> 0]
                    ELSE [pc |-> "search", cfg |-> c, at |-> 1]
  <1>0. /\ thread' = [thread EXCEPT ![t] = rec]
        /\ working' = IF working[c] THEN working ELSE [working EXCEPT ![c] = TRUE]
    BY DEF Guarded
  <1>a. /\ rec \in [pc : {"idle", "wait", "woken", "search", "leave", "use"},
                    cfg : Configs \cup {NoConfig}, at : 0..(Entries + 1)]
        /\ rec.pc \in {"wait", "search"} /\ rec.cfg = c
        /\ rec.pc = "search" => rec.at = 1
        /\ rec.pc = "search" <=> ~working[c]
    BY EntriesAssumption
  <1> HIDE DEF rec
  <1>1. /\ thread'[t].pc \in {"wait", "search"} /\ thread'[t].cfg = c
        /\ thread'[t].pc = "search" => thread'[t].at = 1
        /\ thread'[t].pc = "search" <=> ~working[c]
        /\ \A u \in Threads \ {t} : thread'[u] = thread[u]
    BY <1>0, <1>a
  <1>2. /\ working' \in [Configs -> BOOLEAN]
        /\ thread' \in [Threads -> [pc : {"idle", "wait", "woken", "search", "leave", "use"},
                                    cfg : Configs \cup {NoConfig}, at : 0..(Entries + 1)]]
    BY <1>0, <1>a
  <1>3. CallsSound'
    BY <1>1, EntriesAssumption DEF CallsSound
  <1>4. /\ \A d \in Configs : working[d] => working'[d]
        /\ thread'[t].pc = "search" => working'[c]
    BY <1>0, <1>1
  <1>5. OneWorks'
    BY <1>1, <1>4 DEF OneWorks, Works, CallsSound
  <1>6. Searched'
    <2> SUFFICES ASSUME NEW u \in Threads, NEW i \in Places,
                        thread'[u].pc = "search", i < thread'[u].at
                 PROVE  ~(table[i].usable /\ table[i].cfg = thread'[u].cfg)
      BY DEF Searched
    <2>1. CASE u = t
      <3>1. i \in Int /\ 1 <= i
        BY EntriesAssumption DEF Places
      <3> QED BY <1>1, <2>1, <3>1
    <2>2. CASE u # t
      <3>1. thread'[u] = thread[u]
        BY <1>1, <2>2
      <3> QED BY <3>1 DEF Searched
    <2> QED BY <2>1, <2>2
  <1>7. OneSaPerConfig'
    BY DEF OneSaPerConfig
  <1> QED BY <1>1, <1>2, <1>3, <1>5, <1>6, <1>7

\* checkout_by_config() is called.
LEMMA CallStep ==
    ASSUME CheckoutInv, NEW t \in Threads, NEW c \in Configs, Call(t, c)
    PROVE  CheckoutInv'
  <1> USE DEF Call
  <1>1. Guarded(t, c) /\ thread[t].pc = "idle" /\ UNCHANGED table
    OBVIOUS
  <1>2. /\ thread'[t].pc \in {"wait", "search"} /\ thread'[t].cfg = c
        /\ \A u \in Threads \ {t} : thread'[u] = thread[u]
    BY <1>1, GuardedStep
  <1>3. /\ Members(c)' = Members(c) \cup {t} /\ t \notin Members(c)
        /\ \A d \in Configs \ {c} : Members(d)' = Members(d)
    BY <1>1, <1>2 DEF Members
  <1>4. Cardinality(Members(c)') = Cardinality(Members(c)) + 1
    BY <1>3, MembersFinite, FS_AddElement
  <1>5. \A d \in Configs : threads'[d] = Cardinality(Members(d)')
    BY <1>3, <1>4 DEF CheckoutInv, TypeOK, ThreadsCounted
  <1>6. ThreadsCounted'
    BY <1>5 DEF ThreadsCounted
  <1>7. threads' \in [Configs -> 0..Cardinality(Threads)]
    <2>1. \A d \in Configs : threads'[d] \in 0..Cardinality(Threads)
      BY <1>5, MembersFiniteNext, CountType
    <2> QED BY <2>1 DEF CheckoutInv, TypeOK
  <1>8. calls' \in 0..MaxCalls
    BY EntriesAssumption DEF CheckoutInv, TypeOK
  <1>9. TypeOK'
    BY <1>1, <1>7, <1>8, GuardedStep DEF CheckoutInv, TypeOK
  <1> QED BY <1>1, <1>6, <1>9, GuardedStep DEF CheckoutInv

\* A thread is woken and looks again.
LEMMA WakeStep ==
    ASSUME CheckoutInv, NEW t \in Threads, Wake(t)
    PROVE  CheckoutInv'
  <1> DEFINE c == thread[t].cfg
  <1>1. Guarded(t, c) /\ thread[t].pc = "woken" /\ UNCHANGED <<threads, table, calls>>
    BY DEF Wake
  <1>2. c \in Configs
    BY <1>1 DEF CheckoutInv, CallsSound
  <1> HIDE DEF c
  <1>3. /\ thread'[t].pc \in {"wait", "search"} /\ thread'[t].cfg = c
        /\ \A u \in Threads \ {t} : thread'[u] = thread[u]
    BY <1>1, <1>2, GuardedStep
  <1>4. \A d \in Configs : Members(d)' = Members(d)
    BY <1>1, <1>3 DEF Members, c
  <1>5. ThreadsCounted'
    BY <1>1, <1>4 DEF CheckoutInv, ThreadsCounted
  <1>6. TypeOK'
    BY <1>1, <1>2, GuardedStep DEF CheckoutInv, TypeOK
  <1> QED BY <1>1, <1>2, <1>5, <1>6, GuardedStep DEF CheckoutInv

\* The search takes the entry it is at, or goes on to the next one.
LEMMA SearchStep ==
    ASSUME CheckoutInv, NEW t \in Threads, Search(t)
    PROVE  CheckoutInv'
  <1> USE DEF CheckoutInv, TypeOK, Search
  <1> DEFINE i == thread[t].at
  <1>1. i \in Places /\ thread[t].cfg \in Configs /\ thread[t].pc = "search"
    BY EntriesAssumption DEF CallsSound, Places
  <1>2. /\ \A j \in Places : /\ table'[j].usable = table[j].usable
                             /\ table'[j].cfg = table[j].cfg
        /\ table' \in [Places -> [cfg : Configs \cup {NoConfig}, usable : BOOLEAN,
                                  out : Threads \cup {NoThread}]]
    BY <1>1
  <1>3. /\ thread'[t].cfg = thread[t].cfg /\ Works(t)'
        /\ thread'[t].pc = "leave" => thread'[t].at = i
        /\ thread'[t].pc = "search" =>
              thread'[t].at = i + 1 /\ ~(table[i].usable /\ table[i].cfg = thread[t].cfg)
        /\ \A u \in Threads \ {t} : thread'[u] = thread[u]
        /\ thread' \in [Threads -> [pc : {"idle", "wait", "woken", "search", "leave", "use"},
                                    cfg : Configs \cup {NoConfig}, at : 0..(Entries + 1)]]
    <2> DEFINE found == table[i].usable /\ table[i].cfg = thread[t].cfg
    <2>1. CASE found
      <3>1. thread' = [thread EXCEPT ![t].pc = "leave"]
        BY <2>1
      <3> QED BY <1>1, <2>1, <3>1 DEF Works
    <2>2. CASE ~found
      <3>1. thread' = [thread EXCEPT ![t].at = i + 1] /\ i + 1 \in 0..(Entries + 1)
        BY <1>1, <2>2, EntriesAssumption DEF Places
      <3> QED BY <1>1, <2>2, <3>1 DEF Works
    <2> QED BY <2>1, <2>2
  <1>4. \A d \in Configs : Members(d)' = Members(d)
    BY <1>1, <1>3 DEF Members, Works
  <1>5. ThreadsCounted'
    BY <1>4 DEF ThreadsCounted
  <1>6. CallsSound'
    BY <1>1, <1>3, EntriesAssumption DEF CallsSound, Works, Places
  <1>7. OneWorks'
    BY <1>1, <1>3 DEF OneWorks, Works
  <1>8. Searched'
    BY <1>1, <1>2, <1>3 DEF Searched, Places
  <1>9. OneSaPerConfig'
    BY <1>2 DEF OneSaPerConfig
  <1>10. TypeOK'
    BY <1>2, <1>3
  <1> QED BY <1>5, <1>6, <1>7, <1>8, <1>9, <1>10

\* The search found nothing: a new IKE_SA is put into the table, or cannot be.
LEMMA CreateStep ==
    ASSUME CheckoutInv, NEW t \in Threads, Create(t)
    PROVE  CheckoutInv'
  <1> USE DEF CheckoutInv, TypeOK
  <1>0. PICK c \in Configs \cup {NoConfig} : c = thread[t].cfg
    OBVIOUS
  <1> DEFINE new == [cfg |-> c, usable |-> TRUE, out |-> t]
  <1>1. /\ thread[t].pc = "search" /\ thread[t].at > Entries
        /\ UNCHANGED <<threads, working, calls>>
    BY DEF Create
  <1>2. c \in Configs /\ thread[t].at = Entries + 1
    BY <1>0, <1>1, EntriesAssumption DEF CallsSound
  <1>3. \A i \in Places : ~(table[i].usable /\ table[i].cfg = c)
    BY <1>0, <1>1, <1>2, EntriesAssumption DEF Searched, Places
  <1>4. PICK n \in 0..Entries :
            /\ thread' = [thread EXCEPT ![t].pc = "leave", ![t].at = n]
            /\ \/ n \in Places /\ table' = [table EXCEPT ![n] = new]
               \/ table' = table
    <2>1. CASE \E i \in Places : /\ table' = [table EXCEPT ![i] = new]
                                 /\ thread' = [thread EXCEPT ![t].pc = "leave", ![t].at = i]
      <3>1. Places \subseteq 0..Entries
        BY EntriesAssumption DEF Places
      <3> HIDE DEF new
      <3> QED BY <2>1, <3>1, Zenon
    <2>2. CASE thread' = [thread EXCEPT ![t].pc = "leave", ![t].at = 0] /\ UNCHANGED table
      <3>1. 0 \in 0..Entries
        BY EntriesAssumption
      <3> QED BY <2>2, <3>1
    <2> QED BY <1>0, <2>1, <2>2 DEF Create
  <1>5. /\ thread'[t].cfg = c /\ thread'[t].pc = "leave" /\ thread'[t].at = n
        /\ \A u \in Threads \ {t} : thread'[u] = thread[u]
        /\ thread' \in [Threads -> [pc : {"idle", "wait", "woken", "search", "leave", "use"},
                                    cfg : Configs \cup {NoConfig}, at : 0..(Entries + 1)]]
    <2>1. n \in 0..(Entries + 1)
      BY EntriesAssumption
    <2> DEFINE r == [thread[t] EXCEPT !.pc = "leave", !.at = n]
    <2>2. /\ r \in [pc : {"idle", "wait", "woken", "search", "leave", "use"},
                   cfg : Configs \cup {NoConfig}, at : 0..(Entries + 1)]
          /\ r.pc = "leave" /\ r.at = n /\ r.cfg = c
      BY <1>0, <2>1
    <2>3. thread' = [thread EXCEPT ![t] = r]
      BY <1>4
    <2> HIDE DEF r
    <2> QED BY <2>2, <2>3
  <1>6. new \in [cfg : Configs \cup {NoConfig}, usable : BOOLEAN, out : Threads \cup {NoThread}]
    BY <1>2
  <1>7. table' \in [Places -> [cfg : Configs \cup {NoConfig}, usable : BOOLEAN,
                               out : Threads \cup {NoThread}]]
    BY <1>4, <1>6
  <1>8. \A j \in Places : table'[j] = table[j] \/ (j = n /\ table'[j].cfg = c)
    BY <1>4
  <1> HIDE DEF new
  <1>9. \A d \in Configs : Members(d)' = Members(d)
    <2>1. \A u \in Threads : thread'[u].cfg = thread[u].cfg
                            /\ (u = t => thread[u].pc = "search" /\ thread'[u].pc = "leave")
                            /\ (u # t => thread'[u] = thread[u])
      BY <1>0, <1>1, <1>5
    <2> QED BY <2>1 DEF Members
  <1>10. ThreadsCounted'
    BY <1>1, <1>9 DEF ThreadsCounted
  <1>11. CallsSound'
    BY <1>2, <1>5 DEF CallsSound
  <1>12. OneWorks'
    <2>1. \A u \in Threads : Works(u)' => Works(u) /\ thread'[u].cfg = thread[u].cfg
      BY <1>0, <1>1, <1>5 DEF Works
    <2> QED BY <1>1, <2>1 DEF OneWorks, Works
  <1>13. Searched'
    <2> SUFFICES ASSUME NEW u \in Threads, NEW i \in Places,
                        thread'[u].pc = "search", i < thread'[u].at
                 PROVE  ~(table'[i].usable /\ table'[i].cfg = thread'[u].cfg)
      BY DEF Searched
    <2>1. u # t /\ thread'[u] = thread[u] /\ thread[u].cfg # c
      BY <1>0, <1>1, <1>5 DEF OneWorks, Works
    <2> QED BY <1>8, <2>1 DEF Searched
  <1>14. OneSaPerConfig'
    BY <1>3, <1>8 DEF OneSaPerConfig
  <1>15. TypeOK'
    BY <1>1, <1>5, <1>7
  <1> QED BY <1>10, <1>11, <1>12, <1>13, <1>14, <1>15

\* The thread has its IKE_SA, or none, and lets another one look for it.
LEMMA LeaveStep ==
    ASSUME CheckoutInv, NEW t \in Threads, Leave(t)
    PROVE  CheckoutInv'
  <1> USE DEF CheckoutInv, TypeOK
  <1>0. PICK c \in Configs \cup {NoConfig} : c = thread[t].cfg
    OBVIOUS
  <1> DEFINE mid == [thread EXCEPT ![t] = IF thread[t].at = 0 THEN Idle
                                          ELSE [thread[t] EXCEPT !.pc = "use"]]
  <1>1. /\ thread[t].pc = "leave" /\ threads' = Unuse(c)
        /\ working' = [working EXCEPT ![c] = FALSE]
        /\ thread' \in Signal(mid) /\ UNCHANGED <<table, calls>>
    BY <1>0 DEF Leave
  <1>2. c \in Configs /\ thread[t].at \in 0..Entries
    BY <1>0, <1>1 DEF CallsSound
  <1>3. /\ mid[t].pc \in {"idle", "use"} /\ (mid[t].pc = "use" => mid[t].cfg = c /\ mid[t].at \in Places)
        /\ \A u \in Threads \ {t} : mid[u] = thread[u]
        /\ mid \in [Threads -> [pc : {"idle", "wait", "woken", "search", "leave", "use"},
                                cfg : Configs \cup {NoConfig}, at : 0..(Entries + 1)]]
    <2>1. CASE thread[t].at = 0
      <3>1. Idle \in [pc : {"idle", "wait", "woken", "search", "leave", "use"},
                      cfg : Configs \cup {NoConfig}, at : 0..(Entries + 1)]
        BY EntriesAssumption DEF Idle
      <3> QED BY <2>1, <3>1 DEF Idle
    <2>2. CASE thread[t].at # 0
      <3> DEFINE r == [thread[t] EXCEPT !.pc = "use"]
      <3>1. /\ r \in [pc : {"idle", "wait", "woken", "search", "leave", "use"},
                     cfg : Configs \cup {NoConfig}, at : 0..(Entries + 1)]
            /\ r.pc = "use" /\ r.cfg = c /\ r.at \in Places
        <4>1. thread[t] \in [pc : {"idle", "wait", "woken", "search", "leave", "use"},
                             cfg : Configs \cup {NoConfig}, at : 0..(Entries + 1)]
          OBVIOUS
        <4>2. thread[t].at \in Places
          BY <1>2, <2>2, EntriesAssumption DEF Places
        <4> QED BY <1>0, <4>1, <4>2
      <3>2. mid = [thread EXCEPT ![t] = r]
        BY <2>2
      <3> HIDE DEF r, mid
      <3> QED BY <3>1, <3>2
    <2> QED BY <2>1, <2>2
  <1> HIDE DEF mid
  <1>4. /\ thread'[t] = mid[t]
        /\ \A u \in Threads \ {t} : \/ thread'[u] = thread[u]
                                    \/ /\ thread[u].pc = "wait" /\ thread'[u].pc = "woken"
                                       /\ thread'[u].cfg = thread[u].cfg
                                       /\ thread'[u].at = thread[u].at
        /\ thread' \in [Threads -> [pc : {"idle", "wait", "woken", "search", "leave", "use"},
                                    cfg : Configs \cup {NoConfig}, at : 0..(Entries + 1)]]
    <2>1. CASE thread' = mid
      BY <1>3, <2>1
    <2>2. CASE \E w \in Waiting : thread' = [mid EXCEPT ![w].pc = "woken"]
      <3>1. PICK w \in Waiting : thread' = [mid EXCEPT ![w].pc = "woken"]
        BY <2>2
      <3>2. w \in Threads \ {t} /\ mid[w] = thread[w] /\ thread[w].pc = "wait"
        BY <1>1, <1>3 DEF Waiting
      <3> QED BY <1>3, <3>1, <3>2
    <2> QED BY <1>1, <2>1, <2>2 DEF Signal
  <1>5. /\ Members(c)' = Members(c) \ {t} /\ t \in Members(c)
        /\ \A d \in Configs \ {c} : Members(d)' = Members(d)
    <2> DEFINE In == {"wait", "woken", "search", "leave"}
    <2>1. thread[t].pc \in In /\ thread'[t].pc \notin In
      BY <1>1, <1>3, <1>4
    <2>2. \A u \in Threads \ {t} :
              (thread'[u].pc \in In <=> thread[u].pc \in In) /\ thread'[u].cfg = thread[u].cfg
      BY <1>4
    <2>3. /\ t \in Members(c) /\ \A d \in Configs : t \notin Members(d)'
          /\ \A d \in Configs \ {c} : t \notin Members(d)
      BY ONLY <1>0, <1>2, <2>1, t \in Threads DEF Members
    <2>4. \A d \in Configs, u \in Threads \ {t} : u \in Members(d)' <=> u \in Members(d)
      BY ONLY <2>2 DEF Members
    <2>5. \A d \in Configs : Members(d) \subseteq Threads /\ Members(d)' \subseteq Threads
      BY DEF Members
    <2>6. Members(c)' = Members(c) \ {t} /\ \A d \in Configs \ {c} : Members(d)' = Members(d)
      BY ONLY <1>2, <2>3, <2>4, <2>5
    <2> QED BY <2>3, <2>6
  <1>6. Cardinality(Members(c)') = Cardinality(Members(c)) - 1
    BY <1>5, MembersFinite, FS_RemoveElement
  <1>7. \A d \in Configs : threads'[d] = Cardinality(Members(d)')
    BY <1>1, <1>2, <1>5, <1>6 DEF ThreadsCounted, Unuse
  <1>8. ThreadsCounted'
    BY <1>7 DEF ThreadsCounted
  <1>9. threads' \in [Configs -> 0..Cardinality(Threads)]
    <2>1. \A d \in Configs : threads'[d] \in 0..Cardinality(Threads)
      BY <1>7, MembersFiniteNext, CountType
    <2> QED BY <1>1, <2>1 DEF Unuse
  <1>10. CallsSound'
    BY <1>2, <1>3, <1>4 DEF CallsSound
  <1>11. OneWorks'
    <2>1. \A u \in Threads : Works(u)' =>
              /\ u # t /\ Works(u) /\ thread'[u].cfg = thread[u].cfg
      BY <1>3, <1>4 DEF Works
    <2>2. \A u \in Threads : Works(u)' => thread[u].cfg # c /\ thread[u].cfg \in Configs
      BY <1>0, <1>1, <2>1 DEF OneWorks, Works, CallsSound
    <2>3. \A u \in Threads : Works(u)' => working'[thread'[u].cfg]
      BY <1>1, <1>2, <2>1, <2>2 DEF OneWorks
    <2> QED BY <2>1, <2>3 DEF OneWorks, Works
  <1>12. Searched'
    BY <1>1, <1>3, <1>4 DEF Searched
  <1>13. OneSaPerConfig'
    BY <1>1 DEF OneSaPerConfig
  <1>14. TypeOK'
    BY <1>1, <1>2, <1>4, <1>9
  <1> QED BY <1>8, <1>10, <1>11, <1>12, <1>13, <1>14

\* An IKE_SA that is checked in, and one whose deletion completes, is at most
\* not usable any more.
LEMMA TableStep ==
    ASSUME CheckoutInv, NEW i \in Places,
           NEW e \in [cfg : Configs \cup {NoConfig}, usable : BOOLEAN,
                      out : Threads \cup {NoThread}],
           table' = [table EXCEPT ![i] = e],
           e.usable => table[i].usable /\ e.cfg = table[i].cfg
    PROVE  /\ OneSaPerConfig'
           /\ table' \in [Places -> [cfg : Configs \cup {NoConfig}, usable : BOOLEAN,
                                     out : Threads \cup {NoThread}]]
           /\ \A j \in Places : table'[j].usable => table[j].usable /\ table'[j].cfg = table[j].cfg
  <1> USE DEF CheckoutInv, TypeOK
  <1>1. \A j \in Places : table'[j].usable => table[j].usable /\ table'[j].cfg = table[j].cfg
    OBVIOUS
  <1>2. OneSaPerConfig'
    BY <1>1 DEF OneSaPerConfig
  <1> QED BY <1>1, <1>2

\* checkin() and checkin_and_destroy().
LEMMA CheckinStep ==
    ASSUME CheckoutInv, NEW t \in Threads, Checkin(t)
    PROVE  CheckoutInv'
  <1> USE DEF CheckoutInv, TypeOK
  <1> DEFINE i == thread[t].at
             Recs == [cfg : Configs \cup {NoConfig}, usable : BOOLEAN, out : Threads \cup {NoThread}]
  <1>1. /\ thread[t].pc = "use" /\ thread' = [thread EXCEPT ![t] = Idle]
        /\ UNCHANGED <<threads, working, calls>>
    BY DEF Checkin
  <1>2. i \in Places
    BY <1>1 DEF CallsSound
  <1>3. PICK e \in Recs : /\ table' = [table EXCEPT ![i] = e]
                          /\ e.usable => table[i].usable /\ e.cfg = table[i].cfg
    <2>1. CASE table' = [table EXCEPT ![i].out = NoThread]
      <3>1. [table[i] EXCEPT !.out = NoThread] \in Recs
        BY <1>2
      <3> QED BY <2>1, <3>1
    <2>2. CASE table' = [table EXCEPT ![i].out = NoThread, ![i].usable = FALSE]
      <3> DEFINE e == [table[i] EXCEPT !.out = NoThread, !.usable = FALSE]
      <3>0. table[i] \in Recs
        BY <1>2
      <3> HIDE DEF i
      <3>1. e \in Recs /\ ~e.usable
        BY <3>0
      <3>2. table' = [table EXCEPT ![i] = e]
        BY <1>2, <2>2
      <3> HIDE DEF e
      <3> QED BY <3>1, <3>2
    <2>3. CASE table' = [table EXCEPT ![i] = NoSa]
      <3>1. NoSa \in Recs /\ ~NoSa.usable
        BY DEF NoSa
      <3> QED BY <2>3, <3>1
    <2> QED BY <2>1, <2>2, <2>3 DEF Checkin
  <1>4. /\ OneSaPerConfig' /\ table' \in [Places -> Recs]
        /\ \A j \in Places : table'[j].usable => table[j].usable /\ table'[j].cfg = table[j].cfg
    BY <1>2, <1>3, TableStep
  <1> HIDE DEF Recs
  <1>5. /\ thread'[t] = Idle /\ \A u \in Threads \ {t} : thread'[u] = thread[u]
    BY <1>1
  <1>6. thread' \in [Threads -> [pc : {"idle", "wait", "woken", "search", "leave", "use"},
                                 cfg : Configs \cup {NoConfig}, at : 0..(Entries + 1)]]
    <2>1. Idle \in [pc : {"idle", "wait", "woken", "search", "leave", "use"},
                    cfg : Configs \cup {NoConfig}, at : 0..(Entries + 1)]
      BY EntriesAssumption DEF Idle
    <2> QED BY <1>1, <2>1
  <1>7. \A d \in Configs : Members(d)' = Members(d)
    BY <1>1, <1>5 DEF Members, Idle
  <1>8. ThreadsCounted'
    BY <1>1, <1>7 DEF ThreadsCounted
  <1>9. CallsSound'
    BY <1>5 DEF CallsSound, Idle
  <1>10. OneWorks'
    BY <1>1, <1>5 DEF OneWorks, Works, Idle
  <1>11. Searched'
    BY <1>4, <1>5 DEF Searched, Idle
  <1>12. TypeOK'
    BY <1>1, <1>4, <1>6 DEF Recs
  <1> QED BY <1>4, <1>8, <1>9, <1>10, <1>11, <1>12

\* The deletion of an IKE_SA completes.
LEMMA DeletedStep ==
    ASSUME CheckoutInv, NEW i \in Places, Deleted(i)
    PROVE  CheckoutInv'
  <1> USE DEF CheckoutInv, TypeOK
  <1>1. table' = [table EXCEPT ![i] = NoSa] /\ UNCHANGED <<threads, working, thread, calls>>
    BY DEF Deleted
  <1>2. /\ OneSaPerConfig'
        /\ table' \in [Places -> [cfg : Configs \cup {NoConfig}, usable : BOOLEAN,
                                  out : Threads \cup {NoThread}]]
        /\ \A j \in Places : table'[j].usable => table[j].usable /\ table'[j].cfg = table[j].cfg
    <2>1. /\ NoSa \in [cfg : Configs \cup {NoConfig}, usable : BOOLEAN, out : Threads \cup {NoThread}]
          /\ ~NoSa.usable
      BY DEF NoSa
    <2> QED BY <1>1, <2>1, TableStep
  <1>3. \A d \in Configs : Members(d)' = Members(d)
    BY <1>1 DEF Members
  <1>4. ThreadsCounted'
    BY <1>1, <1>3 DEF ThreadsCounted
  <1>5. CallsSound' /\ OneWorks'
    BY <1>1 DEF CallsSound, OneWorks, Works
  <1>6. Searched'
    BY <1>1, <1>2 DEF Searched
  <1>7. TypeOK'
    BY <1>1, <1>2
  <1> QED BY <1>2, <1>4, <1>5, <1>6, <1>7

-----------------------------------------------------------------------------
(* The theorem.                                                            *)

\* The inductive invariant holds of every behaviour.
LEMMA CheckoutInvariant == Spec => []CheckoutInv
  <1>1. CheckoutInv /\ [Next]_vars => CheckoutInv'
    <2> SUFFICES ASSUME CheckoutInv, [Next]_vars PROVE CheckoutInv'
      OBVIOUS
    <2>1. CASE \E t \in Threads : Proceed(t)
      BY <2>1, WakeStep, SearchStep, CreateStep, LeaveStep, CheckinStep DEF Proceed
    <2>2. CASE \E t \in Threads, c \in Configs : Call(t, c)
      BY <2>2, CallStep
    <2>3. CASE \E i \in Places : Deleted(i)
      BY <2>3, DeletedStep
    <2>4. CASE UNCHANGED vars
      <3>1. \A d \in Configs : Members(d)' = Members(d)
        BY <2>4 DEF vars, Members
      <3> QED
        BY <2>4, <3>1 DEF vars, CheckoutInv, TypeOK, CallsSound, ThreadsCounted, OneWorks, Works,
                          Searched, OneSaPerConfig
    <2> QED BY <2>1, <2>2, <2>3, <2>4 DEF Next
  <1> QED BY <1>1, InitCheckout, PTL DEF Spec

\* However the threads that initiate connections interleave in checkout_by_config(),
\* a configuration never has two usable IKE_SAs, as only one thread at a time may look
\* for one and create it, and the config_entry_t a thread refers to is not freed.
THEOREM CheckoutSoundCorrect == Spec => []CheckoutSound
  <1>1. CheckoutInv => CheckoutSound
    <2> SUFFICES ASSUME CheckoutInv PROVE EntryKept
      BY DEF CheckoutInv, CheckoutSound
    <2> SUFFICES ASSUME NEW t \in Threads, thread[t].pc \in {"wait", "woken", "search", "leave"}
                 PROVE  threads[thread[t].cfg] > 0
      BY DEF EntryKept
    <2>1. thread[t].cfg \in Configs /\ t \in Members(thread[t].cfg)
      BY DEF CheckoutInv, CallsSound, Members
    <2>2. Cardinality(Members(thread[t].cfg)) > 0
      BY <2>1, MembersFinite
    <2> QED BY <2>1, <2>2 DEF CheckoutInv, ThreadsCounted
  <1> QED BY <1>1, CheckoutInvariant, PTL

=============================================================================
