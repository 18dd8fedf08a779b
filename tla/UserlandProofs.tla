--------------------------- MODULE UserlandProofs ---------------------------
(***************************************************************************)
(* Theorems about libipsec: about IpsecSaMgr, for any number of threads and *)
(* SAs, and about EspContext, for every width of sequence numbers and every *)
(* size of the window that divides their range.                             *)
(***************************************************************************)
EXTENDS IpsecSaMgr, EspContext, FiniteSetTheorems, SequenceTheorems, TLAPS

-----------------------------------------------------------------------------
(* IpsecSaMgr: the inductive invariant.                                    *)

EntryRec == [locked : BOOLEAN, waiting_threads : 0..Cardinality(Threads),
             awaits_deletion : BOOLEAN]
CallRec == [op : Ops \cup {"none"}, state : States, at : SAs \cup {NoSA},
            woken : BOOLEAN, result : {"none", "done", "gone"}]

Waiters(s) == {t \in Threads : call[t].state = "turn" /\ call[t].at = s}
Removes(t) == call[t].state \in {"checkin", "leave"}

\* A thread in a call is at an entry, only one that sleeps is woken, and the one that
\* flushes the list keeps the mutex between two entries.
CallSound ==
    \A t \in Threads :
        /\ call[t].state = "idle" <=> call[t].at = NoSA
        /\ call[t].woken => call[t].state \in {"turn", "checkin", "leave"}
        /\ call[t].state = "run" <=> mutex = t

\* An entry in use is locked, and one that is removed is marked; each by one thread.
UserSound ==
    /\ \A t \in Threads : call[t].state = "using" => entry[call[t].at].locked
    /\ \A t, u \in Threads :
          call[t].state = "using" /\ call[u].state = "using" /\ call[t].at = call[u].at => t = u
RemoverSound ==
    /\ \A t \in Threads : Removes(t) => entry[call[t].at].awaits_deletion
    /\ \A t, u \in Threads : Removes(t) /\ Removes(u) /\ call[t].at = call[u].at => t = u

\* The list has every entry that is not freed, once.
ListSound ==
    /\ \A i, j \in DOMAIN sas : sas[i] = sas[j] => i = j
    /\ \A s \in SAs : life[s] = "installed" <=> \E i \in DOMAIN sas : sas[i] = s

ManagerInv ==
    /\ TypeOK /\ CallSound /\ UserSound /\ RemoverSound /\ ListSound
    /\ NoDangling /\ WaitersCounted /\ NobodyForgotten

-----------------------------------------------------------------------------
(* Records, counts and lists.                                              *)

\* The type invariant with the records named.
LEMMA TypeRecords ==
    TypeOK <=> /\ sas \in Seq(SAs) /\ life \in [SAs -> {"none", "installed", "destroyed"}]
               /\ entry \in [SAs -> EntryRec] /\ mutex \in Threads \cup {NoThread}
               /\ call \in [Threads -> CallRec]
  BY DEF TypeOK, EntryRec, CallRec

\* The type of the fields of a call.
LEMMA CallFields ==
    ASSUME NEW c \in CallRec
    PROVE  /\ c.state \in States /\ c.at \in SAs \cup {NoSA} /\ c.woken \in BOOLEAN
           /\ c.op \in Ops \cup {"none"}
  BY DEF CallRec

\* A call that begins, returns, or sleeps.
LEMMA CallTypes ==
    ASSUME NEW c \in CallRec
    PROVE  /\ NoCall \in CallRec /\ NoCall.at = NoSA /\ NoCall.state = "idle" /\ ~NoCall.woken
           /\ \A op \in Ops : [NoCall EXCEPT !.op = op] \in CallRec
           /\ \A r \in {"done", "gone"} :
                 /\ Returned(c, r) \in CallRec /\ Returned(c, r).state = "idle"
                 /\ Returned(c, r).at = NoSA /\ ~Returned(c, r).woken
           /\ \A state \in States, s \in SAs :
                 /\ Sleep(c, state, s) \in CallRec /\ Sleep(c, state, s).state = state
                 /\ Sleep(c, state, s).at = s /\ ~Sleep(c, state, s).woken
  BY DEF CallRec, NoCall, Returned, Sleep, States

\* The state of an entry.
LEMMA EntryTypes ==
    ASSUME NEW e \in EntryRec
    PROVE  /\ e.locked \in BOOLEAN /\ e.awaits_deletion \in BOOLEAN
           /\ e.waiting_threads \in 0..Cardinality(Threads)
           /\ \A n \in 0..Cardinality(Threads) :
                 /\ [e EXCEPT !.waiting_threads = n] \in EntryRec
                 /\ [e EXCEPT !.waiting_threads = n].waiting_threads = n
                 /\ [e EXCEPT !.waiting_threads = n].locked = e.locked
                 /\ [e EXCEPT !.waiting_threads = n].awaits_deletion = e.awaits_deletion
           /\ \A b \in BOOLEAN :
                 /\ [e EXCEPT !.locked = b] \in EntryRec
                 /\ [e EXCEPT !.locked = b].locked = b
                 /\ [e EXCEPT !.locked = b].waiting_threads = e.waiting_threads
                 /\ [e EXCEPT !.locked = b].awaits_deletion = e.awaits_deletion
                 /\ [e EXCEPT !.awaits_deletion = b] \in EntryRec
                 /\ [e EXCEPT !.awaits_deletion = b].awaits_deletion = b
                 /\ [e EXCEPT !.awaits_deletion = b].locked = e.locked
                 /\ [e EXCEPT !.awaits_deletion = b].waiting_threads = e.waiting_threads
  BY DEF EntryRec

\* A thread continues as c while those in W are woken.
Moves(t, c, W) ==
    /\ call' \in [Threads -> CallRec] /\ call'[t] = c
    /\ \A u \in Threads \ {t} :
          /\ call'[u].state = call[u].state /\ call'[u].at = call[u].at
          /\ call'[u].woken <=> call[u].woken \/ u \in W

\* That is what Calls() does.
LEMMA CallsMoves ==
    ASSUME call \in [Threads -> CallRec], NEW t \in Threads, NEW c \in CallRec,
           NEW W, call' = Calls(t, c, W)
    PROVE  Moves(t, c, W)
  <1>1. \A u \in Threads : [call[u] EXCEPT !.woken = TRUE] \in CallRec
    BY DEF CallRec
  <1>2. call' \in [Threads -> CallRec]
    BY <1>1 DEF Calls
  <1>3. call'[t] = c
    BY DEF Calls
  <1>4. ASSUME NEW u \in Threads \ {t}
        PROVE  /\ call'[u].state = call[u].state /\ call'[u].at = call[u].at
               /\ call'[u].woken <=> call[u].woken \/ u \in W
    <2>1. call'[u] = IF u \in W THEN [call[u] EXCEPT !.woken = TRUE] ELSE call[u]
      BY DEF Calls
    <2> QED BY <2>1 DEF CallRec
  <1> QED BY <1>2, <1>3, <1>4 DEF Moves

\* And an assignment to the call of one thread, which wakes nobody.
LEMMA ExceptMoves ==
    ASSUME call \in [Threads -> CallRec], NEW t \in Threads, NEW c \in CallRec,
           call' = [call EXCEPT ![t] = c]
    PROVE  Moves(t, c, {})
  BY DEF Moves

\* Sets of threads are finite, and their cardinality is a value of waiting_threads.
LEMMA ThreadSets ==
    ASSUME ConstantsOK, NEW S \in SUBSET Threads
    PROVE  /\ IsFiniteSet(S) /\ Cardinality(S) \in 0..Cardinality(Threads)
           /\ Cardinality(S) = 0 <=> S = {}
  <1>1. IsFiniteSet(S) /\ Cardinality(S) <= Cardinality(Threads)
    BY FS_Subset DEF ConstantsOK
  <1>2. Cardinality(S) \in Nat /\ Cardinality(Threads) \in Nat
    BY <1>1, FS_CardinalityType DEF ConstantsOK
  <1> QED BY <1>1, <1>2, FS_EmptySet

\* Where an installed entry is, and what the list is without it.
LEMMA PlaceOf ==
    ASSUME TypeOK, ListSound, NEW s \in SAs, life[s] = "installed"
    PROVE  /\ Place(s) \in 1..Len(sas) /\ sas[Place(s)] = s
           /\ Following(s) # NoSA =>
                 Following(s) \in SAs /\ Following(s) # s /\ life[Following(s)] = "installed"
  <1>1. \E i \in DOMAIN sas : sas[i] = s
    BY DEF ListSound
  <1>2. Place(s) \in DOMAIN sas /\ sas[Place(s)] = s
    BY <1>1 DEF Place
  <1>3. DOMAIN sas = 1..Len(sas) /\ Len(sas) \in Nat /\ \A i \in 1..Len(sas) : sas[i] \in SAs
    BY DEF TypeOK
  <1> HIDE DEF Place
  <1>4. ASSUME Following(s) # NoSA
        PROVE  Following(s) \in SAs /\ Following(s) # s /\ life[Following(s)] = "installed"
    <2>1. Place(s) + 1 \in 1..Len(sas) /\ Following(s) = sas[Place(s) + 1]
      BY <1>2, <1>3, <1>4 DEF Following
    <2>2. sas[Place(s) + 1] # sas[Place(s)]
      BY <1>2, <1>3, <2>1 DEF ListSound
    <2> QED BY <1>2, <1>3, <2>1, <2>2 DEF ListSound
  <1> QED BY <1>2, <1>3, <1>4

\* remove_at() takes the entry out and keeps the others.
LEMMA RemoveAtPlace ==
    ASSUME TypeOK, ListSound, NEW s \in SAs, life[s] = "installed",
           sas' = RemoveAt(sas, Place(s)), life' = [life EXCEPT ![s] = "destroyed"]
    PROVE  /\ sas' \in Seq(SAs) /\ life' \in [SAs -> {"none", "installed", "destroyed"}]
           /\ ListSound'
           /\ \A x \in SAs \ {s} : life'[x] = life[x]
           /\ life'[s] = "destroyed"
  <1> DEFINE p == Place(s)  n == Len(sas)
  <1>1. p \in 1..n /\ sas[p] = s /\ n \in Nat /\ sas \in Seq(SAs)
    BY PlaceOf DEF TypeOK
  <1> HIDE DEF p
  <1>2. sas' = SubSeq(sas, 1, p - 1) \o SubSeq(sas, p + 1, n)
    BY DEF RemoveAt, p
  <1>3. /\ sas' \in Seq(SAs) /\ Len(sas') = n - 1
        /\ \A i \in 1..(n - 1) : sas'[i] = IF i < p THEN sas[i] ELSE sas[i + 1]
    <2> DEFINE a == SubSeq(sas, 1, p - 1)  b == SubSeq(sas, p + 1, n)
    <2>1. /\ a \in Seq(SAs) /\ Len(a) = p - 1 /\ \A i \in 1..(p - 1) : a[i] = sas[i]
          /\ b \in Seq(SAs) /\ Len(b) = n - p /\ \A i \in 1..(n - p) : b[i] = sas[p + i]
      BY <1>1
    <2> HIDE DEF a, b
    <2>2. sas' = a \o b
      BY <1>2 DEF a, b
    <2>3. /\ sas' \in Seq(SAs) /\ Len(sas') = n - 1
          /\ \A i \in 1..(n - 1) : sas'[i] = IF i <= Len(a) THEN a[i] ELSE b[i - Len(a)]
      <3>1. /\ a \o b \in Seq(SAs) /\ Len(a \o b) = Len(a) + Len(b)
            /\ \A i \in 1..(Len(a) + Len(b)) :
                  (a \o b)[i] = IF i <= Len(a) THEN a[i] ELSE b[i - Len(a)]
        BY <2>1, ConcatProperties, Zenon
      <3>2. Len(a) + Len(b) = n - 1
        BY <1>1, <2>1
      <3> QED BY <2>2, <3>1, <3>2, Zenon
    <2>4. ASSUME NEW i \in 1..(n - 1)
          PROVE  sas'[i] = IF i < p THEN sas[i] ELSE sas[i + 1]
      <3>1. CASE i < p
        <4>1. i \in 1..(p - 1) /\ i <= Len(a)
          BY <1>1, <2>1, <3>1
        <4> QED BY <2>1, <2>3, <3>1, <4>1
      <3>2. CASE ~(i < p)
        <4>1. i - Len(a) \in 1..(n - p) /\ ~(i <= Len(a)) /\ p + (i - Len(a)) = i + 1
          BY <1>1, <2>1, <3>2
        <4> QED BY <2>1, <2>3, <3>2, <4>1
      <3> QED BY <3>1, <3>2
    <2> QED BY <2>3, <2>4
  <1>4. life' \in [SAs -> {"none", "installed", "destroyed"}] /\ life'[s] = "destroyed"
        /\ \A x \in SAs \ {s} : life'[x] = life[x]
    BY DEF TypeOK
  <1>5. DOMAIN sas = 1..n /\ DOMAIN sas' = 1..(n - 1)
    BY <1>1, <1>3
  <1> DEFINE old(i) == IF i < p THEN i ELSE i + 1
  <1>9. /\ \A i \in 1..(n - 1) : old(i) \in 1..n /\ old(i) # p /\ sas'[i] = sas[old(i)]
        /\ \A i, j \in 1..(n - 1) : old(i) = old(j) => i = j
    BY <1>1, <1>3
  <1> HIDE DEF old
  <1>6. \A i, j \in DOMAIN sas' : sas'[i] = sas'[j] => i = j
    <2> SUFFICES ASSUME NEW i \in 1..(n - 1), NEW j \in 1..(n - 1), sas'[i] = sas'[j]
                 PROVE  i = j
      BY <1>5
    <2>1. old(i) \in DOMAIN sas /\ old(j) \in DOMAIN sas /\ sas[old(i)] = sas[old(j)]
      BY <1>5, <1>9
    <2>2. old(i) = old(j)
      BY <2>1 DEF ListSound
    <2> QED BY <1>9, <2>2
  <1>7. ASSUME NEW x \in SAs
        PROVE  life'[x] = "installed" <=> \E i \in DOMAIN sas' : sas'[i] = x
    <2>1. CASE x = s
      <3>1. \A i \in DOMAIN sas' : sas'[i] # s
        BY <1>1, <1>5, <1>9 DEF ListSound
      <3> QED BY <1>4, <2>1, <3>1
    <2>2. CASE x # s
      <3>1. ASSUME NEW j \in DOMAIN sas, sas[j] = x
            PROVE  \E i \in DOMAIN sas' : sas'[i] = x
        <4>1. CASE j < p
          <5>1. j \in 1..(n - 1) /\ sas'[j] = x
            BY <1>1, <1>3, <1>5, <3>1, <4>1
          <5> QED BY <1>5, <5>1
        <4>2. CASE ~(j < p)
          <5>1. j - 1 \in 1..(n - 1) /\ sas'[j - 1] = x
            BY <1>1, <1>3, <1>5, <2>2, <3>1, <4>2
          <5> QED BY <1>5, <5>1
        <4> QED BY <4>1, <4>2
      <3>2. ASSUME NEW i \in DOMAIN sas', sas'[i] = x
            PROVE  \E j \in DOMAIN sas : sas[j] = x
        <4>1. i \in 1..(n - 1)
          BY <1>5, <3>2
        <4>2. old(i) \in DOMAIN sas /\ sas[old(i)] = x
          BY <1>5, <1>9, <3>2, <4>1
        <4> QED BY <4>2
      <3> QED BY <1>4, <2>2, <3>1, <3>2 DEF ListSound
    <2> QED BY <2>1, <2>2
  <1>8. ListSound'
    BY <1>6, <1>7 DEF ListSound
  <1> QED BY <1>3, <1>4, <1>8

-----------------------------------------------------------------------------
(* Steps of a thread at an entry.                                          *)

\* What thread t, at entry s or about to be, makes of the entry and of its call, and
\* of the threads that sleep there.
AtEntry(t, s, c, e, W) ==
    /\ Moves(t, c, W) /\ W \subseteq Asleep(s) /\ entry' = [entry EXCEPT ![s] = e]
    /\ call[t].at \in {NoSA, s} /\ t \notin Asleep(s)
    /\ mutex \in {NoThread, t} /\ mutex' = IF c.state = "run" THEN t ELSE NoThread
    /\ c.state = "idle" <=> c.at = NoSA
    /\ ~c.woken
    /\ c.state \in {"using", "turn", "checkin", "leave"} => c.at = s
    /\ entry[s].locked => e.locked \/ call[t].state = "using"
    /\ c.state = "using" => e.locked /\ ~entry[s].locked
    /\ c.state = "turn" => e.locked
    /\ entry[s].awaits_deletion => e.awaits_deletion
    /\ c.state \in {"checkin", "leave"} =>
          e.awaits_deletion /\ (~entry[s].awaits_deletion \/ Removes(t))
    /\ e.waiting_threads = Cardinality(IF c.state = "turn" THEN Waiters(s) \cup {t}
                                       ELSE Waiters(s) \ {t})
    /\ \/ e.locked \/ e.waiting_threads = 0
       \/ W # {} \/ Asleep(s) = {}
       \/ e = entry[s] /\ ~call[t].woken

\* Such a step keeps the parts of the invariant that are about calls and entries.
LEMMA AtEntrySound ==
    ASSUME ConstantsOK, ManagerInv, NEW t \in Threads, NEW s \in SAs, NEW c \in CallRec,
           NEW e \in EntryRec, NEW W, AtEntry(t, s, c, e, W)
    PROVE  /\ entry' \in [SAs -> EntryRec] /\ call' \in [Threads -> CallRec]
           /\ mutex' \in Threads \cup {NoThread}
           /\ CallSound' /\ UserSound' /\ RemoverSound' /\ WaitersCounted' /\ NobodyForgotten'
  <1>1. /\ entry \in [SAs -> EntryRec] /\ call \in [Threads -> CallRec]
        /\ CallSound /\ UserSound /\ RemoverSound /\ WaitersCounted /\ NobodyForgotten
    BY TypeRecords DEF ManagerInv
  <1>2. /\ entry' \in [SAs -> EntryRec] /\ entry'[s] = e
        /\ \A x \in SAs \ {s} : entry'[x] = entry[x]
    BY <1>1 DEF AtEntry
  <1>3. /\ call' \in [Threads -> CallRec] /\ call'[t] = c
        /\ \A u \in Threads \ {t} :
              /\ call'[u].state = call[u].state /\ call'[u].at = call[u].at
              /\ call'[u].woken <=> call[u].woken \/ u \in W
    BY DEF AtEntry, Moves
  <1>4. /\ call[t].at \in {NoSA, s} /\ t \notin Asleep(s) /\ W \subseteq Asleep(s)
        /\ mutex \in {NoThread, t} /\ mutex' = IF c.state = "run" THEN t ELSE NoThread
        /\ c.state = "idle" <=> c.at = NoSA
        /\ ~c.woken
        /\ c.state \in {"using", "turn", "checkin", "leave"} => c.at = s
    BY DEF AtEntry
  <1>5. /\ entry[s].locked => e.locked \/ call[t].state = "using"
        /\ c.state = "using" => e.locked /\ ~entry[s].locked
        /\ c.state = "turn" => e.locked
    BY DEF AtEntry
  <1>6. /\ entry[s].awaits_deletion => e.awaits_deletion
        /\ c.state \in {"checkin", "leave"} =>
              e.awaits_deletion /\ (~entry[s].awaits_deletion \/ Removes(t))
    BY DEF AtEntry
  <1>7. NoSA \notin SAs /\ NoThread \notin Threads
    BY DEF ConstantsOK
  <1>8. \A u \in Threads : call[u].at \in SAs \cup {NoSA} /\ call'[u].at \in SAs \cup {NoSA}
    BY <1>1, <1>3, CallFields
  <1>9. mutex' \in Threads \cup {NoThread}
    BY <1>4
  <1>10. CallSound'
    <2> SUFFICES ASSUME NEW u \in Threads
                 PROVE  /\ call'[u].state = "idle" <=> call'[u].at = NoSA
                        /\ call'[u].woken => call'[u].state \in {"turn", "checkin", "leave"}
                        /\ call'[u].state = "run" <=> mutex' = u
      BY DEF CallSound
    <2>1. CASE u = t
      BY <1>3, <1>4, <1>7, <2>1
    <2>2. CASE u # t
      BY <1>1, <1>3, <1>4, <1>7, <2>2 DEF CallSound, Asleep
    <2> QED BY <2>1, <2>2
  <1>11. UserSound'
    <2>1. \A u \in Threads : call[u].state = "using" => call[u].at \in SAs
      BY <1>1, <1>8 DEF CallSound
    <2>2. ASSUME NEW u \in Threads, call'[u].state = "using"
          PROVE  entry'[call'[u].at].locked
      <3>1. CASE u = t
        BY <1>2, <1>3, <1>4, <1>5, <2>2, <3>1
      <3>2. CASE u # t
        <4>1. /\ call[u].state = "using" /\ call'[u].at = call[u].at /\ call[u].at \in SAs
              /\ entry[call[u].at].locked
          BY <1>1, <1>3, <2>1, <2>2, <3>2 DEF UserSound
        <4>2. call[u].at = s => e.locked
          <5>1. call[u].at = s /\ call[t].state = "using" => call[t].at = s
            BY <1>4, <1>8, <2>1, <1>7
          <5> QED BY <1>1, <1>5, <3>2, <4>1, <5>1 DEF UserSound
        <4> QED BY <1>2, <4>1, <4>2
      <3> QED BY <3>1, <3>2
    <2>3. ASSUME NEW u \in Threads \ {t}, call'[u].state = "using", call'[t].state = "using"
          PROVE  call'[u].at # call'[t].at
      BY <1>1, <1>3, <1>4, <1>5, <2>3 DEF UserSound
    <2> QED BY <1>1, <1>3, <2>2, <2>3 DEF UserSound
  <1>12. RemoverSound'
    <2>1. \A u \in Threads : Removes(u) => call[u].at \in SAs
      BY <1>1, <1>8 DEF CallSound, Removes
    <2>2. ASSUME NEW u \in Threads, Removes(u)'
          PROVE  entry'[call'[u].at].awaits_deletion
      BY <1>1, <1>2, <1>3, <1>4, <1>6, <2>1, <2>2 DEF RemoverSound, Removes
    <2>3. ASSUME NEW u \in Threads \ {t}, Removes(u)', Removes(t)'
          PROVE  call'[u].at # call'[t].at
      <3>1. Removes(u) /\ call'[u].at = call[u].at /\ call'[t].at = s
        BY <1>3, <1>4, <2>3 DEF Removes
      <3>2. ~entry[s].awaits_deletion \/ (Removes(t) /\ call[t].at = s)
        BY <1>1, <1>3, <1>4, <1>6, <2>3 DEF Removes, CallSound
      <3> QED BY <1>1, <3>1, <3>2 DEF RemoverSound
    <2> QED BY <1>1, <1>3, <2>2, <2>3 DEF RemoverSound, Removes
  <1>13. /\ Waiters(s)' = IF c.state = "turn" THEN Waiters(s) \cup {t} ELSE Waiters(s) \ {t}
         /\ \A x \in SAs \ {s} : Waiters(x)' = Waiters(x)
    BY <1>3, <1>4, <1>7 DEF Waiters
  <1>14. \A x \in SAs : entry'[x].waiting_threads = Cardinality(Waiters(x)')
    <2>1. e.waiting_threads = Cardinality(Waiters(s)')
      BY <1>13 DEF AtEntry
    <2> QED BY <1>1, <1>2, <1>13, <2>1 DEF WaitersCounted, Waiters
  <1>15. WaitersCounted'
    BY <1>14 DEF WaitersCounted, Waiters
  <1>16. NobodyForgotten'
    <2> SUFFICES ASSUME NEW x \in SAs, entry'[x].waiting_threads > 0, ~entry'[x].locked
                 PROVE  \E u \in Threads : call'[u].at = x /\ call'[u].woken
      BY DEF NobodyForgotten
    <2>1. CASE x # s
      <3>1. PICK u \in Threads : call[u].at = x /\ call[u].woken
        BY <1>1, <1>2, <2>1 DEF NobodyForgotten
      <3>2. u # t
        BY <1>4, <1>7, <2>1, <3>1
      <3> QED BY <1>3, <3>1, <3>2
    <2>2. CASE x = s
      <3>1. c.state # "turn" /\ ~e.locked /\ e.waiting_threads > 0 /\ e.waiting_threads # 0
        BY <1>2, <1>5, <2>2, EntryTypes
      <3>2. PICK u \in Waiters(s) : u # t
        <4>1. Cardinality(Waiters(s) \ {t}) # 0
          BY <3>1 DEF AtEntry
        <4>2. Waiters(s) \ {t} \in SUBSET Threads
          BY DEF Waiters
        <4>3. Waiters(s) \ {t} # {}
          BY <4>1, <4>2, ThreadSets
        <4> QED BY <4>3
      <3>3. u \in Threads /\ call[u].state = "turn" /\ call[u].at = s
        BY DEF Waiters
      <3>4. CASE W # {}
        <4>1. PICK w \in W : TRUE
          BY <3>4
        <4>2. w \in Threads /\ w # t /\ call[w].at = s
          BY <1>4, <4>1 DEF Asleep
        <4> QED BY <1>3, <2>2, <4>1, <4>2
      <3>5. CASE Asleep(s) = {}
        <4>1. call[u].woken
          BY <3>3, <3>5 DEF Asleep
        <4> QED BY <1>3, <2>2, <3>2, <3>3, <4>1
      <3>6. CASE e = entry[s] /\ ~call[t].woken
        <4>1. PICK w \in Threads : call[w].at = s /\ call[w].woken
          BY <1>1, <3>1, <3>6 DEF NobodyForgotten
        <4> QED BY <1>3, <2>2, <3>6, <4>1
      <3> QED BY <3>1, <3>4, <3>5, <3>6 DEF AtEntry
    <2> QED BY <2>1, <2>2
  <1> QED BY <1>2, <1>3, <1>9, <1>10, <1>11, <1>12, <1>15, <1>16

\* The list is left alone, and the thread continues at an installed entry or returns.
LEMMA AtEntryStays ==
    ASSUME ConstantsOK, ManagerInv, NEW t \in Threads, NEW s \in SAs, NEW c \in CallRec,
           NEW e \in EntryRec, NEW W, AtEntry(t, s, c, e, W),
           UNCHANGED <<sas, life>>, c.at # NoSA => life[c.at] = "installed"
    PROVE  ManagerInv'
  <1>1. /\ entry' \in [SAs -> EntryRec] /\ call' \in [Threads -> CallRec]
        /\ mutex' \in Threads \cup {NoThread}
        /\ CallSound' /\ UserSound' /\ RemoverSound' /\ WaitersCounted' /\ NobodyForgotten'
    BY AtEntrySound
  <1>2. TypeOK'
    <2>1. sas \in Seq(SAs) /\ life \in [SAs -> {"none", "installed", "destroyed"}]
      BY DEF ManagerInv, TypeOK
    <2> QED BY <1>1, <2>1 DEF TypeOK, EntryRec, CallRec
  <1>3. ListSound'
    BY DEF ManagerInv, ListSound
  <1>4. NoDangling'
    BY DEF ManagerInv, NoDangling, AtEntry, Moves
  <1> QED BY <1>1, <1>2, <1>3, <1>4 DEF ManagerInv

\* The list is left alone and the thread continues at an installed entry, or returns;
\* or the entry, at which nobody else is, is removed from the list and freed.
Stays(c) == UNCHANGED <<sas, life>> /\ (c.at # NoSA => life[c.at] = "installed")
Destroys(t, s, c) ==
    /\ life[s] = "installed" /\ ~entry[s].locked /\ entry[s].waiting_threads = 0
    /\ entry[s].awaits_deletion => Removes(t)
    /\ c.state \in {"idle", "run"} /\ c.at # s /\ (c.at # NoSA => life[c.at] = "installed")
    /\ sas' = RemoveAt(sas, Place(s)) /\ life' = [life EXCEPT ![s] = "destroyed"]

ThreadStep(t) ==
    \E s \in SAs, c \in CallRec, e \in EntryRec, W \in SUBSET Threads :
        AtEntry(t, s, c, e, W) /\ (Stays(c) \/ Destroys(t, s, c))

\* Nobody else is at an entry that is freed.
LEMMA AtEntryDestroys ==
    ASSUME ConstantsOK, ManagerInv, NEW t \in Threads, NEW s \in SAs, NEW c \in CallRec,
           NEW e \in EntryRec, NEW W, AtEntry(t, s, c, e, W), Destroys(t, s, c)
    PROVE  ManagerInv'
  <1>1. /\ entry' \in [SAs -> EntryRec] /\ call' \in [Threads -> CallRec]
        /\ mutex' \in Threads \cup {NoThread}
        /\ CallSound' /\ UserSound' /\ RemoverSound' /\ WaitersCounted' /\ NobodyForgotten'
    BY AtEntrySound
  <1>2. /\ sas' \in Seq(SAs) /\ life' \in [SAs -> {"none", "installed", "destroyed"}]
        /\ ListSound'
        /\ \A x \in SAs \ {s} : life'[x] = life[x]
    BY RemoveAtPlace DEF ManagerInv, Destroys
  <1>3. TypeOK'
    BY <1>1, <1>2 DEF TypeOK, EntryRec, CallRec
  <1>4. ASSUME NEW u \in Threads \ {t}
        PROVE  call[u].at # s
    <2>1. SUFFICES ASSUME call[u].at = s PROVE FALSE
      OBVIOUS
    <2>2. call[u] \in CallRec /\ call[t] \in CallRec /\ NoSA # s
      BY TypeRecords DEF ManagerInv, ConstantsOK
    <2>3. call[u].state \in States /\ call[u].state # "idle"
      BY <2>1, <2>2, CallFields DEF ManagerInv, CallSound
    <2>4. call[u].state # "using"
      BY <2>1 DEF ManagerInv, UserSound, Destroys
    <2>5. call[u].state # "run"
      BY DEF ManagerInv, CallSound, AtEntry, ConstantsOK
    <2>6. call[u].state # "turn"
      <3>1. Waiters(s) \in SUBSET Threads /\ Cardinality(Waiters(s)) = 0
        BY DEF ManagerInv, WaitersCounted, Destroys, Waiters
      <3>2. Waiters(s) = {}
        BY <3>1, ThreadSets
      <3> QED BY <2>1, <3>2 DEF Waiters
    <2>7. ~Removes(u)
      <3>1. SUFFICES ASSUME Removes(u) PROVE FALSE
        OBVIOUS
      <3>2. entry[s].awaits_deletion
        BY <2>1, <3>1 DEF ManagerInv, RemoverSound
      <3>3. Removes(t) /\ call[t].at \in {s, NoSA}
        BY <3>2 DEF Destroys, AtEntry
      <3>4. call[t].at = s
        BY <3>3 DEF ManagerInv, CallSound, Removes
      <3> QED BY <2>1, <3>1, <3>3, <3>4 DEF ManagerInv, RemoverSound
    <2> QED BY <2>3, <2>4, <2>5, <2>6, <2>7 DEF States, Removes
  <1>5. NoDangling'
    <2> SUFFICES ASSUME NEW u \in Threads, call'[u].at # NoSA
                 PROVE  life'[call'[u].at] = "installed"
      BY DEF NoDangling
    <2>1. call'[u].at # s /\ life[call'[u].at] = "installed" /\ call'[u].at \in SAs
      <3>1. call'[u].at \in SAs
        BY <1>1, CallFields
      <3>2. CASE u = t
        BY <3>1, <3>2 DEF AtEntry, Moves, Destroys
      <3>3. CASE u # t
        BY <1>4, <3>1, <3>3 DEF AtEntry, Moves, ManagerInv, NoDangling
      <3> QED BY <3>2, <3>3
    <2> QED BY <1>2, <2>1
  <1> QED BY <1>1, <1>2, <1>3, <1>5 DEF ManagerInv

\* Whatever a thread does at an entry, the invariant is kept.
LEMMA ThreadStepSound ==
    ASSUME ConstantsOK, ManagerInv, NEW t \in Threads, ThreadStep(t)
    PROVE  ManagerInv'
  <1>1. PICK s \in SAs, c \in CallRec, e \in EntryRec, W \in SUBSET Threads :
            AtEntry(t, s, c, e, W) /\ (Stays(c) \/ Destroys(t, s, c))
    BY DEF ThreadStep
  <1>2. CASE Stays(c)
    BY <1>1, <1>2, AtEntryStays DEF Stays
  <1>3. CASE Destroys(t, s, c)
    BY <1>1, <1>3, AtEntryDestroys
  <1> QED BY <1>1, <1>2, <1>3

\* A signal wakes one of those that sleep, if any.
LEMMA SignalWakes ==
    ASSUME NEW s, NEW W \in Signal(s)
    PROVE  W \subseteq Asleep(s) /\ W \in SUBSET Threads /\ (W # {} \/ Asleep(s) = {})
  <1>1. CASE Asleep(s) = {}
    BY <1>1 DEF Signal
  <1>2. CASE Asleep(s) # {}
    <2>1. W \in (SUBSET Asleep(s)) \ {{}}
      BY <1>2 DEF Signal
    <2> QED BY <2>1 DEF Asleep
  <1> QED BY <1>1, <1>2

\* wait_for_entry() and what follows it: the thread waits, gives up on an entry that
\* is removed, takes the entry, or uses it at once.
LEMMA WaitForEntryStep ==
    ASSUME ConstantsOK, ManagerInv, NEW t \in Threads, NEW s \in SAs, life[s] = "installed",
           NEW c \in CallRec, NEW e \in EntryRec,
           e.locked = entry[s].locked, e.awaits_deletion = entry[s].awaits_deletion,
           e.waiting_threads = Cardinality(Waiters(s) \ {t}),
           call[t].at \in {NoSA, s}, t \notin Asleep(s), call[t].state \in {"idle", "turn"},
           mutex = NoThread, UNCHANGED <<sas, life, mutex>>,
           WaitForEntry(t, c, s, e)
    PROVE  ThreadStep(t)
  <1>1. call \in [Threads -> CallRec] /\ entry \in [SAs -> EntryRec] /\ s # NoSA /\ NoThread # t
    BY TypeRecords DEF ManagerInv, ConstantsOK
  <1>2. CASE /\ Busy(e)
             /\ entry' = [entry EXCEPT ![s] = [e EXCEPT !.waiting_threads = @ + 1]]
             /\ call' = [call EXCEPT ![t] = Sleep(c, "turn", s)]
    <2> DEFINE n == Cardinality(Waiters(s) \cup {t})
               f == [e EXCEPT !.waiting_threads = n]
               d == Sleep(c, "turn", s)
    <2>1. n \in 0..Cardinality(Threads) /\ n = Cardinality(Waiters(s) \ {t}) + 1
      <3>1. /\ Waiters(s) \cup {t} \in SUBSET Threads /\ Waiters(s) \ {t} \in SUBSET Threads
            /\ Waiters(s) \cup {t} = (Waiters(s) \ {t}) \cup {t}
        BY DEF Waiters
      <3>2. IsFiniteSet(Waiters(s) \ {t}) /\ t \notin Waiters(s) \ {t}
        BY <3>1, ThreadSets
      <3>3. n = Cardinality(Waiters(s) \ {t}) + 1
        BY <3>1, <3>2, FS_AddElement
      <3> QED BY <3>1, <3>3, ThreadSets
    <2> HIDE DEF n
    <2>2. entry' = [entry EXCEPT ![s] = f]
      BY <1>2, <2>1
    <2>3. /\ f \in EntryRec /\ f.locked = e.locked /\ f.awaits_deletion = e.awaits_deletion
          /\ f.waiting_threads = n
      BY <2>1, EntryTypes
    <2>4. d \in CallRec /\ d.state = "turn" /\ d.at = s /\ ~d.woken /\ call' = [call EXCEPT ![t] = d]
      <3>0. "turn" \in States
        BY DEF States
      <3>1. d \in CallRec /\ d.state = "turn" /\ d.at = s /\ ~d.woken
        BY <3>0, CallTypes, Zenon
      <3> QED BY <1>2, <3>1
    <2> HIDE DEF d, f
    <2>5. Moves(t, d, {})
      BY <1>1, <2>4, ExceptMoves
    <2>6. AtEntry(t, s, d, f, {})
      BY <1>1, <1>2, <2>2, <2>3, <2>4, <2>5 DEF AtEntry, Busy, n
    <2> QED BY <1>1, <2>3, <2>4, <2>6 DEF ThreadStep, Stays
  <1>3. ASSUME NEW r \in {"done", "gone"}, NEW W \in Signal(s),
               entry' = [entry EXCEPT ![s] = e], call' = Calls(t, Returned(c, r), W)
        PROVE  ThreadStep(t)
    <2> DEFINE d == Returned(c, r)
    <2>1. d \in CallRec /\ d.state = "idle" /\ d.at = NoSA /\ ~d.woken
      BY CallTypes
    <2> HIDE DEF d
    <2>2. call' = Calls(t, d, W)
      BY <1>3 DEF d
    <2>3. Moves(t, d, W) /\ W \subseteq Asleep(s) /\ W \in SUBSET Threads /\ (W # {} \/ Asleep(s) = {})
      BY <1>1, <2>1, <2>2, CallsMoves, SignalWakes
    <2>4. AtEntry(t, s, d, e, W)
      BY <1>1, <1>3, <2>1, <2>3 DEF AtEntry
    <2> QED BY <2>1, <2>3, <2>4 DEF ThreadStep, Stays
  <1>4. CASE /\ ~Busy(e) /\ ~e.awaits_deletion
             /\ entry' = [entry EXCEPT ![s] = [e EXCEPT !.locked = TRUE]]
             /\ call' = [call EXCEPT ![t] = Sleep(c, "using", s)]
    <2> DEFINE f == [e EXCEPT !.locked = TRUE]
               d == Sleep(c, "using", s)
    <2>1. /\ f \in EntryRec /\ f.locked /\ f.awaits_deletion = e.awaits_deletion
          /\ f.waiting_threads = e.waiting_threads
      BY EntryTypes
    <2>2. d \in CallRec /\ d.state = "using" /\ d.at = s /\ ~d.woken /\ call' = [call EXCEPT ![t] = d]
      <3>0. "using" \in States
        BY DEF States
      <3>1. d \in CallRec /\ d.state = "using" /\ d.at = s /\ ~d.woken
        BY <3>0, CallTypes, Zenon
      <3> QED BY <1>4, <3>1
    <2>3. entry' = [entry EXCEPT ![s] = f] /\ ~entry[s].locked
      BY <1>4 DEF Busy
    <2> HIDE DEF d, f
    <2>4. Moves(t, d, {})
      BY <1>1, <2>2, ExceptMoves
    <2>5. AtEntry(t, s, d, f, {})
      BY <1>1, <2>1, <2>2, <2>3, <2>4 DEF AtEntry
    <2> QED BY <1>1, <2>1, <2>2, <2>5 DEF ThreadStep, Stays
  <1> QED BY <1>2, <1>3, <1>4 DEF WaitForEntry, UpdateOrQuery

\* A thread goes on to the next entry of the list, or returns.
LEMMA AfterEntryType ==
    ASSUME ConstantsOK, ManagerInv, NEW s \in SAs, life[s] = "installed", NEW c \in CallRec
    PROVE  /\ AfterEntry(c, s) \in CallRec /\ AfterEntry(c, s).state \in {"idle", "run"}
           /\ AfterEntry(c, s).state = "idle" <=> AfterEntry(c, s).at = NoSA
           /\ ~AfterEntry(c, s).woken /\ AfterEntry(c, s).at # s
           /\ AfterEntry(c, s).at # NoSA => life[AfterEntry(c, s).at] = "installed"
  <1>1. NoSA \notin SAs /\ s # NoSA
    BY DEF ConstantsOK
  <1>2. CASE c.op = "flush" /\ Following(s) # NoSA
    <2>1. Following(s) \in SAs /\ Following(s) # s /\ life[Following(s)] = "installed"
      BY <1>2, PlaceOf DEF ManagerInv
    <2>2. AfterEntry(c, s) = Sleep(c, "run", Following(s))
      BY <1>2 DEF AfterEntry
    <2> QED BY <1>1, <2>1, <2>2, CallTypes DEF States
  <1>3. CASE ~(c.op = "flush" /\ Following(s) # NoSA)
    <2>1. AfterEntry(c, s) = Returned(c, "done")
      BY <1>3 DEF AfterEntry
    <2> QED BY <1>1, <2>1, CallTypes
  <1> QED BY <1>2, <1>3

\* wait_remove_entry(): the thread waits for the user or the waiters of the entry, or
\* frees it.
LEMMA WaitRemoveEntryStep ==
    ASSUME ConstantsOK, ManagerInv, NEW t \in Threads, NEW s \in SAs, life[s] = "installed",
           NEW c \in CallRec,
           call[t].at \in {NoSA, s}, t \notin Asleep(s), call[t].state \notin {"using", "turn"},
           mutex \in {NoThread, t}, entry[s].awaits_deletion => Removes(t),
           WaitRemoveEntry(t, c, s)
    PROVE  ThreadStep(t)
  <1>1. call \in [Threads -> CallRec] /\ entry \in [SAs -> EntryRec] /\ s # NoSA /\ NoThread # t
    BY TypeRecords DEF ManagerInv, ConstantsOK
  <1>2. entry[s].waiting_threads = Cardinality(Waiters(s) \ {t})
    <2>1. Waiters(s) \ {t} = Waiters(s)
      BY DEF Waiters
    <2> QED BY <2>1 DEF ManagerInv, WaitersCounted, Waiters
  <1> DEFINE f == [entry[s] EXCEPT !.awaits_deletion = TRUE]
  <1>3. /\ f \in EntryRec /\ f.locked = entry[s].locked /\ f.awaits_deletion
        /\ f.waiting_threads = entry[s].waiting_threads
    <2>1. entry[s] \in EntryRec
      BY <1>1
    <2> QED BY <2>1, EntryTypes
  <1> HIDE DEF f
  <1>4. CASE /\ entry[s].locked
             /\ entry' = [entry EXCEPT ![s].awaits_deletion = TRUE]
             /\ Leave(t, Sleep(c, "checkin", s))
             /\ UNCHANGED <<sas, life>>
    <2> DEFINE d == Sleep(c, "checkin", s)
    <2>1. d \in CallRec /\ d.state = "checkin" /\ d.at = s /\ ~d.woken
      BY CallTypes DEF States
    <2> HIDE DEF d
    <2>2. /\ entry' = [entry EXCEPT ![s] = f] /\ call' = [call EXCEPT ![t] = d]
          /\ mutex' = NoThread
      BY <1>4, <2>1 DEF Leave, f, d
    <2>3. Moves(t, d, {})
      BY <1>1, <2>1, <2>2, ExceptMoves
    <2>4. AtEntry(t, s, d, f, {})
      BY <1>1, <1>2, <1>3, <1>4, <2>1, <2>2, <2>3 DEF AtEntry
    <2> QED BY <1>1, <1>3, <1>4, <2>1, <2>4 DEF ThreadStep, Stays
  <1>5. CASE /\ ~entry[s].locked
             /\ entry' = [entry EXCEPT ![s].awaits_deletion = TRUE]
             /\ \E W \in Broadcast(s) : call' = Calls(t, Sleep(c, "leave", s), W)
             /\ mutex' = NoThread
             /\ UNCHANGED <<sas, life>>
    <2> DEFINE d == Sleep(c, "leave", s)
    <2>1. d \in CallRec /\ d.state = "leave" /\ d.at = s /\ ~d.woken
      BY CallTypes DEF States
    <2> HIDE DEF d
    <2>2. entry' = [entry EXCEPT ![s] = f] /\ call' = Calls(t, d, Asleep(s))
      BY <1>5 DEF Broadcast, f, d
    <2>3. Moves(t, d, Asleep(s)) /\ Asleep(s) \in SUBSET Threads
      BY <1>1, <2>1, <2>2, CallsMoves DEF Asleep
    <2>4. AtEntry(t, s, d, f, Asleep(s))
      BY <1>1, <1>2, <1>3, <1>5, <2>1, <2>2, <2>3 DEF AtEntry
    <2> QED BY <1>1, <1>3, <1>5, <2>1, <2>3, <2>4 DEF ThreadStep, Stays
  <1>6. CASE /\ ~entry[s].locked /\ entry[s].waiting_threads = 0
             /\ sas' = RemoveAt(sas, Place(s))
             /\ life' = [life EXCEPT ![s] = "destroyed"]
             /\ Leave(t, AfterEntry(c, s))
             /\ UNCHANGED entry
    <2> DEFINE d == AfterEntry(c, s)
    <2>1. /\ d \in CallRec /\ d.state \in {"idle", "run"} /\ (d.state = "idle" <=> d.at = NoSA)
          /\ ~d.woken /\ d.at # s /\ (d.at # NoSA => life[d.at] = "installed")
      BY AfterEntryType
    <2>2. /\ call' = [call EXCEPT ![t] = d] /\ mutex' = IF d.state = "run" THEN t ELSE NoThread
          /\ entry' = [entry EXCEPT ![s] = entry[s]] /\ entry[s] \in EntryRec
      BY <1>1, <1>6 DEF Leave
    <2> HIDE DEF d
    <2>3. Moves(t, d, {})
      BY <1>1, <2>1, <2>2, ExceptMoves
    <2>4. AtEntry(t, s, d, entry[s], {})
      BY <1>1, <1>2, <1>6, <2>1, <2>2, <2>3 DEF AtEntry
    <2>5. Destroys(t, s, d)
      BY <1>6, <2>1 DEF Destroys
    <2> QED BY <2>1, <2>2, <2>4, <2>5 DEF ThreadStep
  <1> QED BY <1>4, <1>5, <1>6 DEF WaitRemoveEntry

\* The entry is left to the thread that removes it.
LEMMA RemoveUnlessRemovedStep ==
    ASSUME ConstantsOK, ManagerInv, NEW t \in Threads, NEW s \in SAs, life[s] = "installed",
           NEW c \in CallRec, call[t].at \in {NoSA, s}, call[t].state \in {"idle", "run"},
           mutex \in {NoThread, t}, RemoveUnlessRemoved(t, c, s)
    PROVE  ThreadStep(t)
  <1>1. call \in [Threads -> CallRec] /\ entry \in [SAs -> EntryRec] /\ s # NoSA /\ NoThread # t
    BY TypeRecords DEF ManagerInv, ConstantsOK
  <1>2. t \notin Asleep(s) /\ ~call[t].woken
    BY DEF Asleep, ManagerInv, CallSound
  <1>3. CASE ~entry[s].awaits_deletion /\ WaitRemoveEntry(t, c, s)
    BY <1>2, <1>3, WaitRemoveEntryStep
  <1>4. CASE Leave(t, AfterEntry(c, s)) /\ UNCHANGED <<sas, life, entry>>
    <2> DEFINE d == AfterEntry(c, s)
    <2>1. /\ d \in CallRec /\ d.state \in {"idle", "run"} /\ (d.state = "idle" <=> d.at = NoSA)
          /\ ~d.woken /\ d.at # s /\ (d.at # NoSA => life[d.at] = "installed")
      BY AfterEntryType
    <2>2. /\ call' = [call EXCEPT ![t] = d] /\ mutex' = IF d.state = "run" THEN t ELSE NoThread
          /\ entry' = [entry EXCEPT ![s] = entry[s]] /\ entry[s] \in EntryRec
      BY <1>1, <1>4 DEF Leave
    <2> HIDE DEF d
    <2>3. Moves(t, d, {})
      BY <1>1, <2>1, <2>2, ExceptMoves
    <2>4. entry[s].waiting_threads = Cardinality(Waiters(s) \ {t})
      <3>1. Waiters(s) \ {t} = Waiters(s)
        BY DEF Waiters
      <3> QED BY <3>1 DEF ManagerInv, WaitersCounted, Waiters
    <2>5. AtEntry(t, s, d, entry[s], {})
      BY <1>1, <1>2, <2>1, <2>2, <2>3, <2>4 DEF AtEntry
    <2> QED BY <1>4, <2>1, <2>2, <2>5 DEF ThreadStep, Stays
  <1> QED BY <1>3, <1>4 DEF RemoveUnlessRemoved

-----------------------------------------------------------------------------
(* The actions.                                                            *)

\* checkout_by_spi(), checkout_by_reqid(), update_sa() and query_sa().
LEMMA CheckoutStep ==
    ASSUME ConstantsOK, ManagerInv, NEW t \in Threads, NEW op \in Ops, NEW s \in SAs,
           Checkout(t, op, s)
    PROVE  ThreadStep(t)
  <1>1. /\ mutex = NoThread /\ call[t].state = "idle" /\ Installed(s)
        /\ WaitForEntry(t, [NoCall EXCEPT !.op = op], s, entry[s])
        /\ UNCHANGED <<sas, life, mutex>>
    BY DEF Checkout
  <1>2. life[s] = "installed"
    BY <1>1 DEF Installed, ToSet, ManagerInv, ListSound
  <1>3. call \in [Threads -> CallRec] /\ entry[s] \in EntryRec
    BY TypeRecords DEF ManagerInv
  <1>4. call[t].at = NoSA /\ t \notin Asleep(s)
    BY <1>1 DEF ManagerInv, CallSound, Asleep
  <1>5. entry[s].waiting_threads = Cardinality(Waiters(s) \ {t})
    <2>1. Waiters(s) \ {t} = Waiters(s)
      BY <1>1 DEF Waiters
    <2> QED BY <2>1 DEF ManagerInv, WaitersCounted, Waiters
  <1>6. [NoCall EXCEPT !.op = op] \in CallRec
    BY <1>3, CallTypes
  <1> QED BY <1>1, <1>2, <1>3, <1>4, <1>5, <1>6, WaitForEntryStep

\* A thread that waits for its turn is woken and looks at the entry again.
LEMMA TurnStep ==
    ASSUME ConstantsOK, ManagerInv, NEW t \in Threads, Turn(t)
    PROVE  ThreadStep(t)
  <1>1. call[t] \in CallRec /\ entry \in [SAs -> EntryRec]
    BY TypeRecords DEF ManagerInv
  <1>2. call[t].state = "turn" /\ call[t].woken /\ mutex = NoThread
    BY DEF Turn
  <1>3. call[t].at \in SAs /\ life[call[t].at] = "installed"
    BY <1>1, <1>2, CallFields DEF ManagerInv, CallSound, NoDangling
  <1>4. PICK s \in SAs : s = call[t].at
    BY <1>3
  <1>5. WaitForEntry(t, call[t], s, NoLongerWaiting(s)) /\ UNCHANGED <<sas, life, mutex>>
    BY <1>4 DEF Turn
  <1>6. /\ NoLongerWaiting(s) \in EntryRec
        /\ NoLongerWaiting(s).locked = entry[s].locked
        /\ NoLongerWaiting(s).awaits_deletion = entry[s].awaits_deletion
        /\ NoLongerWaiting(s).waiting_threads = Cardinality(Waiters(s) \ {t})
    <2> DEFINE n == Cardinality(Waiters(s) \ {t})
    <2>1. t \in Waiters(s) /\ Waiters(s) \in SUBSET Threads /\ Waiters(s) \ {t} \in SUBSET Threads
      BY <1>2, <1>4 DEF Waiters
    <2>2. IsFiniteSet(Waiters(s)) /\ n \in 0..Cardinality(Threads)
      BY <2>1, ThreadSets
    <2>3. n = Cardinality(Waiters(s)) - 1
      BY <2>1, <2>2, FS_RemoveElement
    <2>4. entry[s].waiting_threads = Cardinality(Waiters(s))
      BY DEF ManagerInv, WaitersCounted, Waiters
    <2> HIDE DEF n
    <2>5. NoLongerWaiting(s) = [entry[s] EXCEPT !.waiting_threads = n]
      BY <2>3, <2>4 DEF NoLongerWaiting
    <2>6. /\ NoLongerWaiting(s) \in EntryRec /\ NoLongerWaiting(s).waiting_threads = n
          /\ NoLongerWaiting(s).locked = entry[s].locked
          /\ NoLongerWaiting(s).awaits_deletion = entry[s].awaits_deletion
      BY <1>1, <2>2, <2>5, EntryTypes
    <2> QED BY <2>6 DEF n
  <1>7. t \notin Asleep(s)
    BY <1>2 DEF Asleep
  <1> HIDE DEF NoLongerWaiting
  <1> QED BY <1>1, <1>2, <1>3, <1>4, <1>5, <1>6, <1>7, WaitForEntryStep

\* checkin()
LEMMA CheckinStep ==
    ASSUME ConstantsOK, ManagerInv, NEW t \in Threads, Checkin(t)
    PROVE  ThreadStep(t)
  <1>1. call \in [Threads -> CallRec] /\ call[t] \in CallRec /\ entry \in [SAs -> EntryRec]
    BY TypeRecords DEF ManagerInv
  <1>2. call[t].state = "using" /\ mutex = NoThread /\ UNCHANGED <<sas, life, mutex>>
    BY DEF Checkin
  <1>3. call[t].at \in SAs
    BY <1>1, <1>2, CallFields DEF ManagerInv, CallSound
  <1>4. PICK s \in SAs : s = call[t].at
    BY <1>3
  <1> DEFINE f == [entry[s] EXCEPT !.locked = FALSE]
             d == Returned(call[t], "done")
  <1>5. PICK W \in Signal(s) : entry' = [entry EXCEPT ![s] = f] /\ call' = Calls(t, d, W)
    BY <1>4 DEF Checkin
  <1>6. /\ f \in EntryRec /\ ~f.locked /\ f.awaits_deletion = entry[s].awaits_deletion
        /\ f.waiting_threads = entry[s].waiting_threads
    BY <1>1, EntryTypes
  <1>7. d \in CallRec /\ d.state = "idle" /\ d.at = NoSA /\ ~d.woken
    BY <1>1, CallTypes
  <1> HIDE DEF f, d
  <1>8. Moves(t, d, W) /\ W \subseteq Asleep(s) /\ W \in SUBSET Threads /\ (W # {} \/ Asleep(s) = {})
    BY <1>1, <1>5, <1>7, CallsMoves, SignalWakes
  <1>9. entry[s].waiting_threads = Cardinality(Waiters(s) \ {t})
    <2>1. Waiters(s) \ {t} = Waiters(s)
      BY <1>2 DEF Waiters
    <2> QED BY <2>1 DEF ManagerInv, WaitersCounted, Waiters
  <1>10. t \notin Asleep(s) /\ NoThread # t
    BY <1>2 DEF Asleep, ConstantsOK
  <1>11. AtEntry(t, s, d, f, W)
    BY <1>2, <1>4, <1>5, <1>6, <1>7, <1>8, <1>9, <1>10 DEF AtEntry
  <1> QED BY <1>2, <1>6, <1>7, <1>8, <1>11 DEF ThreadStep, Stays

\* del_sa(), sa_expired() and flush_sas().
LEMMA RemoveStep ==
    ASSUME ConstantsOK, ManagerInv, NEW t \in Threads,
           (\E s \in SAs : DelSa(t, s)) \/ FlushSas(t) \/ FlushNext(t) \/ WakeRemover(t)
    PROVE  ThreadStep(t)
  <1>1. call[t] \in CallRec /\ sas \in Seq(SAs) /\ mutex \in Threads \cup {NoThread}
    BY TypeRecords DEF ManagerInv
  <1>2. \A op \in Ops : [NoCall EXCEPT !.op = op] \in CallRec
    BY <1>1, CallTypes
  <1>3. CASE \E s \in SAs : DelSa(t, s)
    <2>1. PICK s \in SAs : DelSa(t, s)
      BY <1>3
    <2>2. /\ "remove" \in Ops /\ mutex = NoThread /\ call[t].state = "idle" /\ Installed(s)
          /\ RemoveUnlessRemoved(t, [NoCall EXCEPT !.op = "remove"], s)
      BY <2>1 DEF DelSa
    <2>3. life[s] = "installed" /\ call[t].at = NoSA
      BY <2>2 DEF Installed, ToSet, ManagerInv, ListSound, CallSound
    <2> QED BY <1>2, <2>2, <2>3, RemoveUnlessRemovedStep
  <1>4. CASE FlushSas(t)
    <2>1. /\ "flush" \in Ops /\ mutex = NoThread /\ call[t].state = "idle" /\ sas # <<>>
          /\ RemoveUnlessRemoved(t, [NoCall EXCEPT !.op = "flush"], sas[1])
      BY <1>4 DEF FlushSas
    <2>2. 1 \in DOMAIN sas /\ sas[1] \in SAs
      BY <1>1, <2>1
    <2>3. life[sas[1]] = "installed" /\ call[t].at = NoSA
      BY <2>1, <2>2 DEF ManagerInv, ListSound, CallSound
    <2> QED BY <1>2, <2>1, <2>2, <2>3, RemoveUnlessRemovedStep
  <1>5. CASE FlushNext(t)
    <2>1. call[t].state = "run" /\ RemoveUnlessRemoved(t, call[t], call[t].at)
      BY <1>5 DEF FlushNext
    <2>2. mutex = t /\ call[t].at \in SAs /\ life[call[t].at] = "installed"
      BY <1>1, <2>1, CallFields DEF ManagerInv, CallSound, NoDangling
    <2> QED BY <1>1, <2>1, <2>2, RemoveUnlessRemovedStep
  <1>6. CASE WakeRemover(t)
    <2>1. /\ Removes(t) /\ call[t].woken /\ mutex = NoThread
          /\ WaitRemoveEntry(t, call[t], call[t].at)
      BY <1>6 DEF WakeRemover, Removes
    <2>2. call[t].at \in SAs /\ life[call[t].at] = "installed"
      BY <1>1, <2>1, CallFields DEF ManagerInv, CallSound, NoDangling, Removes
    <2>3. t \notin Asleep(call[t].at) /\ call[t].state \notin {"using", "turn"}
      BY <2>1 DEF Asleep, Removes
    <2> QED BY <1>1, <2>1, <2>2, <2>3, WaitRemoveEntryStep
  <1> QED BY <1>3, <1>4, <1>5, <1>6

\* A thread wakes up without having been signalled.
LEMMA SpuriousStep ==
    ASSUME ConstantsOK, ManagerInv, NEW t \in Threads, Spurious(t)
    PROVE  /\ ManagerInv'
           /\ \A u \in Threads : call'[u].state = call[u].state /\ call'[u].at = call[u].at
           /\ UNCHANGED <<sas, life, entry, mutex>>
  <1>1. call \in [Threads -> CallRec]
    BY TypeRecords DEF ManagerInv
  <1>2. /\ call[t].state \in {"turn", "checkin", "leave"}
        /\ call' = [call EXCEPT ![t] = [call[t] EXCEPT !.woken = TRUE]]
        /\ UNCHANGED <<sas, life, entry, mutex>>
    BY DEF Spurious
  <1> DEFINE d == [call[t] EXCEPT !.woken = TRUE]
  <1>3. d \in CallRec /\ d.woken /\ d.state = call[t].state /\ d.at = call[t].at
    BY <1>1 DEF CallRec
  <1> HIDE DEF d
  <1>4. /\ call' \in [Threads -> CallRec]
        /\ \A u \in Threads : /\ call'[u].state = call[u].state /\ call'[u].at = call[u].at
                              /\ call'[u].woken <=> call[u].woken \/ u = t
    <2>1. call' = [call EXCEPT ![t] = d]
      BY <1>2 DEF d
    <2> QED BY <1>1, <1>3, <2>1
  <1>5. TypeOK'
    <2>1. /\ sas \in Seq(SAs) /\ life \in [SAs -> {"none", "installed", "destroyed"}]
          /\ entry \in [SAs -> EntryRec] /\ mutex \in Threads \cup {NoThread}
      BY TypeRecords DEF ManagerInv
    <2> QED BY <1>2, <1>4, <2>1 DEF TypeOK, EntryRec, CallRec
  <1>6. CallSound' /\ NoDangling'
    BY <1>2, <1>4 DEF ManagerInv, CallSound, NoDangling
  <1>7. UserSound' /\ RemoverSound' /\ ListSound'
    BY <1>2, <1>4 DEF ManagerInv, UserSound, RemoverSound, Removes, ListSound
  <1>8. \A s \in SAs : Waiters(s)' = Waiters(s)
    BY <1>4 DEF Waiters
  <1>9. WaitersCounted'
    BY <1>2, <1>8 DEF ManagerInv, WaitersCounted, Waiters
  <1>10. NobodyForgotten'
    BY <1>2, <1>4 DEF ManagerInv, NobodyForgotten
  <1> QED BY <1>2, <1>4, <1>5, <1>6, <1>7, <1>9, <1>10 DEF ManagerInv

\* add_sa() makes an entry that nobody is at.
LEMMA AddSaStep ==
    ASSUME ConstantsOK, ManagerInv, NEW s \in SAs, AddSa(s)
    PROVE  ManagerInv'
  <1>1. /\ life[s] = "none" /\ sas' = <<s>> \o sas
        /\ life' = [life EXCEPT ![s] = "installed"]
        /\ entry' = [entry EXCEPT ![s] = NewEntry] /\ UNCHANGED <<mutex, call>>
    BY DEF AddSa
  <1>2. /\ sas \in Seq(SAs) /\ life \in [SAs -> {"none", "installed", "destroyed"}]
        /\ entry \in [SAs -> EntryRec] /\ mutex \in Threads \cup {NoThread}
        /\ call \in [Threads -> CallRec]
    BY TypeRecords DEF ManagerInv
  <1>3. NewEntry \in EntryRec /\ ~NewEntry.locked /\ NewEntry.waiting_threads = 0
    <2>1. Cardinality(Threads) \in Nat
      BY FS_CardinalityType DEF ConstantsOK
    <2> QED BY <2>1 DEF NewEntry, EntryRec
  <1>4. /\ sas' \in Seq(SAs) /\ Len(sas') = Len(sas) + 1 /\ sas'[1] = s
        /\ \A i \in 1..Len(sas) : sas'[i + 1] = sas[i]
    <2> DEFINE a == <<s>>
    <2>1. a \in Seq(SAs) /\ Len(a) = 1 /\ a[1] = s
      OBVIOUS
    <2>2. Len(sas) \in Nat
      BY <1>2
    <2> HIDE DEF a
    <2>3. /\ a \o sas \in Seq(SAs) /\ Len(a \o sas) = Len(a) + Len(sas)
          /\ \A i \in 1..(Len(a) + Len(sas)) :
                (a \o sas)[i] = IF i <= Len(a) THEN a[i] ELSE sas[i - Len(a)]
      BY <1>2, <2>1, ConcatProperties, Zenon
    <2>4. sas' = a \o sas
      BY <1>1 DEF a
    <2>5. /\ sas' \in Seq(SAs) /\ Len(sas') = 1 + Len(sas)
          /\ \A i \in 1..(1 + Len(sas)) : sas'[i] = IF i <= 1 THEN a[i] ELSE sas[i - 1]
      BY <2>1, <2>3, <2>4
    <2> QED BY <2>1, <2>2, <2>5
  <1>5. \A u \in Threads : call[u].at # s
    BY <1>1 DEF ManagerInv, NoDangling, ConstantsOK
  <1>6. /\ life' \in [SAs -> {"none", "installed", "destroyed"}] /\ life'[s] = "installed"
        /\ \A x \in SAs \ {s} : life'[x] = life[x] /\ entry'[x] = entry[x]
        /\ entry' \in [SAs -> EntryRec] /\ entry'[s] = NewEntry
    BY <1>1, <1>2, <1>3
  <1>7. TypeOK'
    BY <1>1, <1>2, <1>4, <1>6 DEF TypeOK, EntryRec, CallRec
  <1>8. CallSound'
    BY <1>1 DEF ManagerInv, CallSound
  <1>9. \A u \in Threads : call[u].state # "idle" => call[u].at \in SAs \ {s}
    BY <1>2, <1>5, CallFields DEF ManagerInv, CallSound
  <1>10. UserSound' /\ RemoverSound'
    BY <1>1, <1>6, <1>9 DEF ManagerInv, UserSound, RemoverSound, Removes
  <1>11. NoDangling'
    BY <1>1, <1>2, <1>5, <1>6, CallFields DEF ManagerInv, NoDangling
  <1>12. WaitersCounted'
    <2>1. \A x \in SAs : Waiters(x)' = Waiters(x)
      BY <1>1 DEF Waiters
    <2>2. Waiters(s) = {}
      BY <1>5 DEF Waiters
    <2>3. Cardinality({}) = 0
      BY FS_EmptySet
    <2>4. ASSUME NEW x \in SAs
          PROVE  entry'[x].waiting_threads = Cardinality(Waiters(x)')
      <3>1. CASE x = s
        BY <1>3, <1>6, <2>1, <2>2, <2>3, <3>1
      <3>2. CASE x # s
        <4>1. entry[x].waiting_threads = Cardinality(Waiters(x))
          BY DEF ManagerInv, WaitersCounted, Waiters
        <4> QED BY <1>6, <2>1, <3>2, <4>1
      <3> QED BY <3>1, <3>2
    <2> QED BY <2>4 DEF WaitersCounted, Waiters
  <1>13. NobodyForgotten'
    BY <1>1, <1>3, <1>6 DEF ManagerInv, NobodyForgotten
  <1>14. ListSound'
    <2>1. DOMAIN sas = 1..Len(sas) /\ DOMAIN sas' = 1..(Len(sas) + 1) /\ Len(sas) \in Nat
      BY <1>2, <1>4
    <2>2. \A i \in DOMAIN sas : sas[i] # s
      BY <1>1, <2>1 DEF ManagerInv, ListSound
    <2>3. ASSUME NEW i \in DOMAIN sas', i # 1
          PROVE  i - 1 \in DOMAIN sas /\ sas'[i] = sas[i - 1] /\ i = (i - 1) + 1
      BY <1>4, <2>1, <2>3
    <2>4. \A i, j \in DOMAIN sas' : sas'[i] = sas'[j] => i = j
      BY <1>4, <2>1, <2>2, <2>3 DEF ManagerInv, ListSound
    <2>5. ASSUME NEW x \in SAs
          PROVE  life'[x] = "installed" <=> \E i \in DOMAIN sas' : sas'[i] = x
      <3>1. CASE x = s
        BY <1>4, <1>6, <2>1, <3>1
      <3>2. CASE x # s
        <4>1. ASSUME NEW i \in DOMAIN sas, sas[i] = x
              PROVE  i + 1 \in DOMAIN sas' /\ sas'[i + 1] = x
          BY <1>4, <2>1, <4>1
        <4>2. ASSUME NEW i \in DOMAIN sas', sas'[i] = x
              PROVE  i - 1 \in DOMAIN sas /\ sas[i - 1] = x
          BY <1>4, <2>3, <3>2, <4>2
        <4>3. life'[x] = "installed" <=> \E i \in DOMAIN sas : sas[i] = x
          BY <1>6, <3>2 DEF ManagerInv, ListSound
        <4> QED BY <4>1, <4>2, <4>3
      <3> QED BY <3>1, <3>2
    <2> QED BY <2>4, <2>5 DEF ListSound
  <1> QED BY <1>7, <1>8, <1>10, <1>11, <1>12, <1>13, <1>14 DEF ManagerInv

\* The invariant holds of an empty list.
LEMMA InitManager ==
    ASSUME ConstantsOK, Init
    PROVE  ManagerInv
  <1> USE DEF Init
  <1>1. Cardinality(Threads) \in Nat
    BY FS_CardinalityType DEF ConstantsOK
  <1>2. TypeOK
    BY <1>1 DEF TypeOK, NewEntry, NoCall, States
  <1>3. CallSound /\ UserSound /\ RemoverSound /\ NoDangling
    BY DEF CallSound, UserSound, RemoverSound, Removes, NoDangling, NoCall, ConstantsOK
  <1>4. ListSound
    BY DEF ListSound
  <1>5. WaitersCounted
    <2>1. \A s \in SAs : {t \in Threads : call[t].state = "turn" /\ call[t].at = s} = {}
      BY DEF NoCall
    <2>2. Cardinality({}) = 0
      BY FS_EmptySet
    <2> QED BY <2>1, <2>2 DEF WaitersCounted, NewEntry
  <1>6. NobodyForgotten
    BY DEF NobodyForgotten, NewEntry
  <1> QED BY <1>2, <1>3, <1>4, <1>5, <1>6 DEF ManagerInv

\* A step is one of a thread at an entry, a spurious wakeup, or add_sa().
LEMMA NextSteps ==
    ASSUME ConstantsOK, ManagerInv, Next
    PROVE  \/ \E t \in Threads : ThreadStep(t)
           \/ \E t \in Threads : Spurious(t)
           \/ \E s \in SAs : AddSa(s)
  BY CheckoutStep, TurnStep, CheckinStep, RemoveStep DEF Next, Proceed

\* Every step keeps the invariant.
LEMMA NextManager ==
    ASSUME ConstantsOK, ManagerInv, [Next]_vars
    PROVE  ManagerInv'
  <1>1. CASE Next
    BY <1>1, NextSteps, ThreadStepSound, SpuriousStep, AddSaStep
  <1>2. CASE UNCHANGED vars
    <2>1. \A s \in SAs : Waiters(s)' = Waiters(s)
      BY <1>2 DEF Waiters, vars
    <2>2. WaitersCounted'
      BY <1>2, <2>1 DEF ManagerInv, WaitersCounted, Waiters, vars
    <2> QED BY <1>2, <2>2 DEF ManagerInv, TypeOK, CallSound, UserSound, RemoverSound, Removes,
                              ListSound, NoDangling, NobodyForgotten, vars
  <1> QED BY <1>1, <1>2

-----------------------------------------------------------------------------
(* The theorems.                                                           *)

\* The invariant holds of every behaviour.
LEMMA ManagerInvariant == Spec => []ManagerInv
  <1>1. Init => ManagerInv
    BY InitManager, ConstantsAssumption
  <1>2. ManagerInv /\ [Next]_vars => ManagerInv'
    BY NextManager, ConstantsAssumption
  <1> QED BY <1>1, <1>2, PTL DEF Spec

\* However checkouts, checkins, queries, removals and flushes interleave, and whichever
\* thread a signal wakes: no entry is freed while a thread is at it, waiting_threads is
\* exact, and while threads wait for an entry that nobody uses one of them was woken.
THEOREM ManagerSoundCorrect == Spec => []ManagerSound
  <1>1. ManagerInv => ManagerSound
    BY DEF ManagerInv, ManagerSound
  <1> QED BY <1>1, ManagerInvariant, PTL

-----------------------------------------------------------------------------
(* The refinement.                                                         *)

\* The owner of an entry is its only user.
LEMMA OwnerOf ==
    ASSUME NEW s
    PROVE  /\ Users(s) = {} => Owner(s) = NoThread
           /\ \A t : Users(s) = {t} => Owner(s) = t
  <1>1. ASSUME NEW t, Users(s) = {t} PROVE Owner(s) = t
    BY <1>1 DEF Owner
  <1> QED BY <1>1 DEF Owner

\* Who the owner is depends on the users only.
LEMMA OwnerSame ==
    ASSUME NEW CONSTANT s, Users(s)' = Users(s)
    PROVE  Owner(s)' = Owner(s)
  BY DEF Owner

\* After a step of thread t at entry s the users of other entries are the same.
LEMMA UsersAfter ==
    ASSUME ConstantsOK, ManagerInv, NEW t \in Threads, NEW s \in SAs, NEW c \in CallRec,
           NEW e \in EntryRec, NEW W, AtEntry(t, s, c, e, W)
    PROVE  /\ \A x \in SAs \ {s} : Users(x)' = Users(x)
           /\ Users(s)' = IF c.state = "using" THEN Users(s) \cup {t} ELSE Users(s) \ {t}
           /\ ~entry[s].locked => Users(s) = {}
           /\ call[t].state = "using" => Users(s) = {t}
  <1>1. /\ call'[t] = c /\ call[t].at \in {NoSA, s} /\ (c.state = "using" => c.at = s)
        /\ \A u \in Threads \ {t} : call'[u].state = call[u].state /\ call'[u].at = call[u].at
        /\ NoSA \notin SAs
    BY DEF AtEntry, Moves, ConstantsOK
  <1>2. /\ \A x \in SAs \ {s} : Users(x)' = Users(x)
        /\ Users(s)' = IF c.state = "using" THEN Users(s) \cup {t} ELSE Users(s) \ {t}
    BY <1>1 DEF Users
  <1>3. ~entry[s].locked => Users(s) = {}
    BY DEF Users, ManagerInv, UserSound
  <1>4. call[t].state = "using" => Users(s) = {t}
    BY <1>1 DEF Users, ManagerInv, UserSound, CallSound
  <1> QED BY <1>2, <1>3, <1>4

\* A step of a thread acquires, releases or destroys the SA, or none of these.
LEMMA ThreadStepOwns ==
    ASSUME ConstantsOK, ManagerInv, NEW t \in Threads, ThreadStep(t)
    PROVE  [Ownership!Next]_(Ownership!vars)
  <1>1. PICK s \in SAs, c \in CallRec, e \in EntryRec, W \in SUBSET Threads :
            AtEntry(t, s, c, e, W) /\ (Stays(c) \/ Destroys(t, s, c))
    BY DEF ThreadStep
  <1> DEFINE own == [x \in SAs |-> Owner(x)]
             alive == [x \in SAs |-> IF life[x] = "installed" THEN "live" ELSE life[x]]
  <1>2. /\ \A x \in SAs \ {s} : Users(x)' = Users(x)
        /\ Users(s)' = IF c.state = "using" THEN Users(s) \cup {t} ELSE Users(s) \ {t}
        /\ ~entry[s].locked => Users(s) = {}
        /\ call[t].state = "using" => Users(s) = {t}
    BY <1>1, UsersAfter
  <1>3. \A x \in SAs \ {s} : own'[x] = own[x]
    BY <1>2, OwnerSame
  <1>4. ASSUME Users(s)' = Users(s), UNCHANGED life
        PROVE  UNCHANGED <<own, alive>>
    <2>1. own'[s] = own[s]
      BY <1>4 DEF Owner
    <2> QED BY <1>3, <1>4, <2>1
  <1>5. CASE Stays(c) /\ c.state = "using"
    <2>1. ~entry[s].locked /\ c.at = s
      BY <1>1, <1>5 DEF AtEntry
    <2>2. life[s] = "installed" /\ UNCHANGED life
      BY <1>5, <2>1 DEF Stays, ConstantsOK
    <2>3. Users(s) = {} /\ Users(s)' = {t}
      BY <1>2, <1>5, <2>1
    <2>4. Owner(s) = NoThread /\ Owner(s)' = t
      BY <2>3, OwnerOf DEF Owner
    <2>5. /\ alive[s] = "live" /\ own[s] = NoThread /\ alive' = alive
          /\ own' = [own EXCEPT ![s] = t]
      BY <1>3, <2>2, <2>4
    <2> QED BY <2>5 DEF Ownership!Next, Ownership!Acquire
  <1>6. CASE Stays(c) /\ c.state # "using" /\ call[t].state = "using"
    <2>1. Users(s) = {t} /\ Users(s)' = {} /\ UNCHANGED life
      BY <1>2, <1>6 DEF Stays
    <2>2. Owner(s) = t /\ Owner(s)' = NoThread
      BY <2>1, OwnerOf DEF Owner
    <2>3. own[s] = t /\ own' = [own EXCEPT ![s] = NoThread] /\ alive' = alive
      BY <1>3, <2>1, <2>2
    <2> QED BY <2>3 DEF Ownership!Next, Ownership!Release
  <1>7. CASE Stays(c) /\ c.state # "using" /\ call[t].state # "using"
    <2>1. Users(s)' = Users(s) /\ UNCHANGED life
      BY <1>2, <1>7 DEF Stays, Users
    <2> QED BY <1>4, <2>1 DEF Ownership!vars
  <1>8. CASE Destroys(t, s, c)
    <2>1. Users(s) = {} /\ Users(s)' = {} /\ life[s] = "installed"
      BY <1>2, <1>8 DEF Destroys
    <2>2. Owner(s) = NoThread /\ Owner(s)' = NoThread
      BY <2>1, OwnerOf DEF Owner
    <2>3. life' = [life EXCEPT ![s] = "destroyed"] /\ life \in [SAs -> {"none", "installed", "destroyed"}]
      BY <1>8 DEF Destroys, ManagerInv, TypeOK
    <2>4. own' = [own EXCEPT ![s] = NoThread]
      BY <1>3, <2>2
    <2>5. alive[s] = "live" /\ alive' = [alive EXCEPT ![s] = "destroyed"]
      BY <2>1, <2>3
    <2> QED BY <2>4, <2>5 DEF Ownership!Next, Ownership!Destroy
  <1> QED BY <1>1, <1>5, <1>6, <1>7, <1>8

\* add_sa() creates the SA and leaves it to others.
LEMMA AddSaOwns ==
    ASSUME ConstantsOK, ManagerInv, NEW s \in SAs, AddSa(s)
    PROVE  Ownership!Next
  <1> DEFINE own == [x \in SAs |-> Owner(x)]
             alive == [x \in SAs |-> IF life[x] = "installed" THEN "live" ELSE life[x]]
  <1>1. PICK t \in Threads : TRUE
    BY DEF ConstantsOK
  <1>2. /\ life[s] = "none" /\ life' = [life EXCEPT ![s] = "installed"] /\ UNCHANGED call
        /\ life \in [SAs -> {"none", "installed", "destroyed"}]
    BY DEF AddSa, ManagerInv, TypeOK
  <1>3. own' = own
    BY <1>2 DEF Owner, Users
  <1>4. alive[s] = "none" /\ alive' = [alive EXCEPT ![s] = "live"]
    BY <1>2
  <1> QED BY <1>1, <1>3, <1>4 DEF Ownership!Next, Ownership!Create

\* The manager implements SaOwnership: a userland SA is used by at most one thread at
\* a time, and by none after it was destroyed, as checkout, checkin and removal of its
\* entry are steps of that specification or change nothing of it.
THEOREM ExclusiveUseCorrect == Spec => ExclusiveUse
  <1>1. Init => Ownership!Init
    <2> SUFFICES ASSUME Init PROVE Ownership!Init
      OBVIOUS
    <2>1. \A s \in SAs : Owner(s) = NoThread
      BY DEF Init, Owner, Users, NoCall
    <2> QED BY <2>1 DEF Init, Ownership!Init
  <1>2. ManagerInv /\ [Next]_vars => [Ownership!Next]_(Ownership!vars)
    <2> SUFFICES ASSUME ConstantsOK, ManagerInv, [Next]_vars
                 PROVE  [Ownership!Next]_(Ownership!vars)
      BY ConstantsAssumption
    <2>1. ASSUME NEW t \in Threads, Spurious(t)
          PROVE  UNCHANGED Ownership!vars
      <3>1. /\ \A u \in Threads : call'[u].state = call[u].state /\ call'[u].at = call[u].at
            /\ UNCHANGED life
        BY <2>1, SpuriousStep
      <3>2. \A s \in SAs : Users(s)' = Users(s)
        BY <3>1 DEF Users
      <3>3. \A s \in SAs : Owner(s)' = Owner(s)
        BY <3>2, OwnerSame
      <3> QED BY <3>1, <3>3 DEF Ownership!vars
    <2>2. CASE UNCHANGED vars
      BY <2>2 DEF vars, Ownership!vars, Owner, Users
    <2>3. CASE Next
      BY <2>1, <2>3, NextSteps, ThreadStepOwns, AddSaOwns
    <2> QED BY <2>2, <2>3
  <1> QED BY <1>1, <1>2, ManagerInvariant, PTL DEF Spec, ExclusiveUse, Ownership!Spec

-----------------------------------------------------------------------------
(* EspContext: remainders.                                                 *)

\* A remainder is determined by the number up to multiples of the divisor.
LEMMA ModUnique ==
    ASSUME NEW n \in Nat \ {0}, NEW q \in Int, NEW r \in 0..(n - 1)
    PROVE  (n * q + r) % n = r
  OBVIOUS

\* Every number is a multiple of the divisor and a remainder.
LEMMA ModSplit ==
    ASSUME NEW a \in Int, NEW n \in Nat \ {0}
    PROVE  /\ a % n \in 0..(n - 1)
           /\ \E q \in Int : a = n * q + (a % n)
  <1>1. a % n \in 0..(n - 1) /\ a \div n \in Int /\ a = n * (a \div n) + (a % n)
    OBVIOUS
  <1> QED BY <1>1

\* Multiples of the divisor may be added.
LEMMA ModPlus ==
    ASSUME NEW a \in Int, NEW n \in Nat \ {0}, NEW k \in Int
    PROVE  (a + n * k) % n = a % n
  <1>1. PICK q \in Int : a = n * q + (a % n)
    BY ModSplit
  <1>2. PICK r \in 0..(n - 1) : r = a % n
    BY ModSplit
  <1>3. a + n * k = n * (q + k) + r
    BY <1>1, <1>2
  <1>4. (n * (q + k) + r) % n = r
    BY ModUnique
  <1> QED BY <1>2, <1>3, <1>4

\* Different numbers in a range as long as the divisor have different remainders.
LEMMA ModDistinct ==
    ASSUME NEW a \in Int, NEW b \in Int, NEW n \in Nat \ {0}, b < a, a - b < n
    PROVE  a % n # b % n
  <1> SUFFICES ASSUME a % n = b % n PROVE FALSE
    OBVIOUS
  <1>1. PICK q \in Int : a = n * q + (a % n)
    BY ModSplit
  <1>2. PICK p \in Int : b = n * p + (b % n)
    BY ModSplit
  <1>3. PICK r \in 0..(n - 1) : r = a % n /\ r = b % n
    BY ModSplit
  <1>4. a = n * q + r /\ b = n * p + r
    BY <1>1, <1>2, <1>3
  <1>5. p < q
    <2>1. SUFFICES ASSUME q <= p PROVE FALSE
      OBVIOUS
    <2>2. n * q <= n * p
      BY <2>1
    <2> QED BY <1>4, <2>2
  <1>6. n * p + n <= n * q
    BY <1>5
  <1> QED BY <1>4, <1>6

\* Taking the remainder by a multiple of the divisor first changes nothing.
LEMMA ModMod ==
    ASSUME NEW a \in Int, NEW m \in Nat \ {0}, NEW n \in Nat \ {0}, m % n = 0
    PROVE  (a % m) % n = a % n
  <1>1. PICK q \in Int : a = m * q + (a % m)
    BY ModSplit
  <1>2. PICK k \in Int : m = n * k
    <2>1. \E k \in Int : m = n * k + (m % n)
      <3>1. m \in Int
        OBVIOUS
      <3> QED BY <3>1, ModSplit, Zenon
    <2> QED BY <2>1
  <1>3. PICK r \in 0..(m - 1) : r = a % m
    BY ModSplit
  <1>4. a = r + n * (k * q)
    <2>1. (n * k) * q = n * (k * q)
      OBVIOUS
    <2> QED BY <1>1, <1>2, <1>3, <2>1
  <1>5. k * q \in Int /\ r \in Int
    OBVIOUS
  <1>6. (r + n * (k * q)) % n = r % n
    BY <1>5, ModPlus
  <1> QED BY <1>3, <1>4, <1>6

-----------------------------------------------------------------------------
(* The inductive invariant: the bit that is d below the one of the highest *)
(* number tells if the number d below it was accepted.                     *)

Below(d) == (seqno_index - d) % window_size

Recorded ==
    \A d \in Indices : d < last_seqno => (Below(d) \in window <=> last_seqno - d \in accepted)

WindowInv == ContextType /\ accepted \subseteq 1..last_seqno /\ Recorded

\* The sizes, as the proofs use them.
LEMMA Sizes ==
    /\ Modulus \in Nat \ {0} /\ window_size \in Nat \ {0} /\ window_size <= Modulus
    /\ Modulus % window_size = 0
  BY SizesAssumption

\* The bit of a number that is not above the highest one.
LEMMA BitBelow ==
    ASSUME ContextType, NEW seqno \in 1..last_seqno
    PROVE  /\ Minus(last_seqno, seqno) = last_seqno - seqno
           /\ Bit(seqno) = Below(last_seqno - seqno) /\ Bit(seqno) \in Indices
           /\ InWindow(seqno) <=> last_seqno - seqno \in Indices
  <1>1. last_seqno \in 0..(Modulus - 1) /\ seqno_index \in 0..(window_size - 1)
    BY DEF ContextType, Seqnos, Indices
  <1> DEFINE d == last_seqno - seqno
  <1>2. d \in 0..(Modulus - 1) /\ d \in Int
    BY <1>1, Sizes
  <1>3. (Modulus * 0 + d) % Modulus = d
    BY <1>2, Sizes, ModUnique
  <1>4. Minus(last_seqno, seqno) = d
    BY <1>2, <1>3, Sizes DEF Minus
  <1> HIDE DEF d
  <1>5. seqno_index - d \in Int
    BY <1>1, <1>2
  <1>6. ((seqno_index - d) % Modulus) % window_size = (seqno_index - d) % window_size
    BY <1>5, Sizes, ModMod
  <1>7. Bit(seqno) = Below(d)
    BY <1>4, <1>6 DEF Bit, Below, Minus
  <1>8. Below(d) \in Indices
    BY <1>5, Sizes, ModSplit DEF Below, Indices
  <1>9. InWindow(seqno) <=> d \in Indices
    BY <1>2, <1>4, Sizes DEF InWindow, Indices
  <1> QED BY <1>4, <1>7, <1>8, <1>9 DEF d

\* Different distances in the window have different bits.
LEMMA BelowDistinct ==
    ASSUME ContextType, NEW d \in Indices, NEW e \in Indices, Below(d) = Below(e)
    PROVE  d = e
  <1>1. seqno_index \in Int /\ d \in Int /\ e \in Int /\ d - e < window_size /\ e - d < window_size
    BY Sizes DEF ContextType, Indices
  <1>2. ~(d < e)
    <2> SUFFICES ASSUME d < e PROVE FALSE
      OBVIOUS
    <2>1. /\ seqno_index - d \in Int /\ seqno_index - e \in Int
          /\ seqno_index - e < seqno_index - d
          /\ (seqno_index - d) - (seqno_index - e) < window_size
      BY <1>1, Sizes
    <2> QED BY <2>1, Sizes, ModDistinct DEF Below
  <1>3. ~(e < d)
    <2> SUFFICES ASSUME e < d PROVE FALSE
      OBVIOUS
    <2>1. /\ seqno_index - d \in Int /\ seqno_index - e \in Int
          /\ seqno_index - d < seqno_index - e
          /\ (seqno_index - e) - (seqno_index - d) < window_size
      BY <1>1, Sizes
    <2> QED BY <2>1, Sizes, ModDistinct DEF Below
  <1> QED BY <1>1, <1>2, <1>3

\* The invariant makes verify_seqno() exact.
LEMMA RecordedExact == ASSUME WindowInv PROVE WindowExact
  <1> SUFFICES ASSUME NEW seqno \in Seqnos \ {0}
               PROVE  verify_seqno(seqno) <=>
                          seqno + window_size > last_seqno /\ seqno \notin accepted
    BY DEF WindowExact
  <1>1. /\ seqno \in 1..(Modulus - 1) /\ last_seqno \in Nat /\ window_size \in Nat
        /\ accepted \subseteq 1..last_seqno
    BY Sizes DEF WindowInv, ContextType, Seqnos
  <1>2. CASE seqno > last_seqno
    BY <1>1, <1>2, Sizes DEF verify_seqno
  <1>3. CASE ~(seqno > last_seqno)
    <2> DEFINE d == last_seqno - seqno
    <2>1. seqno \in 1..last_seqno /\ d < last_seqno /\ last_seqno - d = seqno
      BY <1>1, <1>3
    <2>2. Bit(seqno) = Below(d) /\ (InWindow(seqno) <=> d \in Indices)
      BY <2>1, BitBelow DEF WindowInv
    <2>3. d \in Indices <=> seqno + window_size > last_seqno
      BY <1>1, <2>1, Sizes DEF Indices
    <2>4. d \in Indices => (Below(d) \in window <=> seqno \in accepted)
      BY <2>1 DEF WindowInv, Recorded
    <2> QED BY <1>3, <2>2, <2>3, <2>4 DEF verify_seqno
  <1> QED BY <1>2, <1>3

-----------------------------------------------------------------------------
(* The steps.                                                              *)

\* A packet in the window: its bit is set, and no other.
LEMMA InsideStep ==
    ASSUME WindowInv, NEW seqno \in 1..last_seqno, InWindow(seqno),
           window' = window \cup {Bit(seqno)}, accepted' = accepted \cup {seqno},
           UNCHANGED <<last_seqno, seqno_index, sent>>
    PROVE  WindowInv'
  <1> DEFINE e == last_seqno - seqno
  <1>1. e \in Indices /\ Bit(seqno) = Below(e) /\ Bit(seqno) \in Indices
    BY BitBelow DEF WindowInv
  <1>2. last_seqno \in Nat /\ seqno \in Int /\ seqno \in Seqnos
    BY Sizes DEF WindowInv, ContextType, Seqnos
  <1>3. ContextType'
    <2>1. window' \subseteq Indices /\ accepted' \subseteq Seqnos
      BY <1>1, <1>2 DEF WindowInv, ContextType
    <2> QED BY <2>1 DEF WindowInv, ContextType
  <1>4. accepted' \subseteq 1..last_seqno'
    BY DEF WindowInv
  <1>5. Recorded'
    <2> SUFFICES ASSUME NEW d \in Indices, d < last_seqno
                 PROVE  Below(d)' \in window' <=> last_seqno - d \in accepted'
      BY DEF Recorded
    <2>1. Below(d)' = Below(d)
      BY DEF Below
    <2>2. Below(d) = Below(e) <=> last_seqno - d = seqno
      BY <1>1, <1>2, BelowDistinct DEF WindowInv, Indices
    <2> QED BY <1>1, <2>1, <2>2 DEF WindowInv, Recorded
  <1> QED BY <1>3, <1>4, <1>5 DEF WindowInv

\* A packet above it: the window is shifted, which clears the bits it passes.
LEMMA AboveStep ==
    ASSUME WindowInv, NEW seqno \in Seqnos, seqno > last_seqno,
           set_authenticated_seqno(seqno), accepted' = accepted \cup {seqno}, UNCHANGED sent
    PROVE  WindowInv'
  <1> DEFINE D == seqno - last_seqno
             k == Smaller(D, window_size)
             top == (seqno_index + k) % window_size
  <1>1. /\ last_seqno \in Nat /\ seqno \in Nat /\ seqno_index \in Indices /\ seqno_index \in Int
        /\ accepted \subseteq 1..last_seqno /\ window \subseteq Indices
    BY Sizes DEF WindowInv, ContextType, Seqnos, Indices
  <1>2. D \in Nat \ {0} /\ k \in Nat \ {0} /\ k <= window_size /\ (D < window_size => k = D)
        /\ (~(D < window_size) => k = window_size)
    BY <1>1, Sizes DEF Smaller
  <1>3. last_seqno' = seqno /\ seqno_index' = top /\ window' = (window \ Passed(k)) \cup {top}
    BY DEF set_authenticated_seqno
  <1> HIDE DEF D, k
  <1>4. seqno_index + k \in Int /\ top \in Indices
    BY <1>1, <1>2, Sizes, ModSplit DEF Indices
  <1>5. ContextType'
    BY <1>1, <1>3, <1>4 DEF WindowInv, ContextType
  <1>6. accepted' \subseteq 1..last_seqno'
    BY <1>1, <1>3
  <1>7. ASSUME NEW d \in Indices
        PROVE  Below(d)' = (seqno_index + (k - d)) % window_size
    <2>1. d \in Int /\ k - d \in Int /\ seqno_index + (k - d) \in Int
      BY <1>1, <1>2, Sizes DEF Indices
    <2>2. PICK q \in Int : seqno_index + k = window_size * q + top
      BY <1>4, Sizes, ModSplit
    <2>3. top \in Int /\ top - d \in Int
      BY <1>4, <2>1, Sizes DEF Indices
    <2> HIDE DEF top
    <2>4. (top - d) + window_size * q = seqno_index + (k - d)
      BY <1>1, <1>2, <2>1, <2>2, <2>3, Sizes
    <2>5. ((top - d) + window_size * q) % window_size = (top - d) % window_size
      BY <2>3, Sizes, ModPlus
    <2> QED BY <1>3, <2>4, <2>5 DEF Below
  <1>8. ASSUME NEW d \in Indices, d < seqno
        PROVE  Below(d)' \in window' <=> seqno - d \in accepted'
    <2>1. d \in Nat /\ d < window_size
      BY Sizes DEF Indices
    <2>2. CASE d = 0
      <3>1. k - d = k /\ Below(d)' = top /\ seqno - d = seqno
        BY <1>1, <1>2, <1>7, <2>2
      <3> QED BY <1>3, <3>1
    <2>3. CASE d # 0
      <3>1. Below(d)' # top
        <4>1. /\ seqno_index + (k - d) \in Int /\ seqno_index + k \in Int
              /\ seqno_index + (k - d) < seqno_index + k
              /\ (seqno_index + k) - (seqno_index + (k - d)) < window_size
          BY <1>1, <1>2, <2>1, <2>3, Sizes
        <4> QED BY <1>7, <4>1, Sizes, ModDistinct
      <3>2. CASE d < D
        <4>1. k - d \in 1..k
          BY <1>2, <2>1, <2>3, <3>2
        <4>2. Below(d)' \in Passed(k)
          BY <1>7, <4>1 DEF Passed
        <4>3. seqno - d \notin accepted /\ seqno - d # seqno
          BY <1>1, <2>1, <2>3, <3>2 DEF D
        <4> QED BY <1>3, <3>1, <4>2, <4>3
      <3>3. CASE ~(d < D)
        <4> DEFINE e == d - D
        <4>1. /\ k = D /\ e \in Indices /\ e < last_seqno /\ last_seqno - e = seqno - d
              /\ seqno_index + (k - d) = seqno_index - e
          BY <1>1, <1>2, <1>8, <2>1, <3>3, Sizes DEF D, Indices
        <4>2. Below(d)' = Below(e)
          BY <1>7, <4>1 DEF Below
        <4>3. Below(e) \notin Passed(k)
          <5> SUFFICES ASSUME NEW i \in 1..k PROVE Below(e) # (seqno_index + i) % window_size
            BY DEF Passed
          <5>1. /\ seqno_index - e \in Int /\ seqno_index + i \in Int
                /\ seqno_index - e < seqno_index + i
                /\ (seqno_index + i) - (seqno_index - e) < window_size
            BY <1>1, <1>2, <2>1, <3>3, <4>1, Sizes DEF Indices
          <5> QED BY <5>1, Sizes, ModDistinct DEF Below
        <4>4. Below(e) \in window <=> seqno - d \in accepted
          BY <4>1 DEF WindowInv, Recorded
        <4>5. seqno - d # seqno
          BY <1>1, <2>1, <2>3
        <4> QED BY <1>3, <3>1, <4>2, <4>3, <4>4, <4>5
      <3> QED BY <3>2, <3>3
    <2> QED BY <2>2, <2>3
  <1>9. Recorded'
    BY <1>3, <1>8 DEF Recorded
  <1> QED BY <1>5, <1>6, <1>9 DEF WindowInv

\* The invariant holds of every behaviour.
LEMMA WindowInvariant == ContextSpec => []WindowInv
  <1>1. ContextInit => WindowInv
    BY Sizes DEF ContextInit, WindowInv, ContextType, Recorded, Seqnos, Indices
  <1>2. WindowInv /\ [ContextNext]_context => WindowInv'
    <2> SUFFICES ASSUME WindowInv, [ContextNext]_context PROVE WindowInv'
      OBVIOUS
    <2>1. CASE Encrypt
      <3>1. sent' \in Seqnos
        BY <2>1, Sizes DEF Encrypt, WindowInv, ContextType, Seqnos
      <3> QED BY <2>1, <3>1 DEF Encrypt, WindowInv, ContextType, Recorded, Below
    <2>2. ASSUME NEW seqno \in Seqnos, Decrypt(seqno)
          PROVE  WindowInv'
      <3>1. /\ seqno \in 1..sent /\ verify_seqno(seqno) /\ set_authenticated_seqno(seqno)
            /\ accepted' = accepted \cup {seqno} /\ UNCHANGED sent
        BY <2>2 DEF Decrypt
      <3>2. CASE seqno > last_seqno
        BY <3>1, <3>2, AboveStep
      <3>3. CASE ~(seqno > last_seqno)
        <4>1. seqno \in 1..last_seqno
          BY <3>1, <3>3, Sizes DEF WindowInv, ContextType, Seqnos
        <4>2. InWindow(seqno) /\ window' = window \cup {Bit(seqno)}
              /\ UNCHANGED <<last_seqno, seqno_index>>
          BY <3>1, <3>3 DEF verify_seqno, set_authenticated_seqno
        <4> QED BY <3>1, <4>1, <4>2, InsideStep
      <3> QED BY <3>2, <3>3
    <2>3. CASE UNCHANGED context
      BY <2>3 DEF context, WindowInv, ContextType, Recorded, Below
    <2> QED BY <2>1, <2>2, <2>3 DEF ContextNext
  <1> QED BY <1>1, <1>2, PTL DEF ContextSpec

-----------------------------------------------------------------------------
(* The theorem.                                                            *)

\* verify_seqno() accepts a packet exactly if it was not accepted before and is fewer
\* than window_size behind the highest number, whatever the arrivals were: for 32-bit
\* numbers and the real window as for any other.
THEOREM WindowSoundCorrect == ContextSpec => []WindowSound
  <1>1. WindowInv => WindowSound
    BY RecordedExact DEF WindowInv, WindowSound
  <1> QED BY <1>1, WindowInvariant, PTL
=============================================================================
