------------------------- MODULE IkeSaManagerProofs -------------------------
(***************************************************************************)
(* Theorems about IkeSaManager, for any number of threads, IKE_SAs and      *)
(* segments, and whatever operations the threads have.                     *)
(***************************************************************************)
EXTENDS IkeSaManager, FiniteSetTheorems, SequenceTheorems, TLAPS

-----------------------------------------------------------------------------
(* What relates the IKE_SAs that threads hold to the entries of the table,  *)
(* however flush() and the threads meet.                                    *)

EntryRec == [checked_out : Threads \cup {NoThread}, waiting_threads : Int,
             driveout_threads : BOOLEAN]
CallRec == [op : {"none", "checkout", "enumerate", "destroy", "flush"},
            at : SAs \cup {NoSA}, goal : SAs \cup {NoSA}, segment : 0..SegmentCount + 1,
            state : {"run", "asleep", "woken"}]
Lives == {"none", "new", "listed", "destroyed"}

Typed ==
    /\ table \in [Segments -> Seq(SAs)] /\ entry \in [SAs -> EntryRec]
    /\ life \in [SAs -> Lives] /\ call \in [All -> CallRec] /\ held \in [Threads -> SUBSET SAs]

\* Whoever holds an IKE_SA is alone, and its entry, if there is one, is checked out.
HeldAt(s) ==
    \A t \in Threads : s \in held[t] =>
        /\ life[s] \in {"new", "listed"}
        /\ life[s] = "listed" => entry[s].checked_out = t
        /\ \A u \in Threads : s \in held[u] => u = t

\* A row has entries of its segment only, each once.
RowSound(g) ==
    /\ IsInjective(table[g])
    /\ \A s \in Range(table[g]) : life[s] = "listed" /\ Row[s] = g

\* A thread waits at an entry, and destroys an IKE_SA that it holds.
CallAt(t) ==
    /\ call[t].state # "run" =>
          call[t].at \in SAs /\ life[call[t].at] \in {"listed", "destroyed"}
    /\ call[t].op = "destroy" => t \in Threads /\ call[t].at \in held[t]

OwnInv ==
    /\ Typed
    /\ \A s \in SAs : HeldAt(s)
    /\ \A g \in Segments : RowSound(g)
    /\ \A t \in All : CallAt(t)

-----------------------------------------------------------------------------
(* Rows.                                                                   *)

\* Where an entry is in its row.
LEMMA PositionOf ==
    ASSUME NEW q \in Seq(SAs), NEW s
    PROVE  /\ s \in Range(q) => Position(q, s) \in 1..Len(q) /\ q[Position(q, s)] = s
           /\ s \notin Range(q) => Position(q, s) = 0
  <1>1. DOMAIN q = 1..Len(q) /\ Len(q) \in Nat
    OBVIOUS
  <1>2. ASSUME s \in Range(q)
        PROVE  Position(q, s) \in DOMAIN q /\ q[Position(q, s)] = s
    <2>1. \E i \in DOMAIN q : q[i] = s
      BY <1>2 DEF Range
    <2> QED BY <1>2, <2>1 DEF Position
  <1> QED BY <1>1, <1>2 DEF Position

\* What comes before and after a position of a row.
LEMMA SubRows ==
    ASSUME NEW q \in Seq(SAs), NEW p \in 0..Len(q)
    PROVE  /\ SubSeq(q, 1, p - 1) \in Seq(SAs)
           /\ Len(SubSeq(q, 1, p - 1)) = IF p = 0 THEN 0 ELSE p - 1
           /\ \A i \in 1..(p - 1) : SubSeq(q, 1, p - 1)[i] = q[i]
           /\ SubSeq(q, p + 1, Len(q)) \in Seq(SAs)
           /\ Len(SubSeq(q, p + 1, Len(q))) = Len(q) - p
           /\ \A i \in 1..(Len(q) - p) : SubSeq(q, p + 1, Len(q))[i] = q[p + i]
  <1>1. CASE p = 0
    <2>1. SubSeq(q, 1, p - 1) = <<>>
      BY <1>1, SubSeqEmpty
    <2>2. SubSeq(q, p + 1, Len(q)) = q
      BY <1>1, SubSeqFull
    <2> QED BY <1>1, <2>1, <2>2
  <1>2. CASE p # 0
    <2>1. p \in 1..Len(q)
      BY <1>2
    <2> QED BY <1>2, <2>1
  <1> QED BY <1>1, <1>2

\* remove_entry() takes out the entry, if it is in the row, and keeps the others.
LEMMA RowWithout ==
    ASSUME NEW q \in Seq(SAs), NEW s \in SAs, IsInjective(q),
           NEW r, r = RemoveAt(q, Position(q, s))
    PROVE  r \in Seq(SAs) /\ IsInjective(r) /\ Range(r) = Range(q) \ {s}
  <1> DEFINE p == Position(q, s)  n == Len(q)
  <1>1. /\ n \in Nat /\ p \in 0..n /\ (p = 0 <=> s \notin Range(q)) /\ (p # 0 => q[p] = s)
        /\ DOMAIN q = 1..n /\ \A i \in 1..n : q[i] \in SAs
    BY PositionOf
  <1> HIDE DEF p
  <1> DEFINE a == SubSeq(q, 1, p - 1)  b == SubSeq(q, p + 1, n)
  <1>2. r = a \o b
    BY DEF RemoveAt, p
  <1> DEFINE m == IF p = 0 THEN 0 ELSE p - 1
  <1>3. /\ a \in Seq(SAs) /\ Len(a) = m /\ \A i \in 1..m : a[i] = q[i]
        /\ b \in Seq(SAs) /\ Len(b) = n - p /\ \A i \in 1..(n - p) : b[i] = q[p + i]
    <2>1. \A i \in 1..m : i \in 1..(p - 1)
      BY <1>1
    <2> QED BY <1>1, <2>1, SubRows
  <1> HIDE DEF a, b
  <1> DEFINE k == m + (n - p)
  <1>4. /\ r \in Seq(SAs) /\ Len(r) = k
        /\ \A i \in 1..k : r[i] = IF i <= m THEN a[i] ELSE b[i - m]
    <2>1. /\ a \o b \in Seq(SAs) /\ Len(a \o b) = Len(a) + Len(b)
          /\ \A i \in 1..(Len(a) + Len(b)) :
                (a \o b)[i] = IF i <= Len(a) THEN a[i] ELSE b[i - Len(a)]
      BY <1>3, ConcatProperties, Zenon
    <2> QED BY <1>2, <1>3, <2>1, Zenon
  <1> DEFINE old(i) == IF i <= m THEN i ELSE i - m + p
  <1>5. ASSUME NEW i \in 1..k
        PROVE  old(i) \in 1..n /\ old(i) # p /\ r[i] = q[old(i)]
    <2>1. CASE i <= m
      <3>1. i \in 1..m /\ old(i) = i /\ i \in 1..n /\ i # p
        BY <1>1, <2>1
      <3> QED BY <1>3, <1>4, <2>1, <3>1
    <2>2. CASE ~(i <= m)
      <3>1. i - m \in 1..(n - p) /\ old(i) = p + (i - m) /\ old(i) \in 1..n /\ old(i) # p
        BY <1>1, <2>2
      <3> QED BY <1>3, <1>4, <2>2, <3>1
    <2> QED BY <2>1, <2>2
  <1>6. \A i, j \in 1..k : old(i) = old(j) => i = j
    BY <1>1
  <1>7. ASSUME NEW j \in 1..n, j # p
        PROVE  \E i \in 1..k : old(i) = j
    <2>1. CASE j <= m
      BY <1>1, <2>1
    <2>2. CASE ~(j <= m)
      <3>1. j - p + m \in 1..k /\ old(j - p + m) = j
        BY <1>1, <1>7, <2>2
      <3> QED BY <3>1
    <2> QED BY <2>1, <2>2
  <1>8. DOMAIN r = 1..k
    BY <1>4
  <1> HIDE DEF old, k, m, n
  <1>9. IsInjective(r)
    BY <1>1, <1>5, <1>6, <1>8 DEF IsInjective
  <1>10. Range(r) = Range(q) \ {s}
    <2>1. ASSUME NEW x \in Range(r) PROVE x \in Range(q) \ {s}
      <3>1. PICK i \in 1..k : x = r[i]
        BY <1>8, <2>1 DEF Range
      <3>2. x = q[old(i)] /\ old(i) \in DOMAIN q /\ old(i) # p
        BY <1>1, <1>5, <3>1
      <3>3. x # s
        <4>1. CASE p = 0
          BY <1>1, <3>2, <4>1 DEF Range
        <4>2. CASE p # 0
          <5>1. p \in DOMAIN q /\ q[p] = s
            BY <1>1, <4>2
          <5> QED BY <3>2, <5>1 DEF IsInjective
        <4> QED BY <4>1, <4>2
      <3> QED BY <3>2, <3>3 DEF Range
    <2>2. ASSUME NEW x \in Range(q) \ {s} PROVE x \in Range(r)
      <3>1. PICK j \in 1..n : x = q[j]
        BY <1>1, <2>2 DEF Range
      <3>2. j # p
        BY <1>1, <2>2, <3>1
      <3>3. PICK i \in 1..k : old(i) = j
        BY <1>7, <3>2
      <3> QED BY <1>5, <1>8, <3>1, <3>3 DEF Range
    <2> QED BY <2>1, <2>2
  <1> QED BY <1>4, <1>9, <1>10

After(q, s) == SubSeq(q, Position(q, s) + 1, Len(q))

\* What remove_entry_at() leaves of a row is what follows the entry, which is all the
\* rest if the entry is the first.
LEMMA RowAfter ==
    ASSUME NEW q \in Seq(SAs), NEW s \in SAs, IsInjective(q),
           NEW r, r = After(q, s)
    PROVE  /\ r \in Seq(SAs) /\ IsInjective(r) /\ Range(r) \subseteq Range(q) \ {s}
           /\ q # <<>> /\ q[1] = s => Range(r) = Range(q) \ {s}
  <1> DEFINE p == Position(q, s)  n == Len(q)
  <1>1. /\ n \in Nat /\ p \in 0..n /\ (p = 0 <=> s \notin Range(q)) /\ (p # 0 => q[p] = s)
        /\ DOMAIN q = 1..n /\ \A i \in 1..n : q[i] \in SAs
    BY PositionOf
  <1>2. r = SubSeq(q, p + 1, n)
    BY DEF After
  <1> HIDE DEF p
  <1>3. r \in Seq(SAs) /\ Len(r) = n - p /\ \A i \in 1..(n - p) : r[i] = q[p + i]
    <2>1. p \in 0..Len(q)
      BY <1>1
    <2>2. /\ SubSeq(q, p + 1, Len(q)) \in Seq(SAs)
          /\ Len(SubSeq(q, p + 1, Len(q))) = Len(q) - p
          /\ \A i \in 1..(Len(q) - p) : SubSeq(q, p + 1, Len(q))[i] = q[p + i]
      BY <2>1, SubRows
    <2> QED BY <1>2, <2>2
  <1>4. DOMAIN r = 1..(n - p) /\ \A i \in 1..(n - p) : p + i \in 1..n /\ p + i # p
    BY <1>1, <1>3
  <1>5. IsInjective(r)
    <2> SUFFICES ASSUME NEW i \in 1..(n - p), NEW j \in 1..(n - p), r[i] = r[j] PROVE i = j
      BY <1>4 DEF IsInjective
    <2>1. q[p + i] = q[p + j] /\ p + i \in DOMAIN q /\ p + j \in DOMAIN q
      BY <1>1, <1>3, <1>4
    <2>2. p + i = p + j
      BY <2>1 DEF IsInjective
    <2> QED BY <1>1, <2>2
  <1>6. ASSUME NEW x \in Range(r) PROVE x \in Range(q) \ {s}
    <2>1. PICK i \in 1..(n - p) : x = r[i]
      BY <1>4, <1>6 DEF Range
    <2>2. x = q[p + i] /\ p + i \in DOMAIN q /\ p + i # p
      BY <1>1, <1>3, <1>4, <2>1
    <2>3. x \in Range(q)
      BY <2>2 DEF Range
    <2>4. x # s
      <3>1. CASE p = 0
        BY <1>1, <2>3, <3>1
      <3>2. CASE p # 0
        <4>1. p \in DOMAIN q /\ q[p] = s
          BY <1>1, <3>2
        <4> QED BY <2>2, <4>1 DEF IsInjective
      <3> QED BY <3>1, <3>2
    <2> QED BY <2>3, <2>4
  <1>7. ASSUME q # <<>>, q[1] = s, NEW x \in Range(q) \ {s} PROVE x \in Range(r)
    <2>1. 1 \in DOMAIN q
      BY <1>1, <1>7
    <2>2. s \in Range(q)
      BY <1>7, <2>1 DEF Range
    <2>3. p \in DOMAIN q /\ q[p] = q[1]
      BY <1>1, <1>7, <2>2
    <2>4. p = 1
      BY <2>1, <2>3 DEF IsInjective
    <2>5. PICK j \in 1..n : x = q[j]
      BY <1>1 DEF Range
    <2>6. j - 1 \in 1..(n - p) /\ p + (j - 1) = j
      BY <1>1, <1>7, <2>4, <2>5
    <2>7. x = r[j - 1] /\ j - 1 \in DOMAIN r
      BY <1>3, <1>4, <2>5, <2>6
    <2> QED BY <2>7 DEF Range
  <1> QED BY <1>3, <1>5, <1>6, <1>7

\* put_entry() adds an entry to a row in which it is not.
LEMMA RowWith ==
    ASSUME NEW q \in Seq(SAs), NEW s \in SAs, IsInjective(q), s \notin Range(q),
           NEW r, r = <<s>> \o q
    PROVE  r \in Seq(SAs) /\ IsInjective(r) /\ Range(r) = Range(q) \cup {s}
  <1> DEFINE n == Len(q)
  <1>1. n \in Nat /\ DOMAIN q = 1..n
    OBVIOUS
  <1>2. /\ r \in Seq(SAs) /\ Len(r) = n + 1 /\ r[1] = s
        /\ \A i \in 1..n : r[i + 1] = q[i]
    OBVIOUS
  <1>3. DOMAIN r = 1..(n + 1) /\ \A i \in 2..(n + 1) : i - 1 \in 1..n /\ r[i] = q[i - 1]
    BY <1>1, <1>2
  <1>4. \A i \in 1..n : q[i] \in Range(q) /\ q[i] # s
    BY <1>1 DEF Range
  <1>5. IsInjective(r)
    <2> SUFFICES ASSUME NEW i \in 1..(n + 1), NEW j \in 1..(n + 1), r[i] = r[j] PROVE i = j
      BY <1>3 DEF IsInjective
    <2>1. CASE i = 1 \/ j = 1
      BY <1>1, <1>2, <1>3, <1>4, <2>1
    <2>2. CASE i # 1 /\ j # 1
      <3>1. i \in 2..(n + 1) /\ j \in 2..(n + 1)
        BY <1>1, <2>2
      <3>2. q[i - 1] = q[j - 1] /\ i - 1 \in DOMAIN q /\ j - 1 \in DOMAIN q
        BY <1>1, <1>3, <3>1
      <3>3. i - 1 = j - 1
        BY <3>2 DEF IsInjective
      <3> QED BY <1>1, <3>3
    <2> QED BY <2>1, <2>2
  <1>6. ASSUME NEW x \in Range(r) PROVE x \in Range(q) \cup {s}
    <2>1. PICK i \in 1..(n + 1) : x = r[i]
      BY <1>3 DEF Range
    <2>2. CASE i = 1
      BY <1>2, <2>1, <2>2
    <2>3. CASE i # 1
      <3>1. i \in 2..(n + 1)
        BY <1>1, <2>3
      <3>2. i - 1 \in 1..n /\ r[i] = q[i - 1]
        BY <1>3, <3>1
      <3> QED BY <1>4, <2>1, <3>2
    <2> QED BY <2>2, <2>3
  <1>7. ASSUME NEW x \in Range(q) \cup {s} PROVE x \in Range(r)
    <2>1. CASE x = s
      <3>1. 1 \in DOMAIN r
        BY <1>1, <1>3
      <3> QED BY <1>2, <2>1, <3>1 DEF Range
    <2>2. CASE x \in Range(q)
      <3>1. PICK i \in 1..n : x = q[i]
        BY <1>1, <2>2 DEF Range
      <3>2. i + 1 \in DOMAIN r /\ r[i + 1] = x
        BY <1>1, <1>2, <1>3, <3>1
      <3> QED BY <3>2 DEF Range
    <2> QED BY <1>7, <2>1, <2>2
  <1> QED BY <1>2, <1>5, <1>6, <1>7

-----------------------------------------------------------------------------
(* Records, and what a step does to calls.                                  *)

\* The type of the fields of a call.
LEMMA CallFields ==
    ASSUME NEW c \in CallRec
    PROVE  /\ c.op \in {"none", "checkout", "enumerate", "destroy", "flush"}
           /\ c.at \in SAs \cup {NoSA} /\ c.goal \in SAs \cup {NoSA}
           /\ c.segment \in 0..SegmentCount + 1 /\ c.state \in {"run", "asleep", "woken"}
  BY DEF CallRec

\* A thread that is in no call, or begins one.
LEMMA NewCalls ==
    /\ NoCall \in CallRec /\ NoCall.op = "none" /\ NoCall.state = "run" /\ NoCall.at = NoSA
    /\ \A op \in {"checkout", "enumerate", "destroy", "flush"} :
          LET c == [NoCall EXCEPT !.op = op] IN
          c \in CallRec /\ c.op = op /\ c.state = "run" /\ c.at = NoSA
  <1>1. 0 \in 0..SegmentCount + 1
    BY SegmentsAssumption
  <1> QED BY <1>1 DEF CallRec, NoCall

\* A call that waits at an entry.
LEMMA AsleepCall ==
    ASSUME NEW c \in CallRec, NEW s \in SAs
    PROVE  /\ Asleep(c, s) \in CallRec /\ Asleep(c, s).op = c.op /\ Asleep(c, s).at = s
           /\ Asleep(c, s).segment = Row[s] /\ Asleep(c, s).state = "asleep"
  <1>1. Row[s] \in 0..SegmentCount + 1
    BY SegmentsAssumption DEF Segments
  <1> QED BY <1>1 DEF CallRec, Asleep

\* The state of an entry.
LEMMA EntryFields ==
    ASSUME NEW e \in EntryRec
    PROVE  /\ e.checked_out \in Threads \cup {NoThread} /\ e.waiting_threads \in Int
           /\ e.driveout_threads \in BOOLEAN
           /\ \A n \in Int :
                 /\ [e EXCEPT !.waiting_threads = n] \in EntryRec
                 /\ [e EXCEPT !.waiting_threads = n].waiting_threads = n
                 /\ [e EXCEPT !.waiting_threads = n].checked_out = e.checked_out
                 /\ [e EXCEPT !.waiting_threads = n].driveout_threads = e.driveout_threads
           /\ \A b \in BOOLEAN :
                 /\ [e EXCEPT !.driveout_threads = b] \in EntryRec
                 /\ [e EXCEPT !.driveout_threads = b].driveout_threads = b
                 /\ [e EXCEPT !.driveout_threads = b].checked_out = e.checked_out
                 /\ [e EXCEPT !.driveout_threads = b].waiting_threads = e.waiting_threads
           /\ \A t \in Threads \cup {NoThread} :
                 /\ [e EXCEPT !.checked_out = t] \in EntryRec
                 /\ [e EXCEPT !.checked_out = t].checked_out = t
                 /\ [e EXCEPT !.checked_out = t].waiting_threads = e.waiting_threads
                 /\ [e EXCEPT !.checked_out = t].driveout_threads = e.driveout_threads
  BY DEF EntryRec

\* The entry that put_entry() makes.
LEMMA NewEntry ==
    ASSUME NEW t \in Threads \cup {NoThread}, NEW d \in BOOLEAN
    PROVE  LET e == [NoEntry EXCEPT !.checked_out = t, !.driveout_threads = d] IN
           /\ e \in EntryRec /\ e.checked_out = t /\ e.driveout_threads = d
           /\ e.waiting_threads = 0
  <1>1. NoEntry \in EntryRec /\ NoEntry.waiting_threads = 0
    BY DEF EntryRec, NoEntry
  <1> QED BY <1>1 DEF EntryRec

\* A thread goes on as c, and the threads in W are woken.
Moves(t, c, W) ==
    /\ call' \in [All -> CallRec] /\ call'[t] = c
    /\ \A u \in All \ {t} :
          /\ call'[u].op = call[u].op /\ call'[u].at = call[u].at
          /\ call'[u].segment = call[u].segment
          /\ call'[u].state = IF u \in W THEN "woken" ELSE call[u].state

\* That is what Calls() does.
LEMMA CallsMoves ==
    ASSUME call \in [All -> CallRec], NEW t \in All, NEW c \in CallRec, NEW W,
           call' = Calls(t, c, W)
    PROVE  Moves(t, c, W)
  <1>1. \A u \in All : [call[u] EXCEPT !.state = "woken"] \in CallRec
    BY DEF CallRec
  <1>2. call' \in [All -> CallRec]
    BY <1>1 DEF Calls
  <1>3. call'[t] = c
    BY DEF Calls
  <1>4. ASSUME NEW u \in All \ {t}
        PROVE  /\ call'[u].op = call[u].op /\ call'[u].at = call[u].at
               /\ call'[u].segment = call[u].segment
               /\ call'[u].state = IF u \in W THEN "woken" ELSE call[u].state
    <2>1. call'[u] = IF u \in W THEN [call[u] EXCEPT !.state = "woken"] ELSE call[u]
      BY DEF Calls
    <2> QED BY <2>1 DEF CallRec
  <1> QED BY <1>2, <1>3, <1>4 DEF Moves

\* An assignment to the call of one thread wakes nobody.
LEMMA ExceptMoves ==
    ASSUME call \in [All -> CallRec], NEW t \in All, NEW c \in CallRec,
           call' = [call EXCEPT ![t] = c]
    PROVE  Moves(t, c, {})
  BY DEF Moves

\* Neither does a step that leaves the calls alone.
LEMMA SameMoves ==
    ASSUME call \in [All -> CallRec], NEW t \in All, UNCHANGED call
    PROVE  Moves(t, call[t], {})
  BY DEF Moves

-----------------------------------------------------------------------------
(* What a step does to an IKE_SA.                                           *)

\* Nothing is changed but what is about s, and what t holds of it.
Apart(t, s) ==
    /\ entry' \in [SAs -> EntryRec]
    /\ \A x \in SAs \ {s} : entry'[x].checked_out = entry[x].checked_out
    /\ life' \in [SAs -> Lives]
    /\ \A x \in SAs \ {s} : life'[x] = life[x]
    /\ life[s] \in {"listed", "destroyed"} => life'[s] \in {"listed", "destroyed"}
    /\ held' \in [Threads -> SUBSET SAs]
    /\ \A u \in Threads \ {t} : held'[u] = held[u]
    /\ t \in Threads => \A x \in SAs \ {s} : x \in held'[t] <=> x \in held[t]

\* Such a step keeps the invariant if it does at s, for the call of t and in the rows.
LEMMA StepSound ==
    ASSUME OwnInv, NEW t \in All, NEW s \in SAs, NEW c \in CallRec, NEW W,
           Moves(t, c, W), \A u \in All : u \in W => call[u].state = "asleep",
           Apart(t, s), HeldAt(s)', CallAt(t)',
           table' \in [Segments -> Seq(SAs)], \A g \in Segments : RowSound(g)'
    PROVE  OwnInv'
  <1>1. Typed'
    BY DEF Typed, Moves, Apart
  <1>2. ASSUME NEW x \in SAs \ {s} PROVE HeldAt(x)'
    <2>1. \A u \in Threads : x \in held'[u] <=> x \in held[u]
      BY DEF Apart
    <2>2. HeldAt(x)
      BY DEF OwnInv
    <2> QED BY <2>1, <2>2 DEF HeldAt, Apart
  <1>3. ASSUME NEW u \in All \ {t} PROVE CallAt(u)'
    <2>1. CallAt(u) /\ call[u].at \in SAs \cup {NoSA} /\ life \in [SAs -> Lives]
      BY CallFields DEF OwnInv, Typed
    <2>2. /\ call'[u].op = call[u].op /\ call'[u].at = call[u].at
          /\ call'[u].state # "run" => call[u].state # "run"
      BY DEF Moves
    <2>3. \A x \in SAs : life[x] \in {"listed", "destroyed"} =>
                         life'[x] \in {"listed", "destroyed"}
      BY DEF Apart
    <2>4. u \in Threads => held'[u] = held[u]
      BY DEF Apart
    <2> QED BY <2>1, <2>2, <2>3, <2>4 DEF CallAt
  <1> QED BY <1>1, <1>2, <1>3 DEF OwnInv

\* The rows are as they were.
LEMMA RowsKept ==
    ASSUME OwnInv, UNCHANGED table,
           \A x \in SAs : life[x] = "listed" => life'[x] = "listed"
    PROVE  table' \in [Segments -> Seq(SAs)] /\ \A g \in Segments : RowSound(g)'
  <1>1. table \in [Segments -> Seq(SAs)] /\ \A g \in Segments : RowSound(g)
    BY DEF OwnInv, Typed
  <1>2. \A g \in Segments : \A x \in Range(table[g]) : x \in SAs
    BY <1>1 DEF Range
  <1> QED BY <1>1, <1>2 DEF RowSound

\* The row of s is r now, which has other entries as before.
LEMMA RowChanged ==
    ASSUME OwnInv, NEW s \in SAs, NEW r \in Seq(SAs), IsInjective(r),
           table' = [table EXCEPT ![Row[s]] = r],
           \A x \in SAs \ {s} : life'[x] = life[x],
           Range(r) \subseteq Range(table[Row[s]]) \cup {s},
           s \in Range(r) => life'[s] = "listed"
    PROVE  table' \in [Segments -> Seq(SAs)] /\ \A g \in Segments : RowSound(g)'
  <1>1. table \in [Segments -> Seq(SAs)] /\ \A g \in Segments : RowSound(g)
    BY DEF OwnInv, Typed
  <1>2. Row[s] \in Segments
    BY SegmentsAssumption
  <1>3. /\ table' \in [Segments -> Seq(SAs)] /\ table'[Row[s]] = r
        /\ \A g \in Segments \ {Row[s]} : table'[g] = table[g]
    BY <1>1, <1>2
  <1>4. ASSUME NEW g \in Segments \ {Row[s]} PROVE RowSound(g)'
    <2>1. \A x \in Range(table[g]) : x \in SAs \ {s}
      BY <1>1 DEF Range, RowSound
    <2>2. \A x \in Range(table[g]) : life'[x] = "listed" /\ Row[x] = g
      BY <1>1, <2>1 DEF RowSound
    <2> QED BY <1>1, <1>3, <2>2 DEF RowSound
  <1>5. RowSound(Row[s])'
    <2>1. \A x \in Range(r) : x \in SAs
      BY DEF Range
    <2>2. \A x \in Range(r) : life'[x] = "listed" /\ Row[x] = Row[s]
      BY <1>1, <1>2, <2>1 DEF RowSound
    <2> QED BY <1>3, <2>2 DEF RowSound
  <1> QED BY <1>3, <1>4, <1>5

-----------------------------------------------------------------------------
(* The kinds of steps: what they do to the owner of an IKE_SA.               *)

Alive(s) == IF life[s] \in {"new", "listed"} THEN "live" ELSE life[s]

\* Of the IKE_SA nothing changes, or t gets it, gives it back, or it is destroyed.
Owns(t, s) ==
    \/ Users(s)' = Users(s) /\ Alive(s)' = Alive(s)
    \/ /\ t \in Threads /\ Users(s) = {} /\ Users(s)' = {t}
       /\ Alive(s) \in {"none", "live"} /\ Alive(s)' = "live"
    \/ t \in Threads /\ Users(s) = {t} /\ Users(s)' = {} /\ Alive(s)' = Alive(s)
    \/ Alive(s) = "live" /\ Alive(s)' = "destroyed" /\ Users(s)' = {}

Owned == UNCHANGED <<held, life>> \/ \E t \in All, s \in SAs : Apart(t, s) /\ Owns(t, s)

\* Nobody has an IKE_SA that does not exist or is not checked out.
LEMMA NoUsers ==
    ASSUME OwnInv, NEW s \in SAs,
           \/ life[s] \in {"none", "destroyed"}
           \/ life[s] = "listed" /\ entry[s].checked_out = NoThread
    PROVE  Users(s) = {}
  <1>1. HeldAt(s) /\ NoThread \notin Threads
    BY ThreadsAssumption DEF OwnInv
  <1> QED BY <1>1 DEF HeldAt, Users

\* A thread has what it holds to itself.
LEMMA OneUser ==
    ASSUME OwnInv, NEW t \in Threads, NEW s \in SAs, s \in held[t]
    PROVE  /\ Users(s) = {t} /\ life[s] \in {"new", "listed"} /\ Alive(s) = "live"
           /\ life[s] = "listed" => entry[s].checked_out = t
  <1>1. HeldAt(s)
    BY DEF OwnInv
  <1> QED BY <1>1 DEF HeldAt, Users, Alive

\* The call of a thread that waits for nothing afterwards.
LEMMA RunsOn ==
    ASSUME NEW t \in All, NEW c \in CallRec, NEW W, Moves(t, c, W),
           c.state = "run", c.op # "destroy"
    PROVE  CallAt(t)'
  BY DEF Moves, CallAt

\* The call of a thread that waits at an entry afterwards.
LEMMA FallsAsleep ==
    ASSUME NEW t \in All, NEW c \in CallRec, NEW W, Moves(t, c, W), NEW s \in SAs,
           c.at = s, life'[s] = "listed", c.op = "destroy" => t \in Threads /\ s \in held'[t]
    PROVE  CallAt(t)'
  BY DEF Moves, CallAt

\* The call of a thread that is idle before and after the step.
LEMMA StaysIdle ==
    ASSUME OwnInv, NEW t \in All, NEW s \in SAs, Apart(t, s), Idle(t), call'[t] = call[t]
    PROVE  CallAt(t)'
  <1>1. CallAt(t) /\ call[t].at \in SAs \cup {NoSA}
    BY CallFields DEF OwnInv, Typed
  <1>2. call[t].at \in SAs /\ life[call[t].at] \in {"listed", "destroyed"} =>
            life'[call[t].at] \in {"listed", "destroyed"}
    BY DEF Apart
  <1> QED BY <1>1, <1>2 DEF CallAt, Idle

\* A step that neither moves an IKE_SA nor checks one out.
LEMMA NothingOwned ==
    ASSUME OwnInv, NEW t \in All, NEW c \in CallRec, NEW W,
           Moves(t, c, W), \A u \in All : u \in W => call[u].state = "asleep",
           UNCHANGED <<table, life, held>>, entry' \in [SAs -> EntryRec],
           \A x \in SAs : entry'[x].checked_out = entry[x].checked_out,
           CallAt(t)'
    PROVE  OwnInv' /\ Owned
  <1>1. Typed'
    BY DEF OwnInv, Typed, Moves
  <1>2. \A x \in SAs : HeldAt(x)'
    BY DEF OwnInv, HeldAt
  <1>3. \A g \in Segments : RowSound(g)'
    BY DEF OwnInv, RowSound
  <1>4. ASSUME NEW u \in All \ {t} PROVE CallAt(u)'
    <2>1. CallAt(u)
      BY DEF OwnInv
    <2>2. /\ call'[u].op = call[u].op /\ call'[u].at = call[u].at
          /\ call'[u].state # "run" => call[u].state # "run"
      BY DEF Moves
    <2> QED BY <2>1, <2>2 DEF CallAt
  <1> QED BY <1>1, <1>2, <1>3, <1>4 DEF OwnInv, Owned

\* A thread gets an entry that is not checked out.
LEMMA TakeOwned ==
    ASSUME OwnInv, NEW t \in Threads, NEW s \in SAs, NEW c \in CallRec, NEW W,
           Moves(t, c, W), \A u \in All : u \in W => call[u].state = "asleep",
           (c.state = "run" /\ c.op # "destroy") \/ (Idle(t) /\ c = call[t]),
           life[s] = "listed", entry[s].checked_out = NoThread, UNCHANGED <<table, life>>,
           entry' \in [SAs -> EntryRec], entry'[s].checked_out = t,
           \A x \in SAs \ {s} : entry'[x].checked_out = entry[x].checked_out,
           held' = [held EXCEPT ![t] = @ \cup {s}]
    PROVE  OwnInv' /\ Owned
  <1>1. Users(s) = {} /\ t \in All
    BY NoUsers DEF All
  <1>2. /\ held \in [Threads -> SUBSET SAs] /\ life \in [SAs -> Lives]
    BY DEF OwnInv, Typed
  <1>3. Apart(t, s)
    BY <1>2 DEF Apart
  <1>4. Users(s)' = {t}
    BY <1>1, <1>2 DEF Users
  <1>5. HeldAt(s)'
    BY <1>4 DEF HeldAt, Users
  <1>6. CallAt(t)'
    <2>1. CASE c.state = "run" /\ c.op # "destroy"
      BY <1>1, <2>1, RunsOn
    <2>2. CASE Idle(t) /\ c = call[t]
      BY <1>1, <1>3, <2>2, StaysIdle DEF Moves
    <2> QED BY <2>1, <2>2
  <1>7. table' \in [Segments -> Seq(SAs)] /\ \A g \in Segments : RowSound(g)'
    BY RowsKept
  <1>8. OwnInv'
    BY <1>1, <1>3, <1>5, <1>6, <1>7, StepSound
  <1>9. Owns(t, s)
    BY <1>1, <1>4 DEF Owns, Alive
  <1> QED BY <1>1, <1>3, <1>8, <1>9 DEF Owned

\* A thread gives back an IKE_SA, which remains in the table, gets there, or is destroyed.
LEMMA ReturnOwned ==
    ASSUME OwnInv, NEW t \in Threads, NEW s \in SAs, NEW c \in CallRec, NEW W,
           Moves(t, c, W), \A u \in All : u \in W => call[u].state = "asleep",
           (c.state = "run" /\ c.op # "destroy") \/ (Idle(t) /\ c = call[t]),
           s \in held[t], held' = [held EXCEPT ![t] = @ \ {s}],
           NEW l \in {"listed", "destroyed"}, life' = [life EXCEPT ![s] = l],
           entry' \in [SAs -> EntryRec],
           \A x \in SAs \ {s} : entry'[x].checked_out = entry[x].checked_out,
           table' \in [Segments -> Seq(SAs)], \A g \in Segments : RowSound(g)'
    PROVE  OwnInv' /\ Owned
  <1>1. Users(s) = {t} /\ Alive(s) = "live" /\ t \in All
    BY OneUser DEF All
  <1>2. /\ held \in [Threads -> SUBSET SAs] /\ life \in [SAs -> Lives]
    BY DEF OwnInv, Typed
  <1>3. /\ life' \in [SAs -> Lives] /\ life'[s] = l
        /\ \A x \in SAs \ {s} : life'[x] = life[x]
    BY <1>2 DEF Lives
  <1>4. /\ held' \in [Threads -> SUBSET SAs] /\ held'[t] = held[t] \ {s}
        /\ \A u \in Threads \ {t} : held'[u] = held[u]
    BY <1>2
  <1>5. Apart(t, s)
    BY <1>3, <1>4 DEF Apart
  <1>6. Users(s)' = {}
    BY <1>1, <1>4 DEF Users
  <1>7. HeldAt(s)'
    BY <1>6 DEF HeldAt, Users
  <1>8. CallAt(t)'
    BY <1>1, <1>5, RunsOn, StaysIdle DEF Moves
  <1>9. OwnInv'
    BY <1>1, <1>5, <1>7, <1>8, StepSound
  <1>10. Owns(t, s)
    BY <1>1, <1>3, <1>6 DEF Owns, Alive
  <1> QED BY <1>1, <1>5, <1>9, <1>10 DEF Owned

-----------------------------------------------------------------------------
(* The actions.                                                            *)

\* Only sleeping threads are woken.
LEMMA WokenSleep ==
    ASSUME NEW s, NEW W, W \in Signal(s) \/ W = Broadcast(s)
    PROVE  W \subseteq Sleepers(s) /\ \A u \in All : u \in W => call[u].state = "asleep"
  BY DEF Signal, Broadcast, Sleepers

\* A thread that goes on after waiting is at an entry of the table.
LEMMA WakingAt ==
    ASSUME OwnInv, NEW t \in All, NEW op, Waking(t, op)
    PROVE  /\ call[t].at \in SAs /\ life[call[t].at] = "listed"
           /\ call[t] \in CallRec /\ call[t].op = op
  BY DEF OwnInv, Typed, CallAt, Waking

\* Entries at the head of a row, and after another, are in the table.
LEMMA RowEntries ==
    ASSUME OwnInv
    PROVE  /\ \A g \in Segments : table[g] # <<>> =>
                 /\ table[g][1] \in SAs /\ life[table[g][1]] = "listed"
                 /\ Row[table[g][1]] = g
           /\ \A x \in SAs : Following(x) # NoSA =>
                 /\ Following(x) \in SAs /\ life[Following(x)] = "listed"
                 /\ Row[Following(x)] = Row[x]
  <1>1. table \in [Segments -> Seq(SAs)] /\ \A g \in Segments : RowSound(g)
    BY DEF OwnInv, Typed
  <1>2. ASSUME NEW g \in Segments, NEW i \in 1..Len(table[g])
        PROVE  /\ table[g][i] \in SAs /\ life[table[g][i]] = "listed"
               /\ Row[table[g][i]] = g
    <2>1. table[g] \in Seq(SAs)
      BY <1>1
    <2>2. i \in DOMAIN table[g] /\ table[g][i] \in SAs
      BY <2>1
    <2> QED BY <1>1, <2>2 DEF RowSound, Range
  <1>3. ASSUME NEW g \in Segments, table[g] # <<>> PROVE 1 \in 1..Len(table[g])
    <2>1. table[g] \in Seq(SAs)
      BY <1>1
    <2> QED BY <1>3, <2>1
  <1>4. ASSUME NEW x \in SAs, Following(x) # NoSA
        PROVE  /\ Following(x) \in SAs /\ life[Following(x)] = "listed"
               /\ Row[Following(x)] = Row[x]
    <2> DEFINE row == table[Row[x]]  i == Position(row, x)
    <2>1. row \in Seq(SAs) /\ Row[x] \in Segments
      BY <1>1, SegmentsAssumption
    <2>2. i < Len(row) /\ Following(x) = row[i + 1]
      BY <1>4 DEF Following
    <2>3. i \in 0..Len(row) /\ Len(row) \in Nat
      BY <2>1, PositionOf
    <2> HIDE DEF i
    <2>4. i + 1 \in 1..Len(row)
      BY <2>2, <2>3
    <2> QED BY <1>2, <2>1, <2>2, <2>4
  <1> QED BY <1>2, <1>3, <1>4

\* create_new()
LEMMA CreateNewOwned ==
    ASSUME OwnInv, NEW t \in Threads, NEW s \in SAs, CreateNew(t, s)
    PROVE  OwnInv' /\ Owned
  <1>1. /\ call \in [All -> CallRec] /\ entry \in [SAs -> EntryRec] /\ life \in [SAs -> Lives]
        /\ held \in [Threads -> SUBSET SAs] /\ t \in All
    BY DEF OwnInv, Typed, All
  <1>2. /\ Idle(t) /\ life[s] = "none" /\ life' = [life EXCEPT ![s] = "new"]
        /\ held' = [held EXCEPT ![t] = @ \cup {s}] /\ UNCHANGED <<table, entry, call>>
    BY DEF CreateNew
  <1>3. Users(s) = {}
    BY <1>2, NoUsers
  <1>4. /\ life' \in [SAs -> Lives] /\ life'[s] = "new"
        /\ \A x \in SAs \ {s} : life'[x] = life[x]
    BY <1>1, <1>2 DEF Lives
  <1>5. Apart(t, s)
    BY <1>1, <1>2, <1>4 DEF Apart
  <1>6. Users(s)' = {t}
    BY <1>1, <1>2, <1>3 DEF Users
  <1>7. HeldAt(s)'
    BY <1>4, <1>6 DEF HeldAt, Users
  <1>8. CallAt(t)' /\ Moves(t, call[t], {}) /\ call[t] \in CallRec
    BY <1>1, <1>2, <1>5, StaysIdle, SameMoves
  <1>9. table' \in [Segments -> Seq(SAs)] /\ \A g \in Segments : RowSound(g)'
    BY <1>2, <1>4, RowsKept
  <1>10. OwnInv'
    BY <1>1, <1>5, <1>7, <1>8, <1>9, StepSound
  <1>11. Owns(t, s)
    BY <1>2, <1>3, <1>4, <1>6 DEF Owns, Alive
  <1> QED BY <1>1, <1>5, <1>10, <1>11 DEF Owned

\* put_entry() of an IKE_SA that is not in the table.
LEMMA PutEntryRows ==
    ASSUME OwnInv, NEW t \in Threads \cup {NoThread}, NEW s \in SAs, life[s] = "new",
           PutEntry(s, t), shutdown.new_entries_driveout_threads \in BOOLEAN
    PROVE  /\ table' \in [Segments -> Seq(SAs)] /\ \A g \in Segments : RowSound(g)'
           /\ entry' \in [SAs -> EntryRec] /\ entry'[s].checked_out = t
           /\ \A x \in SAs \ {s} : entry'[x].checked_out = entry[x].checked_out
  <1>1. /\ entry \in [SAs -> EntryRec] /\ life \in [SAs -> Lives]
        /\ table \in [Segments -> Seq(SAs)] /\ Row[s] \in Segments
    BY SegmentsAssumption DEF OwnInv, Typed
  <1> DEFINE d == shutdown.new_entries_driveout_threads
             e == [NoEntry EXCEPT !.checked_out = t, !.driveout_threads = d]
  <1>2. e \in EntryRec /\ e.checked_out = t
    <2>1. d \in BOOLEAN
      OBVIOUS
    <2> HIDE DEF d
    <2> QED BY <2>1, NewEntry
  <1> HIDE DEF e
  <1>3. entry' = [entry EXCEPT ![s] = e]
    BY DEF PutEntry, e
  <1>4. /\ entry' \in [SAs -> EntryRec] /\ entry'[s].checked_out = t
        /\ \A x \in SAs \ {s} : entry'[x].checked_out = entry[x].checked_out
    BY <1>1, <1>2, <1>3
  <1> DEFINE q == table[Row[s]]  r == <<s>> \o q
  <1>5. q \in Seq(SAs) /\ IsInjective(q) /\ s \notin Range(q)
    BY <1>1 DEF OwnInv, RowSound
  <1>6. r \in Seq(SAs) /\ IsInjective(r) /\ Range(r) = Range(q) \cup {s}
    BY <1>5, RowWith
  <1>7. /\ table' = [table EXCEPT ![Row[s]] = r] /\ life'[s] = "listed"
        /\ \A x \in SAs \ {s} : life'[x] = life[x]
    BY <1>1 DEF PutEntry
  <1>8. table' \in [Segments -> Seq(SAs)] /\ \A g \in Segments : RowSound(g)'
    <2> HIDE DEF r
    <2> QED BY <1>6, <1>7, RowChanged
  <1> QED BY <1>4, <1>8

\* checkout_new()
LEMMA CheckoutNewOwned ==
    ASSUME OwnInv, NEW t \in Threads, NEW s \in SAs, CheckoutNew(t, s),
           shutdown.new_entries_driveout_threads \in BOOLEAN
    PROVE  OwnInv' /\ Owned
  <1>1. /\ call \in [All -> CallRec] /\ life \in [SAs -> Lives]
        /\ held \in [Threads -> SUBSET SAs] /\ t \in All
    BY DEF OwnInv, Typed, All
  <1>2. /\ Idle(t) /\ s \in held[t] /\ life[s] = "new" /\ PutEntry(s, t)
        /\ life' = [life EXCEPT ![s] = "listed"] /\ UNCHANGED <<call, held>>
    BY DEF CheckoutNew, PutEntry
  <1>3. /\ table' \in [Segments -> Seq(SAs)] /\ \A g \in Segments : RowSound(g)'
        /\ entry' \in [SAs -> EntryRec] /\ entry'[s].checked_out = t
        /\ \A x \in SAs \ {s} : entry'[x].checked_out = entry[x].checked_out
    BY <1>2, PutEntryRows
  <1>4. /\ life' \in [SAs -> Lives] /\ life'[s] = "listed"
        /\ \A x \in SAs \ {s} : life'[x] = life[x]
    BY <1>1, <1>2 DEF Lives
  <1>5. Apart(t, s)
    BY <1>1, <1>2, <1>3, <1>4 DEF Apart
  <1>6. Users(s) = {t} /\ Users(s)' = {t}
    BY <1>2, OneUser DEF Users
  <1>7. HeldAt(s)'
    BY <1>3, <1>4, <1>6 DEF HeldAt, Users
  <1>8. CallAt(t)' /\ Moves(t, call[t], {}) /\ call[t] \in CallRec
    BY <1>1, <1>2, <1>5, StaysIdle, SameMoves
  <1>9. OwnInv'
    BY <1>1, <1>3, <1>5, <1>7, <1>8, StepSound
  <1>10. Owns(t, s)
    BY <1>2, <1>4, <1>6 DEF Owns, Alive
  <1> QED BY <1>1, <1>5, <1>9, <1>10 DEF Owned

\* checkout()
LEMMA CheckoutOwned ==
    ASSUME OwnInv, NEW t \in Threads, NEW s \in SAs, Checkout(t, s)
    PROVE  OwnInv' /\ Owned
  <1>1. /\ call \in [All -> CallRec] /\ entry \in [SAs -> EntryRec] /\ t \in All
        /\ Idle(t) /\ UNCHANGED <<table, life>> /\ call[t] \in CallRec
        /\ entry[s] \in EntryRec
    BY DEF OwnInv, Typed, All, Checkout
  <1>2. CASE UNCHANGED <<entry, call, held>>
    <2>1. Moves(t, call[t], {}) /\ CallAt(t)'
      BY <1>1, <1>2, SameMoves DEF OwnInv, CallAt
    <2> QED BY <1>1, <1>2, <2>1, NothingOwned
  <1>3. CASE /\ life[s] = "listed" /\ Busy(s)
             /\ entry' = [entry EXCEPT ![s].waiting_threads = @ + 1]
             /\ call' = [call EXCEPT ![t] = Asleep([NoCall EXCEPT !.op = "checkout"], s)]
             /\ UNCHANGED held
    <2> DEFINE c == Asleep([NoCall EXCEPT !.op = "checkout"], s)
               e == [entry[s] EXCEPT !.waiting_threads = @ + 1]
    <2>1. c \in CallRec /\ c.op = "checkout" /\ c.at = s
      <3> DEFINE b == [NoCall EXCEPT !.op = "checkout"]
      <3>1. b \in CallRec /\ b.op = "checkout"
        BY NewCalls
      <3> HIDE DEF b
      <3>2. Asleep(b, s) \in CallRec /\ Asleep(b, s).op = "checkout" /\ Asleep(b, s).at = s
        BY <3>1, AsleepCall
      <3> QED BY <3>2 DEF b
    <2>2. e \in EntryRec /\ e.checked_out = entry[s].checked_out
      <3>1. entry[s].waiting_threads + 1 \in Int
        BY <1>1, EntryFields
      <3> QED BY <1>1, <3>1, EntryFields
    <2>3. entry' = [entry EXCEPT ![s] = e] /\ call' = [call EXCEPT ![t] = c]
      BY <1>3
    <2> HIDE DEF c, e
    <2>4. Moves(t, c, {})
      BY <1>1, <2>1, <2>3, ExceptMoves
    <2>5. CallAt(t)'
      BY <1>1, <1>3, <2>1, <2>4, FallsAsleep
    <2>6. /\ entry' \in [SAs -> EntryRec]
          /\ \A x \in SAs : entry'[x].checked_out = entry[x].checked_out
      BY <1>1, <2>2, <2>3
    <2> QED BY <1>1, <1>3, <2>1, <2>4, <2>5, <2>6, NothingOwned
  <1>4. CASE /\ life[s] = "listed" /\ ~Busy(s) /\ ~entry[s].driveout_threads
             /\ Take(t, s, entry) /\ UNCHANGED call
    <2> DEFINE e == [entry[s] EXCEPT !.checked_out = t]
    <2>1. e \in EntryRec /\ e.checked_out = t
      BY <1>1, EntryFields
    <2>2. entry' = [entry EXCEPT ![s] = e] /\ held' = [held EXCEPT ![t] = @ \cup {s}]
      BY <1>4 DEF Take
    <2> HIDE DEF e
    <2>3. /\ entry' \in [SAs -> EntryRec] /\ entry'[s].checked_out = t
          /\ \A x \in SAs \ {s} : entry'[x].checked_out = entry[x].checked_out
      BY <1>1, <2>1, <2>2
    <2>4. Moves(t, call[t], {}) /\ entry[s].checked_out = NoThread
      BY <1>1, <1>4, SameMoves DEF Busy
    <2> DEFINE c == call[t]  W == {}
    <2>5. /\ c \in CallRec /\ Moves(t, c, W) /\ Idle(t) /\ c = call[t]
          /\ \A u \in All : u \in W => call[u].state = "asleep"
      BY <1>1, <2>4
    <2> HIDE DEF c, W
    <2>6. life[s] = "listed" /\ UNCHANGED <<table, life>>
      BY <1>1, <1>4 DEF Take
    <2> QED BY <2>2, <2>3, <2>4, <2>5, <2>6, TakeOwned
  <1> QED BY <1>2, <1>3, <1>4 DEF Checkout

\* The entries when a thread begins or ends waiting at s.
LEMMA WaitingEntry ==
    ASSUME NEW E \in [SAs -> EntryRec], NEW s \in SAs, NEW n \in {-1, 1},
           NEW F, F = [E EXCEPT ![s].waiting_threads = @ + n]
    PROVE  /\ F \in [SAs -> EntryRec]
           /\ \A x \in SAs : F[x].checked_out = E[x].checked_out
           /\ \A x \in SAs : F[x].driveout_threads = E[x].driveout_threads
           /\ \A x \in SAs \ {s} : F[x] = E[x]
           /\ F[s].waiting_threads = E[s].waiting_threads + n
  <1> DEFINE e == [E[s] EXCEPT !.waiting_threads = @ + n]
  <1>1. E[s].waiting_threads + n \in Int /\ E[s] \in EntryRec
    BY EntryFields
  <1>2. /\ e \in EntryRec /\ e.checked_out = E[s].checked_out
        /\ e.driveout_threads = E[s].driveout_threads
        /\ e.waiting_threads = E[s].waiting_threads + n
    BY <1>1, EntryFields
  <1>3. F = [E EXCEPT ![s] = e]
    OBVIOUS
  <1> HIDE DEF e
  <1> QED BY <1>2, <1>3

\* A thread that leaves an entry.
LEMMA NotWaitingEntry ==
    ASSUME entry \in [SAs -> EntryRec], NEW s \in SAs
    PROVE  /\ NotWaiting(s) \in [SAs -> EntryRec]
           /\ \A x \in SAs : NotWaiting(s)[x].checked_out = entry[x].checked_out
           /\ \A x \in SAs : NotWaiting(s)[x].driveout_threads = entry[x].driveout_threads
           /\ \A x \in SAs \ {s} : NotWaiting(s)[x] = entry[x]
           /\ NotWaiting(s)[s].waiting_threads = entry[s].waiting_threads - 1
  <1> DEFINE e == [entry[s] EXCEPT !.waiting_threads = @ - 1]
  <1>1. entry[s].waiting_threads - 1 \in Int /\ entry[s] \in EntryRec
    BY EntryFields
  <1>2. /\ e \in EntryRec /\ e.checked_out = entry[s].checked_out
        /\ e.driveout_threads = entry[s].driveout_threads
        /\ e.waiting_threads = entry[s].waiting_threads - 1
    BY <1>1, EntryFields
  <1>3. NotWaiting(s) = [entry EXCEPT ![s] = e]
    BY DEF NotWaiting
  <1> HIDE DEF e
  <1> QED BY <1>2, <1>3

\* A thread that checks an entry out.
LEMMA TakenEntry ==
    ASSUME NEW E \in [SAs -> EntryRec], NEW s \in SAs, NEW t \in Threads \cup {NoThread},
           NEW F, F = [E EXCEPT ![s].checked_out = t]
    PROVE  /\ F \in [SAs -> EntryRec] /\ F[s].checked_out = t
           /\ \A x \in SAs : F[x].driveout_threads = E[x].driveout_threads
           /\ \A x \in SAs : F[x].waiting_threads = E[x].waiting_threads
           /\ \A x \in SAs \ {s} : F[x] = E[x]
  <1> DEFINE e == [E[s] EXCEPT !.checked_out = t]
  <1>1. /\ e \in EntryRec /\ e.checked_out = t /\ e.driveout_threads = E[s].driveout_threads
        /\ e.waiting_threads = E[s].waiting_threads
    BY EntryFields
  <1>2. F = [E EXCEPT ![s] = e]
    OBVIOUS
  <1> HIDE DEF e
  <1> QED BY <1>1, <1>2

\* A thread that waited in checkout()
LEMMA WakeCheckoutOwned ==
    ASSUME OwnInv, NEW t \in Threads, WakeCheckout(t)
    PROVE  OwnInv' /\ Owned
  <1>1. PICK s \in SAs : s = call[t].at
    BY WakingAt DEF WakeCheckout, All
  <1>2. /\ life[s] = "listed" /\ call[t] \in CallRec /\ call[t].op = "checkout" /\ t \in All
        /\ call \in [All -> CallRec] /\ entry \in [SAs -> EntryRec]
        /\ UNCHANGED <<table, life>>
    BY <1>1, WakingAt DEF WakeCheckout, All, OwnInv, Typed
  <1>3. CASE call' = [call EXCEPT ![t].state = "asleep"] /\ UNCHANGED <<entry, held>>
    <2> DEFINE c == [call[t] EXCEPT !.state = "asleep"]  W == {}
    <2>1. c \in CallRec /\ c.at = s /\ c.op # "destroy"
      BY <1>1, <1>2 DEF CallRec
    <2>2. call' = [call EXCEPT ![t] = c]
      BY <1>3
    <2> HIDE DEF c
    <2>3. Moves(t, c, W) /\ \A u \in All : u \in W => call[u].state = "asleep"
      BY <1>2, <2>1, <2>2, ExceptMoves
    <2>4. CallAt(t)'
      BY <1>2, <2>1, <2>3, FallsAsleep
    <2> HIDE DEF W
    <2> QED BY <1>2, <1>3, <2>1, <2>3, <2>4, NothingOwned
  <1>4. CASE /\ entry' = NotWaiting(s) /\ UNCHANGED held
             /\ \E W \in Signal(s) : call' = Calls(t, NoCall, W)
    <2>1. PICK W \in Signal(s) : call' = Calls(t, NoCall, W)
      BY <1>4
    <2>2. Moves(t, NoCall, W) /\ \A u \in All : u \in W => call[u].state = "asleep"
      BY <1>2, <2>1, CallsMoves, NewCalls, WokenSleep
    <2>3. CallAt(t)'
      BY <1>2, <2>2, NewCalls, RunsOn
    <2>4. /\ entry' \in [SAs -> EntryRec]
          /\ \A x \in SAs : entry'[x].checked_out = entry[x].checked_out
      BY <1>2, <1>4, NotWaitingEntry
    <2> QED BY <1>2, <1>4, <2>2, <2>3, <2>4, NewCalls, NothingOwned
  <1>5. CASE /\ ~BusyAgain(s) /\ ~entry[s].driveout_threads
             /\ Take(t, s, NotWaiting(s)) /\ call' = [call EXCEPT ![t] = NoCall]
    <2> DEFINE E == NotWaiting(s)  W == {}
    <2>1. E \in [SAs -> EntryRec] /\ \A x \in SAs : E[x].checked_out = entry[x].checked_out
      BY <1>2, NotWaitingEntry
    <2>2. entry' = [E EXCEPT ![s].checked_out = t] /\ held' = [held EXCEPT ![t] = @ \cup {s}]
      BY <1>5 DEF Take
    <2> HIDE DEF E
    <2>3. /\ entry' \in [SAs -> EntryRec] /\ entry'[s].checked_out = t
          /\ \A x \in SAs \ {s} : entry'[x].checked_out = entry[x].checked_out
      BY <2>1, <2>2, TakenEntry
    <2>4. Moves(t, NoCall, W) /\ \A u \in All : u \in W => call[u].state = "asleep"
      BY <1>2, <1>5, ExceptMoves, NewCalls
    <2>5. entry[s].checked_out = NoThread
      BY <1>5 DEF BusyAgain, Busy
    <2> DEFINE c == NoCall
    <2>6. c \in CallRec /\ c.state = "run" /\ c.op # "destroy" /\ Moves(t, c, W)
      BY <2>4, NewCalls
    <2> HIDE DEF W, c
    <2>7. (c.state = "run" /\ c.op # "destroy") \/ (Idle(t) /\ c = call[t])
      BY <2>6
    <2> QED BY <1>2, <2>2, <2>3, <2>4, <2>5, <2>6, <2>7, TakeOwned
  <1> QED BY <1>1, <1>3, <1>4, <1>5 DEF WakeCheckout

\* A thread begins to enumerate the table.
LEMMA EnumerateOwned ==
    ASSUME OwnInv, NEW t \in Threads, NEW goal \in SAs, Enumerate(t, goal)
    PROVE  OwnInv' /\ Owned
  <1> DEFINE b == [NoCall EXCEPT !.op = "enumerate"]
             c == [NoCall EXCEPT !.op = "enumerate", !.goal = goal, !.segment = 1]
             W == {}
  <1>1. /\ call \in [All -> CallRec] /\ entry \in [SAs -> EntryRec] /\ t \in All
    BY DEF OwnInv, Typed, All
  <1>2. c \in CallRec /\ c.state = "run" /\ c.op # "destroy"
    <2>1. 1 \in 0..SegmentCount + 1
      BY SegmentsAssumption
    <2>2. b \in CallRec /\ b.state = "run" /\ b.op = "enumerate"
      BY NewCalls
    <2>3. c = [b EXCEPT !.goal = goal, !.segment = 1]
      BY DEF NoCall
    <2> HIDE DEF b, c
    <2> QED BY <2>1, <2>2, <2>3 DEF CallRec
  <1>3. call' = [call EXCEPT ![t] = c] /\ UNCHANGED <<table, entry, life, held>>
    BY DEF Enumerate
  <1> HIDE DEF c
  <1>4. Moves(t, c, W) /\ \A u \in All : u \in W => call[u].state = "asleep"
    BY <1>1, <1>2, <1>3, ExceptMoves
  <1>5. CallAt(t)'
    BY <1>1, <1>2, <1>4, RunsOn
  <1> HIDE DEF W
  <1> QED BY <1>1, <1>2, <1>3, <1>4, <1>5, NothingOwned

\* A thread that enumerates visits entry s of the table.
LEMMA VisitOwned ==
    ASSUME OwnInv, NEW t \in Threads, NEW s \in SAs, NEW g, NEW E \in [SAs -> EntryRec],
           \A x \in SAs : E[x].checked_out = entry[x].checked_out,
           life[s] = "listed", call[t].op = "enumerate", Visit(t, s, g, E),
           UNCHANGED <<table, life>>
    PROVE  OwnInv' /\ Owned
  <1>1. /\ call \in [All -> CallRec] /\ call[t] \in CallRec /\ t \in All
    BY DEF OwnInv, Typed, All
  <1>2. ASSUME NEW c \in CallRec, NEW W \in Signal(call[t].at) \cup {{}},
               call' = Calls(t, c, W)
        PROVE  Moves(t, c, W) /\ \A u \in All : u \in W => call[u].state = "asleep"
    BY <1>1, <1>2, CallsMoves, WokenSleep
  <1>3. CASE /\ entry' = [E EXCEPT ![s].waiting_threads = @ + 1]
             /\ \E W \in Leaving(t, s) : call' = Calls(t, Asleep(call[t], s), W)
             /\ UNCHANGED held
    <2> DEFINE c == Asleep(call[t], s)
    <2>1. c \in CallRec /\ c.op = "enumerate" /\ c.at = s
      BY <1>1, AsleepCall
    <2>2. PICK W \in Signal(call[t].at) \cup {{}} : call' = Calls(t, c, W)
      BY <1>3 DEF Leaving
    <2> HIDE DEF c
    <2>3. Moves(t, c, W) /\ \A u \in All : u \in W => call[u].state = "asleep"
      BY <1>2, <2>1, <2>2
    <2>4. CallAt(t)'
      BY <1>1, <2>1, <2>3, FallsAsleep
    <2>5. /\ entry' \in [SAs -> EntryRec]
          /\ \A x \in SAs : entry'[x].checked_out = entry[x].checked_out
      BY <1>3, WaitingEntry
    <2> QED BY <1>1, <1>3, <2>1, <2>3, <2>4, <2>5, NothingOwned
  <1>4. CASE /\ entry' = E /\ UNCHANGED held
             /\ \E W \in Signal(call[t].at) :
                   call' = Calls(t, [call[t] EXCEPT !.at = s, !.state = "run"], W)
    <2> DEFINE c == [call[t] EXCEPT !.at = s, !.state = "run"]
    <2>1. c \in CallRec /\ c.op # "destroy" /\ c.state = "run"
      BY <1>1 DEF CallRec
    <2>2. PICK W \in Signal(call[t].at) : call' = Calls(t, c, W)
      BY <1>4
    <2> HIDE DEF c
    <2>3. Moves(t, c, W) /\ \A u \in All : u \in W => call[u].state = "asleep"
      BY <1>2, <2>1, <2>2
    <2>4. CallAt(t)'
      BY <1>1, <2>1, <2>3, RunsOn
    <2> QED BY <1>1, <1>4, <2>1, <2>3, <2>4, NothingOwned
  <1>5. CASE /\ ~Busy(s) /\ ~entry[s].driveout_threads
             /\ \E W \in Signal(call[t].at) : call' = Calls(t, NoCall, W)
             /\ Take(t, s, E)
    <2>1. PICK W \in Signal(call[t].at) : call' = Calls(t, NoCall, W)
      BY <1>5
    <2>2. /\ NoCall \in CallRec /\ NoCall.state = "run" /\ NoCall.op # "destroy"
      BY NewCalls
    <2>3. Moves(t, NoCall, W) /\ \A u \in All : u \in W => call[u].state = "asleep"
      BY <1>2, <2>1, <2>2
    <2>4. /\ entry' \in [SAs -> EntryRec] /\ entry'[s].checked_out = t
          /\ \A x \in SAs \ {s} : entry'[x].checked_out = entry[x].checked_out
          /\ held' = [held EXCEPT ![t] = @ \cup {s}]
      BY <1>5, TakenEntry DEF Take
    <2>5. entry[s].checked_out = NoThread
      BY <1>5 DEF Busy
    <2> DEFINE c == NoCall
    <2>6. c \in CallRec /\ c.state = "run" /\ c.op # "destroy" /\ Moves(t, c, W)
      BY <2>2, <2>3
    <2> HIDE DEF c
    <2>7. (c.state = "run" /\ c.op # "destroy") \/ (Idle(t) /\ c = call[t])
      BY <2>6
    <2> QED BY <2>3, <2>4, <2>5, <2>6, <2>7, TakeOwned
  <1> QED BY <1>3, <1>4, <1>5 DEF Visit

\* The next step of an enumeration
LEMMA EnumerateNextOwned ==
    ASSUME OwnInv, NEW t \in Threads, EnumerateNext(t)
    PROVE  OwnInv' /\ Owned
  <1> DEFINE g == call[t].segment
             n == IF call[t].at = NoSA
                  THEN IF g \in Segments /\ table[g] # <<>> THEN table[g][1] ELSE NoSA
                  ELSE Following(call[t].at)
  <1>1. /\ call \in [All -> CallRec] /\ entry \in [SAs -> EntryRec] /\ t \in All
        /\ call[t] \in CallRec /\ call[t].op = "enumerate" /\ call[t].state = "run"
        /\ UNCHANGED <<table, life>>
    BY DEF OwnInv, Typed, All, EnumerateNext
  <1>2. n # NoSA => n \in SAs /\ life[n] = "listed"
    BY <1>1, RowEntries, CallFields
  <1>3. CASE Visit(t, n, g, entry)
    <2>1. n \in SAs /\ life[n] = "listed"
      BY <1>2, <1>3 DEF Visit
    <2> HIDE DEF n
    <2>2. PICK s \in SAs : s = n
      BY <2>1
    <2>3. Visit(t, s, g, entry) /\ life[s] = "listed"
      BY <1>3, <2>1, <2>2
    <2> HIDE DEF g
    <2> QED BY <1>1, <2>3, VisitOwned
  <1>4. CASE /\ g \in Segments /\ UNCHANGED <<entry, held>>
             /\ \E W \in Signal(call[t].at) :
                   call' = Calls(t, [call[t] EXCEPT !.at = NoSA, !.segment = g + 1], W)
    <2> DEFINE c == [call[t] EXCEPT !.at = NoSA, !.segment = g + 1]
    <2>1. c \in CallRec /\ c.op # "destroy" /\ c.state = "run"
      <3>1. g + 1 \in 0..SegmentCount + 1
        BY <1>4, SegmentsAssumption DEF Segments
      <3> HIDE DEF g
      <3> QED BY <1>1, <3>1 DEF CallRec
    <2>2. PICK W \in Signal(call[t].at) : call' = Calls(t, c, W)
      BY <1>4
    <2> HIDE DEF c
    <2>3. Moves(t, c, W) /\ \A u \in All : u \in W => call[u].state = "asleep"
      BY <1>1, <2>1, <2>2, CallsMoves, WokenSleep
    <2>4. CallAt(t)'
      BY <1>1, <2>1, <2>3, RunsOn
    <2> QED BY <1>1, <1>4, <2>1, <2>3, <2>4, NothingOwned
  <1>5. CASE call' = [call EXCEPT ![t] = NoCall] /\ UNCHANGED <<entry, held>>
    <2> DEFINE W == {}
    <2>1. Moves(t, NoCall, W) /\ \A u \in All : u \in W => call[u].state = "asleep"
      BY <1>1, <1>5, ExceptMoves, NewCalls
    <2>2. CallAt(t)'
      BY <1>1, <2>1, NewCalls, RunsOn
    <2> HIDE DEF W
    <2> QED BY <1>1, <1>5, <2>1, <2>2, NewCalls, NothingOwned
  <1> QED BY <1>3, <1>4, <1>5 DEF EnumerateNext

\* A thread that waited in an enumeration
LEMMA WakeEnumerateOwned ==
    ASSUME OwnInv, NEW t \in Threads, WakeEnumerate(t)
    PROVE  OwnInv' /\ Owned
  <1>1. PICK s \in SAs : s = call[t].at
    BY WakingAt DEF WakeEnumerate, All
  <1>2. /\ life[s] = "listed" /\ call[t].op = "enumerate" /\ entry \in [SAs -> EntryRec]
        /\ UNCHANGED <<table, life>>
    BY <1>1, WakingAt DEF WakeEnumerate, All, OwnInv, Typed
  <1> DEFINE E == NotWaiting(s)
  <1>3. E \in [SAs -> EntryRec] /\ \A x \in SAs : E[x].checked_out = entry[x].checked_out
    BY <1>2, NotWaitingEntry
  <1>4. Visit(t, s, call[t].segment, E)
    BY <1>1 DEF WakeEnumerate
  <1> HIDE DEF E
  <1> QED BY <1>2, <1>3, <1>4, VisitOwned

\* check_uniqueness() looks up the duplicates.
LEMMA CheckUniquenessOwned ==
    ASSUME OwnInv, NEW t \in Threads, NEW s \in SAs, CheckUniqueness(t, s)
    PROVE  OwnInv' /\ Owned
  BY DEF CheckUniqueness, OwnInv, Owned, Typed, HeldAt, RowSound, CallAt

\* checkin()
LEMMA CheckinOwned ==
    ASSUME OwnInv, NEW t \in Threads, NEW s \in SAs, Checkin(t, s),
           shutdown.new_entries_driveout_threads \in BOOLEAN
    PROVE  OwnInv' /\ Owned
  <1>1. /\ call \in [All -> CallRec] /\ entry \in [SAs -> EntryRec] /\ t \in All
        /\ call[t] \in CallRec /\ life \in [SAs -> Lives]
        /\ Idle(t) /\ s \in held[t] /\ held' = [held EXCEPT ![t] = @ \ {s}]
    BY DEF OwnInv, Typed, All, Checkin, Return
  <1>2. CASE /\ life[s] = "listed" /\ entry' = [entry EXCEPT ![s].checked_out = NoThread]
             /\ \E W \in Signal(s) : call' = Calls(t, NoCall, W)
             /\ UNCHANGED <<table, life>>
    <2>1. PICK W \in Signal(s) : call' = Calls(t, NoCall, W)
      BY <1>2
    <2> DEFINE c == NoCall  l == "listed"
    <2>2. c \in CallRec /\ c.state = "run" /\ c.op # "destroy"
      BY NewCalls
    <2>3. Moves(t, c, W) /\ \A u \in All : u \in W => call[u].state = "asleep"
      BY <1>1, <2>1, <2>2, CallsMoves, WokenSleep
    <2>4. /\ entry' \in [SAs -> EntryRec]
          /\ \A x \in SAs \ {s} : entry'[x].checked_out = entry[x].checked_out
      <3> DEFINE n == NoThread
      <3>1. /\ entry' = [entry EXCEPT ![s].checked_out = n]
            /\ entry \in [SAs -> EntryRec] /\ n \in Threads \cup {NoThread}
        BY <1>1, <1>2
      <3> HIDE DEF n, c, l
      <3>2. entry' \in [SAs -> EntryRec] /\ \A x \in SAs \ {s} : entry'[x] = entry[x]
        BY <3>1, TakenEntry
      <3> QED BY <3>2
    <2>5. table' \in [Segments -> Seq(SAs)] /\ \A g \in Segments : RowSound(g)'
      BY <1>2, RowsKept
    <2>6. life' = [life EXCEPT ![s] = l] /\ l \in {"listed", "destroyed"}
      <3>1. life \in [SAs -> Lives] /\ life' = life /\ life[s] = "listed"
        BY <1>1, <1>2
      <3> QED BY <3>1
    <2> HIDE DEF c, l
    <2>7. (c.state = "run" /\ c.op # "destroy") \/ (Idle(t) /\ c = call[t])
      BY <2>2
    <2> QED BY <1>1, <2>2, <2>3, <2>4, <2>5, <2>6, <2>7, ReturnOwned
  <1>3. CASE life[s] = "new" /\ PutEntry(s, NoThread) /\ UNCHANGED call
    <2> DEFINE c == call[t]  W == {}  l == "listed"
    <2>1. Moves(t, c, W) /\ \A u \in All : u \in W => call[u].state = "asleep"
      BY <1>1, <1>3, SameMoves
    <2>2. /\ table' \in [Segments -> Seq(SAs)] /\ \A g \in Segments : RowSound(g)'
          /\ entry' \in [SAs -> EntryRec]
          /\ \A x \in SAs \ {s} : entry'[x].checked_out = entry[x].checked_out
      BY <1>3, PutEntryRows
    <2>3. life' = [life EXCEPT ![s] = l] /\ l \in {"listed", "destroyed"}
      BY <1>3 DEF PutEntry
    <2>4. c \in CallRec /\ c = call[t]
      BY <1>1
    <2> HIDE DEF c, W, l
    <2>5. (c.state = "run" /\ c.op # "destroy") \/ (Idle(t) /\ c = call[t])
      BY <1>1, <2>4
    <2> QED BY <1>1, <2>1, <2>2, <2>3, <2>4, <2>5, ReturnOwned
  <1> QED BY <1>2, <1>3 DEF Checkin

\* remove_entry()
LEMMA RemoveEntryRows ==
    ASSUME OwnInv, NEW s \in SAs, RemoveEntry(s)
    PROVE  /\ table' \in [Segments -> Seq(SAs)] /\ \A g \in Segments : RowSound(g)'
           /\ life' = [life EXCEPT ![s] = "destroyed"]
  <1> DEFINE q == table[Row[s]]  r == RemoveAt(q, Position(q, s))
  <1>1. /\ table \in [Segments -> Seq(SAs)] /\ Row[s] \in Segments /\ life \in [SAs -> Lives]
        /\ q \in Seq(SAs) /\ IsInjective(q)
    BY SegmentsAssumption DEF OwnInv, Typed, RowSound
  <1>2. r \in Seq(SAs) /\ IsInjective(r) /\ Range(r) = Range(q) \ {s}
    BY <1>1, RowWithout
  <1>3. /\ table' = [table EXCEPT ![Row[s]] = r] /\ life' = [life EXCEPT ![s] = "destroyed"]
    BY DEF RemoveEntry, DestroyEntry
  <1> HIDE DEF r
  <1>4. \A x \in SAs \ {s} : life'[x] = life[x]
    BY <1>1, <1>3
  <1> QED BY <1>2, <1>3, <1>4, RowChanged

\* remove_entry_at()
LEMMA RemoveEntryAtRows ==
    ASSUME OwnInv, NEW s \in SAs, RemoveEntryAt(s)
    PROVE  /\ table' \in [Segments -> Seq(SAs)] /\ \A g \in Segments : RowSound(g)'
           /\ life' = [life EXCEPT ![s] = "destroyed"]
  <1> DEFINE q == table[Row[s]]  r == SubSeq(q, Position(q, s) + 1, Len(q))
  <1>1. /\ table \in [Segments -> Seq(SAs)] /\ Row[s] \in Segments /\ life \in [SAs -> Lives]
        /\ q \in Seq(SAs) /\ IsInjective(q)
    BY SegmentsAssumption DEF OwnInv, Typed, RowSound
  <1>2. r \in Seq(SAs) /\ IsInjective(r) /\ Range(r) \subseteq Range(q) \ {s}
    <2> HIDE DEF q
    <2>1. q \in Seq(SAs) /\ IsInjective(q) /\ r = After(q, s)
      BY <1>1 DEF After
    <2> HIDE DEF r
    <2> QED BY <2>1, RowAfter
  <1>3. /\ table' = [table EXCEPT ![Row[s]] = r] /\ life' = [life EXCEPT ![s] = "destroyed"]
    BY DEF RemoveEntryAt, DestroyEntry
  <1> HIDE DEF r
  <1>4. \A x \in SAs \ {s} : life'[x] = life[x]
    BY <1>1, <1>3
  <1> QED BY <1>2, <1>3, <1>4, RowChanged

\* The thread that holds an IKE_SA destroys it.
LEMMA DestroyOwned ==
    ASSUME OwnInv, NEW t \in Threads, NEW s \in SAs, NEW c \in CallRec, NEW W,
           Moves(t, c, W), \A u \in All : u \in W => call[u].state = "asleep",
           (c.state = "run" /\ c.op # "destroy") \/ (Idle(t) /\ c = call[t]),
           s \in held[t], Return(t, s), entry' \in [SAs -> EntryRec],
           \A x \in SAs \ {s} : entry'[x].checked_out = entry[x].checked_out,
           \/ RemoveEntry(s)
           \/ life[s] = "new" /\ life' = [life EXCEPT ![s] = "destroyed"] /\ UNCHANGED table
    PROVE  OwnInv' /\ Owned
  <1> DEFINE l == "destroyed"
  <1>1. held' = [held EXCEPT ![t] = @ \ {s}] /\ life \in [SAs -> Lives]
    BY DEF Return, OwnInv, Typed
  <1>2. /\ table' \in [Segments -> Seq(SAs)] /\ \A g \in Segments : RowSound(g)'
        /\ life' = [life EXCEPT ![s] = l]
    <2>1. CASE RemoveEntry(s)
      BY <2>1, RemoveEntryRows
    <2>2. CASE life[s] = "new" /\ life' = [life EXCEPT ![s] = "destroyed"] /\ UNCHANGED table
      <3>1. \A x \in SAs : life[x] = "listed" => life'[x] = "listed"
        BY <1>1, <2>2
      <3> QED BY <2>2, <3>1, RowsKept
    <2> QED BY <2>1, <2>2
  <1>3. l \in {"listed", "destroyed"}
    OBVIOUS
  <1> HIDE DEF l
  <1> QED BY <1>1, <1>2, <1>3, ReturnOwned

\* Threads are driven out of an entry.
LEMMA MarkedEntry ==
    ASSUME NEW E \in [SAs -> EntryRec], NEW s \in SAs,
           NEW F, F = [E EXCEPT ![s].driveout_threads = TRUE]
    PROVE  /\ F \in [SAs -> EntryRec] /\ F[s].driveout_threads
           /\ \A x \in SAs : F[x].checked_out = E[x].checked_out
           /\ \A x \in SAs : F[x].waiting_threads = E[x].waiting_threads
           /\ \A x \in SAs \ {s} : F[x] = E[x]
  <1> DEFINE e == [E[s] EXCEPT !.driveout_threads = TRUE]
  <1>1. /\ e \in EntryRec /\ e.checked_out = E[s].checked_out /\ e.driveout_threads
        /\ e.waiting_threads = E[s].waiting_threads
    BY EntryFields
  <1>2. F = [E EXCEPT ![s] = e]
    OBVIOUS
  <1> HIDE DEF e
  <1> QED BY <1>1, <1>2

\* checkin_and_destroy()
LEMMA CheckinAndDestroyOwned ==
    ASSUME OwnInv, NEW t \in Threads, NEW s \in SAs, CheckinAndDestroy(t, s)
    PROVE  OwnInv' /\ Owned
  <1>1. /\ call \in [All -> CallRec] /\ entry \in [SAs -> EntryRec] /\ t \in All
        /\ call[t] \in CallRec /\ life \in [SAs -> Lives]
        /\ Idle(t) /\ s \in held[t]
    BY DEF OwnInv, Typed, All, CheckinAndDestroy
  <1>2. CASE /\ life[s] = "listed" /\ entry' = [entry EXCEPT ![s].checked_out = NoThread]
             /\ call' = Calls(t, NoCall, Broadcast(s))
             /\ Return(t, s) /\ UNCHANGED <<table, life>>
    <2> DEFINE c == NoCall  l == "listed"  W == Broadcast(s)
    <2>1. c \in CallRec /\ c.state = "run" /\ c.op # "destroy"
      BY NewCalls
    <2>2. Moves(t, c, W) /\ \A u \in All : u \in W => call[u].state = "asleep"
      BY <1>1, <1>2, <2>1, CallsMoves, WokenSleep
    <2>3. /\ entry' \in [SAs -> EntryRec]
          /\ \A x \in SAs \ {s} : entry'[x].checked_out = entry[x].checked_out
      <3> DEFINE n == NoThread
      <3>1. /\ entry' = [entry EXCEPT ![s].checked_out = n]
            /\ entry \in [SAs -> EntryRec] /\ n \in Threads \cup {NoThread}
        BY <1>1, <1>2
      <3> HIDE DEF n, c, l
      <3>2. entry' \in [SAs -> EntryRec] /\ \A x \in SAs \ {s} : entry'[x] = entry[x]
        BY <3>1, TakenEntry
      <3> QED BY <3>2
    <2>4. table' \in [Segments -> Seq(SAs)] /\ \A g \in Segments : RowSound(g)'
      BY <1>2, RowsKept
    <2>5. life' = [life EXCEPT ![s] = l] /\ l \in {"listed", "destroyed"}
      BY <1>1, <1>2
    <2>6. held' = [held EXCEPT ![t] = @ \ {s}]
      BY <1>2 DEF Return
    <2> HIDE DEF c, l, W
    <2>7. (c.state = "run" /\ c.op # "destroy") \/ (Idle(t) /\ c = call[t])
      BY <2>1
    <2> QED BY <1>1, <2>1, <2>2, <2>3, <2>4, <2>5, <2>6, <2>7, ReturnOwned
  <1>3. CASE /\ life[s] = "listed" /\ entry' = [entry EXCEPT ![s].driveout_threads = TRUE]
             /\ call' = Calls(t, Asleep([NoCall EXCEPT !.op = "destroy"], s), Broadcast(s))
             /\ UNCHANGED <<table, life, held>>
    <2> DEFINE b == [NoCall EXCEPT !.op = "destroy"]  c == Asleep(b, s)  W == Broadcast(s)
    <2>1. c \in CallRec /\ c.at = s /\ c.op = "destroy"
      <3>1. b \in CallRec /\ b.op = "destroy"
        BY NewCalls
      <3> HIDE DEF b
      <3> QED BY <3>1, AsleepCall
    <2>2. call' = Calls(t, c, W)
      BY <1>3
    <2> HIDE DEF c
    <2>3. Moves(t, c, W) /\ \A u \in All : u \in W => call[u].state = "asleep"
      BY <1>1, <2>1, <2>2, CallsMoves, WokenSleep
    <2>4. CallAt(t)'
      BY <1>1, <1>3, <2>1, <2>3, FallsAsleep
    <2>5. /\ entry' \in [SAs -> EntryRec]
          /\ \A x \in SAs : entry'[x].checked_out = entry[x].checked_out
      <3> DEFINE e == [entry[s] EXCEPT !.driveout_threads = TRUE]
      <3>1. e \in EntryRec /\ e.checked_out = entry[s].checked_out
        BY <1>1, EntryFields
      <3>2. entry' = [entry EXCEPT ![s] = e]
        BY <1>3
      <3> HIDE DEF e
      <3> QED BY <1>1, <3>1, <3>2
    <2> HIDE DEF W
    <2> QED BY <1>1, <1>3, <2>1, <2>3, <2>4, <2>5, NothingOwned
  <1>4. CASE /\ life[s] = "listed" /\ entry' = [entry EXCEPT ![s].driveout_threads = TRUE]
             /\ RemoveEntry(s) /\ Return(t, s) /\ UNCHANGED call
    <2> DEFINE c == call[t]  W == {}
    <2>1. Moves(t, c, W) /\ \A u \in All : u \in W => call[u].state = "asleep"
      BY <1>1, <1>4, SameMoves
    <2>2. /\ entry' \in [SAs -> EntryRec]
          /\ \A x \in SAs \ {s} : entry'[x].checked_out = entry[x].checked_out
      BY <1>1, <1>4, MarkedEntry
    <2>3. c \in CallRec /\ c = call[t]
      BY <1>1
    <2> HIDE DEF c, W
    <2>4. (c.state = "run" /\ c.op # "destroy") \/ (Idle(t) /\ c = call[t])
      BY <1>1, <2>3
    <2> QED BY <1>1, <1>4, <2>1, <2>2, <2>3, <2>4, DestroyOwned
  <1>5. CASE /\ life[s] = "new" /\ life' = [life EXCEPT ![s] = "destroyed"]
             /\ Return(t, s) /\ UNCHANGED <<table, entry, call>>
    <2> DEFINE c == call[t]  W == {}
    <2>1. Moves(t, c, W) /\ \A u \in All : u \in W => call[u].state = "asleep"
      BY <1>1, <1>5, SameMoves
    <2>2. c \in CallRec /\ c = call[t]
      BY <1>1
    <2> HIDE DEF c, W
    <2>3. (c.state = "run" /\ c.op # "destroy") \/ (Idle(t) /\ c = call[t])
      BY <1>1, <2>2
    <2> QED BY <1>1, <1>5, <2>1, <2>2, <2>3, DestroyOwned
  <1> QED BY <1>2, <1>3, <1>4, <1>5 DEF CheckinAndDestroy

\* A thread that waited in checkin_and_destroy()
LEMMA WakeDestroyOwned ==
    ASSUME OwnInv, NEW t \in Threads, WakeDestroy(t)
    PROVE  OwnInv' /\ Owned
  <1>1. PICK s \in SAs : s = call[t].at
    BY WakingAt DEF WakeDestroy, All
  <1>2. /\ life[s] = "listed" /\ call[t] \in CallRec /\ call[t].op = "destroy" /\ t \in All
        /\ call \in [All -> CallRec] /\ entry \in [SAs -> EntryRec] /\ UNCHANGED entry
    BY <1>1, WakingAt DEF WakeDestroy, All, OwnInv, Typed
  <1>3. s \in held[t]
    BY <1>1, <1>2 DEF OwnInv, CallAt
  <1>4. CASE /\ call' = Calls(t, Asleep(call[t], s), Broadcast(s))
             /\ UNCHANGED <<table, life, held>>
    <2> DEFINE c == Asleep(call[t], s)  W == Broadcast(s)
    <2>1. c \in CallRec /\ c.at = s /\ c.op = "destroy"
      BY <1>2, AsleepCall
    <2>2. call' = Calls(t, c, W)
      BY <1>4
    <2> HIDE DEF c
    <2>3. Moves(t, c, W) /\ \A u \in All : u \in W => call[u].state = "asleep"
      BY <1>2, <2>1, <2>2, CallsMoves, WokenSleep
    <2>4. CallAt(t)'
      BY <1>2, <1>3, <1>4, <2>1, <2>3, FallsAsleep
    <2> HIDE DEF W
    <2> QED BY <1>2, <1>4, <2>1, <2>3, <2>4, NothingOwned
  <1>5. CASE RemoveEntry(s) /\ Return(t, s) /\ call' = [call EXCEPT ![t] = NoCall]
    <2> DEFINE c == NoCall  W == {}
    <2>1. c \in CallRec /\ c.state = "run" /\ c.op # "destroy"
      BY NewCalls
    <2>2. Moves(t, c, W) /\ \A u \in All : u \in W => call[u].state = "asleep"
      BY <1>2, <1>5, <2>1, ExceptMoves
    <2> HIDE DEF c, W
    <2>3. (c.state = "run" /\ c.op # "destroy") \/ (Idle(t) /\ c = call[t])
      BY <2>1
    <2> QED BY <1>2, <1>3, <1>5, <2>1, <2>2, <2>3, DestroyOwned
  <1> QED BY <1>1, <1>4, <1>5 DEF WakeDestroy

\* flush() removes an entry that nobody uses, or waits at it.
LEMMA FlushEntryOwned ==
    ASSUME OwnInv, NEW s \in SAs, life[s] = "listed", FlushEntry(s), UNCHANGED <<entry, held>>,
           call[Flusher].op = "flush"
    PROVE  OwnInv' /\ Owned
  <1>1. /\ call \in [All -> CallRec] /\ entry \in [SAs -> EntryRec] /\ Flusher \in All
        /\ call[Flusher] \in CallRec /\ life \in [SAs -> Lives] /\ Flusher \notin Threads
        /\ held \in [Threads -> SUBSET SAs]
    BY ThreadsAssumption DEF OwnInv, Typed, All
  <1>2. CASE /\ call' = Calls(Flusher, Asleep(call[Flusher], s), Broadcast(s))
             /\ UNCHANGED <<table, life>>
    <2> DEFINE c == Asleep(call[Flusher], s)  W == Broadcast(s)
    <2>1. c \in CallRec /\ c.at = s /\ c.op # "destroy"
      BY <1>1, AsleepCall
    <2>2. call' = Calls(Flusher, c, W)
      BY <1>2
    <2> HIDE DEF c
    <2>3. Moves(Flusher, c, W) /\ \A u \in All : u \in W => call[u].state = "asleep"
      BY <1>1, <2>1, <2>2, CallsMoves, WokenSleep
    <2>4. CallAt(Flusher)'
      BY <1>1, <1>2, <2>1, <2>3, FallsAsleep
    <2> HIDE DEF W
    <2> QED BY <1>1, <1>2, <2>1, <2>3, <2>4, NothingOwned
  <1>3. CASE /\ Left(s) /\ RemoveEntryAt(s)
             /\ call' = [call EXCEPT ![Flusher].at = NoSA, ![Flusher].state = "run"]
    <2> DEFINE c == [call[Flusher] EXCEPT !.at = NoSA, !.state = "run"]  W == {}
    <2>1. c \in CallRec /\ c.state = "run" /\ c.op # "destroy"
      BY <1>1 DEF CallRec
    <2>2. call' = [call EXCEPT ![Flusher] = c]
      BY <1>1, <1>3
    <2> HIDE DEF c
    <2>3. Moves(Flusher, c, W) /\ \A u \in All : u \in W => call[u].state = "asleep"
      BY <1>1, <2>1, <2>2, ExceptMoves
    <2>4. CallAt(Flusher)'
      BY <1>1, <2>1, <2>3, RunsOn
    <2>5. /\ table' \in [Segments -> Seq(SAs)] /\ \A g \in Segments : RowSound(g)'
          /\ life' = [life EXCEPT ![s] = "destroyed"]
      BY <1>3, RemoveEntryAtRows
    <2>6. Users(s) = {} /\ Users(s)' = {}
      BY <1>3, NoUsers DEF Left, Users
    <2>7. /\ life' \in [SAs -> Lives] /\ life'[s] = "destroyed"
          /\ \A x \in SAs \ {s} : life'[x] = life[x]
      BY <1>1, <2>5 DEF Lives
    <2>8. Apart(Flusher, s)
      BY <1>1, <2>7 DEF Apart
    <2>9. HeldAt(s)'
      BY <2>6 DEF HeldAt, Users
    <2> HIDE DEF W
    <2>10. OwnInv'
      BY <1>1, <2>1, <2>3, <2>4, <2>5, <2>8, <2>9, StepSound
    <2>11. Owns(Flusher, s)
      BY <2>6, <2>7 DEF Owns, Alive
    <2> QED BY <1>1, <2>8, <2>10, <2>11 DEF Owned
  <1> QED BY <1>2, <1>3 DEF FlushEntry

\* flush() marks the entries.
LEMMA FlushMarkOwned ==
    ASSUME OwnInv, FlushMark
    PROVE  OwnInv' /\ Owned
  <1> DEFINE b == [NoCall EXCEPT !.op = "flush"]
             c == [NoCall EXCEPT !.op = "flush", !.segment = 1]  W == {}
             mark(s) == entry[s].driveout_threads \/ life[s] = "listed"
             E == [s \in SAs |-> [entry[s] EXCEPT !.driveout_threads = mark(s)]]
  <1>1. /\ call \in [All -> CallRec] /\ entry \in [SAs -> EntryRec] /\ Flusher \in All
        /\ life \in [SAs -> Lives]
    BY DEF OwnInv, Typed, All
  <1>2. c \in CallRec /\ c.state = "run" /\ c.op # "destroy"
    <2>1. 1 \in 0..SegmentCount + 1
      BY SegmentsAssumption
    <2>2. b \in CallRec /\ b.state = "run" /\ b.op = "flush"
      BY NewCalls
    <2>3. c = [b EXCEPT !.segment = 1]
      BY DEF NoCall
    <2> HIDE DEF b, c
    <2> QED BY <2>1, <2>2, <2>3 DEF CallRec
  <1>3. /\ call' = [call EXCEPT ![Flusher] = c] /\ UNCHANGED <<table, life, held>>
        /\ entry' = E
    BY DEF FlushMark
  <1> HIDE DEF c
  <1>4. Moves(Flusher, c, W) /\ \A u \in All : u \in W => call[u].state = "asleep"
    BY <1>1, <1>2, <1>3, ExceptMoves
  <1>5. CallAt(Flusher)'
    BY <1>1, <1>2, <1>4, RunsOn
  <1>6. /\ entry' \in [SAs -> EntryRec]
        /\ \A x \in SAs : entry'[x].checked_out = entry[x].checked_out
    <2>1. \A x \in SAs : mark(x) \in BOOLEAN /\ entry[x] \in EntryRec
      BY <1>1, EntryFields
    <2> HIDE DEF mark
    <2>2. ASSUME NEW x \in SAs
          PROVE  E[x] \in EntryRec /\ E[x].checked_out = entry[x].checked_out
      <3>1. E[x] = [entry[x] EXCEPT !.driveout_threads = mark(x)]
        OBVIOUS
      <3> HIDE DEF E
      <3> QED BY <2>1, <3>1, EntryFields
    <2> QED BY <1>3, <2>2
  <1> HIDE DEF W, E
  <1> QED BY <1>1, <1>2, <1>3, <1>4, <1>5, <1>6, NothingOwned

\* The loop of flush()
LEMMA FlushNextOwned ==
    ASSUME OwnInv, FlushNext
    PROVE  OwnInv' /\ Owned
  <1> DEFINE g == call[Flusher].segment  W == {}
  <1>1. /\ call \in [All -> CallRec] /\ entry \in [SAs -> EntryRec] /\ Flusher \in All
        /\ call[Flusher] \in CallRec /\ call[Flusher].op = "flush"
        /\ call[Flusher].state = "run" /\ UNCHANGED <<entry, held>>
    BY DEF OwnInv, Typed, All, FlushNext
  <1>2. ASSUME NEW c \in CallRec, c.state = "run", c.op # "destroy",
               call' = [call EXCEPT ![Flusher] = c], UNCHANGED <<table, life>>
        PROVE  OwnInv' /\ Owned
    <2>1. Moves(Flusher, c, W) /\ \A u \in All : u \in W => call[u].state = "asleep"
      BY <1>1, <1>2, ExceptMoves
    <2>2. CallAt(Flusher)'
      BY <1>1, <1>2, <2>1, RunsOn
    <2> HIDE DEF W
    <2> QED BY <1>1, <1>2, <2>1, <2>2, NothingOwned
  <1>3. ASSUME NEW n \in 0..SegmentCount + 1, call' = [call EXCEPT ![Flusher].segment = n],
               UNCHANGED <<table, life>>
        PROVE  OwnInv' /\ Owned
    <2> DEFINE c == [call[Flusher] EXCEPT !.segment = n]
    <2>1. c \in CallRec /\ c.state = "run" /\ c.op # "destroy"
      BY <1>1 DEF CallRec
    <2>2. call' = [call EXCEPT ![Flusher] = c]
      BY <1>1, <1>3
    <2> HIDE DEF c
    <2> QED BY <1>2, <1>3, <2>1, <2>2
  <1>4. CASE g \in Segments /\ table[g] # <<>> /\ FlushEntry(table[g][1])
    <2>1. PICK s \in SAs : s = table[g][1] /\ life[s] = "listed"
      BY <1>4, RowEntries
    <2>2. FlushEntry(s)
      BY <1>4, <2>1
    <2> QED BY <1>1, <2>1, <2>2, FlushEntryOwned
  <1>5. CASE /\ g \in Segments /\ call' = [call EXCEPT ![Flusher].segment = g + 1]
             /\ UNCHANGED <<table, life>>
    <2>1. g + 1 \in 0..SegmentCount + 1
      BY <1>5, SegmentsAssumption DEF Segments
    <2> QED BY <1>3, <1>5, <2>1
  <1>6. CASE call' = [call EXCEPT ![Flusher].segment = 1] /\ UNCHANGED <<table, life>>
    <2>1. 1 \in 0..SegmentCount + 1
      BY SegmentsAssumption
    <2> QED BY <1>3, <1>6, <2>1
  <1>7. CASE call' = [call EXCEPT ![Flusher] = NoCall] /\ UNCHANGED <<table, life>>
    BY <1>2, <1>7, NewCalls
  <1> QED BY <1>4, <1>5, <1>6, <1>7 DEF FlushNext

\* The thread that flushes waited at an entry.
LEMMA WakeFlushOwned ==
    ASSUME OwnInv, WakeFlush
    PROVE  OwnInv' /\ Owned
  <1>1. PICK s \in SAs : s = call[Flusher].at
    BY WakingAt DEF WakeFlush, All
  <1>2. /\ life[s] = "listed" /\ call[Flusher].op = "flush" /\ UNCHANGED <<entry, held>>
        /\ FlushEntry(s)
    BY <1>1, WakingAt DEF WakeFlush, All
  <1> QED BY <1>2, FlushEntryOwned

\* A thread wakes up without a signal.
LEMMA SpuriousOwned ==
    ASSUME OwnInv, NEW t \in All, Spurious(t)
    PROVE  OwnInv' /\ Owned
  <1> DEFINE c == [call[t] EXCEPT !.state = "woken"]  W == {}
  <1>1. /\ call \in [All -> CallRec] /\ entry \in [SAs -> EntryRec]
        /\ call[t] \in CallRec /\ call[t].state = "asleep" /\ CallAt(t)
        /\ UNCHANGED <<table, life, held, entry>>
    BY DEF OwnInv, Typed, Spurious
  <1>2. c \in CallRec /\ c.state = "woken" /\ c.op = call[t].op /\ c.at = call[t].at
    BY <1>1 DEF CallRec
  <1>3. call' = [call EXCEPT ![t] = c]
    BY DEF Spurious
  <1> HIDE DEF c
  <1>4. Moves(t, c, W) /\ \A u \in All : u \in W => call[u].state = "asleep"
    BY <1>1, <1>2, <1>3, ExceptMoves
  <1>5. CallAt(t)'
    BY <1>1, <1>2, <1>4 DEF CallAt, Moves
  <1> HIDE DEF W
  <1> QED BY <1>1, <1>2, <1>4, <1>5, NothingOwned

-----------------------------------------------------------------------------
(* The refinement.                                                         *)

ShutdownTyped == shutdown \in [rng_gone : BOOLEAN, new_entries_driveout_threads : BOOLEAN]

\* Only flush() changes what tells that the daemon shuts down.
LEMMA NextShutdown ==
    ASSUME ShutdownTyped, [Next]_vars
    PROVE  ShutdownTyped'
  <1>1. CASE FlushStart
    BY <1>1 DEF FlushStart, ShutdownTyped
  <1>2. CASE FlushMark
    BY <1>2 DEF FlushMark, ShutdownTyped
  <1>3. CASE FlushNext \/ WakeFlush \/ UNCHANGED vars
    BY <1>3 DEF FlushNext, WakeFlush, vars, ShutdownTyped
  <1>4. ASSUME NEW t \in All, Spurious(t) PROVE UNCHANGED shutdown
    BY <1>4 DEF Spurious
  <1>5. ASSUME NEW t \in Threads, Proceed(t) PROVE UNCHANGED shutdown
    BY <1>5 DEF Proceed, WakeCheckout, WakeEnumerate, WakeDestroy, EnumerateNext
  <1>6. ASSUME NEW t \in Threads, NEW s \in SAs,
               \/ CreateNew(t, s) \/ CheckoutNew(t, s) \/ Checkout(t, s)
               \/ Enumerate(t, s) \/ CheckUniqueness(t, s)
               \/ Checkin(t, s) \/ CheckinAndDestroy(t, s)
        PROVE  UNCHANGED shutdown
    BY <1>6 DEF CreateNew, CheckoutNew, Checkout, Enumerate, CheckUniqueness, Checkin,
                CheckinAndDestroy
  <1> QED BY <1>1, <1>2, <1>3, <1>4, <1>5, <1>6 DEF Next, Flush, ShutdownTyped

\* Every step keeps the invariant and does to the IKE_SAs what their users may do.
LEMMA NextOwned ==
    ASSUME OwnInv, ShutdownTyped, [Next]_vars
    PROVE  OwnInv' /\ Owned
  <1>1. shutdown.new_entries_driveout_threads \in BOOLEAN
    BY DEF ShutdownTyped
  <1>2. CASE FlushStart \/ UNCHANGED vars
    <2>1. UNCHANGED <<table, entry, life, call, held>>
      BY <1>2 DEF FlushStart, vars
    <2> QED BY <2>1 DEF OwnInv, Owned, Typed, HeldAt, RowSound, CallAt
  <1>3. CASE Flush
    BY <1>3, FlushMarkOwned, FlushNextOwned, WakeFlushOwned DEF Flush
  <1>4. ASSUME NEW t \in Threads, Proceed(t) PROVE OwnInv' /\ Owned
    BY <1>4, WakeCheckoutOwned, WakeEnumerateOwned, WakeDestroyOwned, EnumerateNextOwned
    DEF Proceed
  <1>5. ASSUME NEW t \in Threads, NEW s \in SAs,
               \/ CreateNew(t, s) \/ CheckoutNew(t, s) \/ Checkout(t, s)
               \/ Enumerate(t, s) \/ CheckUniqueness(t, s)
               \/ Checkin(t, s) \/ CheckinAndDestroy(t, s)
        PROVE  OwnInv' /\ Owned
    BY <1>1, <1>5, CreateNewOwned, CheckoutNewOwned, CheckoutOwned, EnumerateOwned,
       CheckUniquenessOwned, CheckinOwned, CheckinAndDestroyOwned
  <1> QED BY <1>2, <1>3, <1>4, <1>5, SpuriousOwned DEF Next

\* Nobody holds anything at the start.
LEMMA InitOwned ==
    ASSUME Init
    PROVE  OwnInv /\ ShutdownTyped
  <1>1. \A g \in Segments : table[g] = <<>>
    BY DEF Init
  <1>2. NoEntry \in EntryRec /\ NoCall \in CallRec /\ NoCall.state = "run" /\ NoCall.op = "none"
    BY NewCalls DEF NoEntry, EntryRec
  <1>3. Typed /\ ShutdownTyped
    BY <1>2 DEF Init, Typed, ShutdownTyped, Lives
  <1>4. \A s \in SAs : HeldAt(s)
    BY DEF Init, HeldAt
  <1>5. \A g \in Segments : RowSound(g)
    BY <1>1 DEF RowSound, IsInjective, Range
  <1>6. \A t \in All : CallAt(t)
    BY <1>2 DEF Init, CallAt
  <1> QED BY <1>3, <1>4, <1>5, <1>6 DEF OwnInv

\* The owner of an IKE_SA is its only user.
LEMMA OwnerOf ==
    ASSUME NEW s
    PROVE  /\ Users(s) = {} => Owner(s) = NoThread
           /\ \A t \in Threads : Users(s) = {t} => Owner(s) = t
  <1>1. ASSUME NEW t \in Threads, Users(s) = {t} PROVE Owner(s) = t
    BY <1>1 DEF Owner
  <1> QED BY <1>1 DEF Owner

\* The same after a step.
LEMMA OwnerAfter ==
    ASSUME NEW CONSTANT s
    PROVE  /\ Users(s)' = {} => Owner(s)' = NoThread
           /\ \A t \in Threads : Users(s)' = {t} => Owner(s)' = t
           /\ Users(s)' = Users(s) => Owner(s)' = Owner(s)
  <1>1. ASSUME NEW t \in Threads, Users(s)' = {t} PROVE Owner(s)' = t
    BY <1>1 DEF Owner
  <1>2. ASSUME Users(s)' = Users(s) PROVE Owner(s)' = Owner(s)
    BY <1>2 DEF Owner
  <1> QED BY <1>1, <1>2 DEF Owner

\* What a step does to an IKE_SA is a step of SaOwnership, or none.
LEMMA OwnedRefines ==
    ASSUME OwnInv, Owned
    PROVE  [Ownership!Next]_(Ownership!vars)
  <1> DEFINE own == [x \in SAs |-> Owner(x)]
             alive == [x \in SAs |-> IF life[x] \in {"new", "listed"} THEN "live" ELSE life[x]]
  <1>1. CASE UNCHANGED <<held, life>>
    <2>1. \A x \in SAs : Owner(x)' = Owner(x)
      BY <1>1 DEF Owner, Users
    <2> QED BY <1>1, <2>1 DEF Ownership!vars
  <1>2. ASSUME NEW t \in All, NEW s \in SAs, Apart(t, s), Owns(t, s)
        PROVE  [Ownership!Next]_(Ownership!vars)
    <2>1. \A x \in SAs \ {s} : Users(x)' = Users(x) /\ life'[x] = life[x]
      BY <1>2 DEF Apart, Users
    <2>2. \A x \in SAs \ {s} : own'[x] = own[x] /\ alive'[x] = alive[x]
      BY <2>1, OwnerAfter
    <2>3. alive[s] = Alive(s) /\ alive'[s] = Alive(s)'
      BY DEF Alive
    <2>4. own[s] = Owner(s) /\ own'[s] = Owner(s)' /\ DOMAIN own' = SAs /\ DOMAIN alive' = SAs
      OBVIOUS
    <2>5. CASE Users(s)' = Users(s) /\ Alive(s)' = Alive(s)
      <3>1. own'[s] = own[s] /\ alive'[s] = alive[s]
        BY <2>3, <2>5, OwnerAfter
      <3>2. own' = own /\ alive' = alive
        BY <2>2, <3>1
      <3> QED BY <3>2 DEF Ownership!vars
    <2>6. CASE /\ t \in Threads /\ Users(s) = {} /\ Users(s)' = {t}
               /\ Alive(s) \in {"none", "live"} /\ Alive(s)' = "live"
      <3>1. Owner(s) = NoThread /\ Owner(s)' = t
        BY <2>6, OwnerOf, OwnerAfter
      <3>2. own[s] = NoThread /\ own' = [own EXCEPT ![s] = t]
        BY <2>2, <3>1
      <3>3. CASE Alive(s) = "none"
        <4>1. alive[s] = "none" /\ alive' = [alive EXCEPT ![s] = "live"]
          BY <2>2, <2>3, <2>6, <3>3
        <4> HIDE DEF own, alive
        <4>2. Ownership!Create(t, s)
          BY <3>2, <4>1 DEF Ownership!Create, own, alive
        <4> QED BY <2>6, <4>2 DEF Ownership!Next
      <3>4. CASE Alive(s) = "live"
        <4>1. alive[s] = "live" /\ alive' = alive
          BY <2>2, <2>3, <2>6, <3>4
        <4>2. Ownership!Acquire(t, s)
          BY <3>2, <4>1 DEF Ownership!Acquire
        <4> QED BY <2>6, <4>2 DEF Ownership!Next
      <3> QED BY <2>6, <3>3, <3>4
    <2>7. CASE t \in Threads /\ Users(s) = {t} /\ Users(s)' = {} /\ Alive(s)' = Alive(s)
      <3>1. Owner(s) = t /\ Owner(s)' = NoThread
        BY <2>7, OwnerOf, OwnerAfter
      <3>2. own[s] = t /\ own' = [own EXCEPT ![s] = NoThread]
        BY <2>2, <3>1
      <3>3. alive' = alive
        BY <2>2, <2>3, <2>7
      <3>4. Ownership!Release(t, s)
        BY <3>2, <3>3 DEF Ownership!Release
      <3> QED BY <2>7, <3>4 DEF Ownership!Next
    <2>8. CASE Alive(s) = "live" /\ Alive(s)' = "destroyed" /\ Users(s)' = {}
      <3>1. Owner(s)' = NoThread
        BY <2>8, OwnerAfter
      <3>2. own' = [own EXCEPT ![s] = NoThread]
        BY <2>2, <3>1
      <3>3. alive[s] = "live" /\ alive' = [alive EXCEPT ![s] = "destroyed"]
        BY <2>2, <2>3, <2>8
      <3>4. Ownership!Destroy(s)
        BY <3>2, <3>3 DEF Ownership!Destroy
      <3> QED BY <3>4 DEF Ownership!Next
    <2> QED BY <1>2, <2>5, <2>6, <2>7, <2>8 DEF Owns
  <1> QED BY <1>1, <1>2 DEF Owned

\* The manager implements SaOwnership, whatever the threads do and whenever flush() meets
\* them: an IKE_SA is used by at most one thread at a time, and by none after it was
\* destroyed, as checkouts, checkins and destructions are steps of that specification.
THEOREM ExclusiveUseCorrect == Spec => ExclusiveUse
  <1>1. Init => OwnInv /\ ShutdownTyped /\ Ownership!Init
    <2> SUFFICES ASSUME Init PROVE OwnInv /\ ShutdownTyped /\ Ownership!Init
      OBVIOUS
    <2>1. \A s \in SAs : Owner(s) = NoThread
      BY DEF Init, Owner, Users
    <2>2. Ownership!Init
      BY <2>1 DEF Init, Ownership!Init
    <2> QED BY <2>2, InitOwned
  <1>2. OwnInv /\ ShutdownTyped /\ [Next]_vars =>
            OwnInv' /\ ShutdownTyped' /\ [Ownership!Next]_(Ownership!vars)
    BY NextShutdown, NextOwned, OwnedRefines
  <1> QED BY <1>1, <1>2, PTL DEF Spec, ExclusiveUse, Ownership!Spec

-----------------------------------------------------------------------------
(* What keeps the entries sound if flush() meets no thread that destroys or  *)
(* adds an IKE_SA.                                                          *)

Waiters(s) ==
    {t \in Threads : /\ call[t].op \in {"checkout", "enumerate"}
                     /\ call[t].state # "run" /\ call[t].at = s}
Flushed == shutdown.new_entries_driveout_threads

\* A call is at an entry of the table, in one of the ways the operations have.
CallShape(t) ==
    /\ call[t].at # NoSA => life[call[t].at] = "listed"
    /\ call[t].op = "none" => call[t].at = NoSA /\ call[t].state = "run"
    /\ call[t].op \in {"checkout", "destroy"} => call[t].state # "run"
    /\ call[t].op = "flush" <=> t = Flusher /\ call[t].op # "none"

\* Who waits to check out an entry does not hold it, who enumerates holds nothing and
\* keeps the mutex of the segment while it runs, and who destroys an entry marked it.
CallOfThread(t) ==
    /\ call[t].op = "checkout" => call[t].at \notin held[t]
    /\ call[t].op = "enumerate" =>
          /\ held[t] = {}
          /\ call[t].at # NoSA =>
                /\ call[t].segment = Row[call[t].at]
                /\ call[t].state = "run" => mutex[call[t].segment] = t
    /\ call[t].op = "destroy" => entry[call[t].at].driveout_threads

\* flush() has all mutexes, except that of the segment in which it waits for the first
\* entry of the row.
CallOfFlusher ==
    call[Flusher].op = "flush" =>
        /\ Flushed
        /\ \A g \in Segments : \/ mutex[g] = Flusher
                               \/ call[Flusher].state # "run" /\ g = Row[call[Flusher].at]
        /\ call[Flusher].state = "run" => call[Flusher].at = NoSA
        /\ call[Flusher].state # "run" =>
              LET row == table[Row[call[Flusher].at]] IN row # <<>> /\ row[1] = call[Flusher].at

CallSound(t) == CallShape(t) /\ (t \in Threads => CallOfThread(t))

\* Somebody will signal the threads that sleep at an entry.
Minds(t, s) ==
    \/ call[t].at = s /\ call[t].state # "asleep"
    \/ t \in Threads /\ s \in held[t] /\ ~(call[t].state = "asleep" /\ call[t].at = s)

EntrySound(s) ==
    /\ entry[s].waiting_threads = Cardinality(Waiters(s))
    /\ life[s] = "listed" /\ entry[s].checked_out # NoThread => s \in held[entry[s].checked_out]
    /\ life[s] = "listed" => s \in Range(table[Row[s]])
    /\ Sleepers(s) # {} => \E t \in All : Minds(t, s)

\* Once flush() marked the entries, no IKE_SA is added or destroyed by others.
FlushSound ==
    /\ Flushed => shutdown.rng_gone
    /\ Flushed => \A t \in Threads : call[t].op # "destroy"
    /\ Flushed => \A s \in SAs : life[s] # "new"
    /\ Flushed => \A s \in SAs : life[s] = "listed" => entry[s].driveout_threads

Listed == {s \in SAs : life[s] = "listed"}

\* What the operations keep beside the table.
RestSound ==
    /\ connected \subseteq SAs /\ mutex \in [Segments -> All \cup {NoThread}]
    /\ unique \in [Threads -> [sa : SAs \cup {NoSA}, todo : SUBSET SAs]]
    /\ \A t \in Threads : unique[t].sa \notin unique[t].todo

\* What is known of the table apart from the threads that wait.
Base == OwnInv /\ ShutdownTyped /\ RestSound

EntriesInv ==
    /\ Base /\ FlushSound
    /\ count = Cardinality(Listed)
    /\ \A t \in All : CallSound(t)
    /\ CallOfFlusher
    /\ \A s \in SAs : EntrySound(s)

-----------------------------------------------------------------------------
(* One thread moves, at one entry.                                         *)

\* Entries other than s are as they were, and so is what the threads hold of them.
OthersKept(t, s) ==
    /\ \A x \in SAs \ {s} :
          /\ entry'[x].waiting_threads = entry[x].waiting_threads
          /\ entry'[x].checked_out = entry[x].checked_out
          /\ life'[x] = life[x]
          /\ x \in Range(table[Row[x]]) => x \in Range(table'[Row[x]])
    /\ \A u \in Threads \ {t} : held'[u] = held[u]
    /\ t \in Threads => \A x \in SAs \ {s} : x \in held'[t] <=> x \in held[t]

\* A mutex of another thread is not touched, a mark is kept, and an entry is freed only
\* if no other thread is at it.
Locks(t) == \A g \in Segments : mutex'[g] = mutex[g] \/ mutex[g] \in {NoThread, t}
Marks == \A x \in SAs : life[x] = "listed" /\ entry[x].driveout_threads =>
                        entry'[x].driveout_threads
Frees(t, s) == s \in SAs => \/ life'[s] = "listed" \/ life[s] # "listed"
                            \/ \A u \in All \ {t} : call[u].at # s

\* A thread that goes on to s from another entry signals that one.
Passes(t, s, W) ==
    call[t].at \in SAs \ {s} =>
        /\ call[t].state = "run" /\ W \subseteq Sleepers(call[t].at)
        /\ Sleepers(call[t].at) # {} => W # {}

Frame(t, s, W) ==
    OthersKept(t, s) /\ Locks(t) /\ Marks /\ Frees(t, s) /\ Passes(t, s, W)

\* The calls of the other threads stay sound.
LEMMA OtherCalls ==
    ASSUME EntriesInv, NEW t \in All, NEW s \in SAs \cup {NoSA}, NEW c \in CallRec, NEW W,
           Moves(t, c, W), \A u \in All : u \in W => call[u].state = "asleep",
           Frame(t, s, W), NEW u \in All \ {t}
    PROVE  CallSound(u)'
  <1>1. /\ CallSound(u) /\ CallAt(u) /\ NoSA \notin SAs /\ NoThread \notin All
        /\ Flusher \notin Threads /\ call[u].at \in SAs \cup {NoSA}
    BY CallFields, SAsAssumption, ThreadsAssumption DEF EntriesInv, Base, OwnInv, Typed, All
  <1>2. /\ call'[u].op = call[u].op /\ call'[u].at = call[u].at
        /\ call'[u].segment = call[u].segment
        /\ call'[u].state = "run" <=> call[u].state = "run"
    BY DEF Moves
  <1>3. call[u].at # NoSA => life[call[u].at] = "listed" /\ life'[call[u].at] = "listed"
    <2>1. ASSUME NEW x \in SAs, call[u].at = x
          PROVE  life[x] = "listed" /\ life'[x] = "listed"
      <3>1. life[x] = "listed"
        BY <1>1, <2>1 DEF CallSound, CallShape
      <3>2. CASE x = s
        BY <2>1, <3>1, <3>2 DEF Frame, Frees
      <3>3. CASE x # s
        BY <3>1, <3>3 DEF Frame, OthersKept
      <3> QED BY <3>1, <3>2, <3>3
    <2> QED BY <1>1, <2>1
  <1>4. CallShape(u)'
    BY <1>1, <1>2, <1>3 DEF CallSound, CallShape
  <1>5. ASSUME u \in Threads PROVE CallOfThread(u)'
    <2>1. CallOfThread(u) /\ held'[u] = held[u]
      BY <1>1, <1>5 DEF CallSound, Frame, OthersKept
    <2>2. call[u].op = "enumerate" /\ call[u].at # NoSA /\ call[u].state = "run" =>
              mutex'[call[u].segment] = u
      <3>1. ASSUME call[u].op = "enumerate", call[u].at # NoSA, call[u].state = "run"
            PROVE  call[u].segment \in Segments /\ mutex[call[u].segment] = u
        BY <1>1, <2>1, <3>1, SegmentsAssumption DEF CallOfThread
      <3> QED BY <1>1, <3>1 DEF Frame, Locks
    <2>3. call[u].op = "destroy" => entry'[call[u].at].driveout_threads
      <3>1. call[u].op = "destroy" => call[u].state # "run"
        BY <1>1 DEF CallSound, CallShape
      <3>2. call[u].op = "destroy" => call[u].at \in SAs
        BY <1>1, <3>1 DEF CallAt
      <3> QED BY <1>1, <1>3, <2>1, <3>2 DEF Frame, Marks, CallOfThread
    <2> QED BY <1>2, <2>1, <2>2, <2>3 DEF CallOfThread
  <1> QED BY <1>4, <1>5 DEF CallSound

\* Who waits at another entry, and who will signal it.
LEMMA OtherEntries ==
    ASSUME EntriesInv, NEW t \in All, NEW s \in SAs \cup {NoSA}, NEW c \in CallRec, NEW W,
           Moves(t, c, W), \A u \in All : u \in W => call[u].state = "asleep",
           c.at \in {NoSA, s}, Frame(t, s, W), NEW x \in SAs \ {s}
    PROVE  EntrySound(x)'
  <1>1. EntrySound(x) /\ x # NoSA /\ c.at # x /\ call'[t] = c /\ t \in All
    BY SAsAssumption DEF EntriesInv, Moves
  <1>2. ASSUME NEW u \in All \ {t}
        PROVE  /\ call'[u].op = call[u].op /\ call'[u].at = call[u].at
               /\ call'[u].state = "run" <=> call[u].state = "run"
               /\ call'[u].state = "asleep" => call[u].state = "asleep"
    BY DEF Moves
  <1>3. Waiters(x)' = Waiters(x)
    <2>1. t \notin Waiters(x)' /\ t \notin Waiters(x)
      BY <1>1 DEF Waiters, Frame, Passes
    <2>2. \A u \in Threads \ {t} : u \in Waiters(x)' <=> u \in Waiters(x)
      BY <1>2 DEF Waiters, All
    <2> QED BY <2>1, <2>2 DEF Waiters
  <1>4. entry'[x].waiting_threads = Cardinality(Waiters(x)')
    BY <1>1, <1>3 DEF EntrySound, Frame, OthersKept
  <1>5. life'[x] = "listed" /\ entry'[x].checked_out # NoThread =>
            x \in held'[entry'[x].checked_out]
    <2>1. \A u \in Threads : x \in held'[u] <=> x \in held[u]
      BY DEF Frame, OthersKept
    <2>2. entry[x].checked_out \in Threads \cup {NoThread}
      BY EntryFields DEF EntriesInv, Base, OwnInv, Typed
    <2> QED BY <1>1, <2>1, <2>2 DEF EntrySound, Frame, OthersKept
  <1>6. life'[x] = "listed" => x \in Range(table'[Row[x]])
    BY <1>1 DEF EntrySound, Frame, OthersKept
  <1>7. ASSUME Sleepers(x)' # {}
        PROVE  \E u \in All : Minds(u, x)'
    <2>1. Sleepers(x) # {}
      BY <1>1, <1>2, <1>7 DEF Sleepers
    <2>2. PICK m \in All : Minds(m, x)
      BY <1>1, <2>1 DEF EntrySound
    <2>3. CASE m # t
      <3>1. m \in Threads => held'[m] = held[m]
        BY <2>3 DEF Frame, OthersKept
      <3> QED BY <1>2, <2>2, <2>3, <3>1 DEF Minds
    <2>4. CASE m = t /\ call[t].at = x
      <3>1. W # {} /\ W \subseteq Sleepers(x)
        BY <2>1, <2>4 DEF Frame, Passes
      <3>2. PICK w \in W : TRUE
        BY <3>1
      <3>3. w \in All \ {t} /\ call[w].at = x
        BY <2>4, <3>1, <3>2 DEF Sleepers, Frame, Passes
      <3>4. call'[w].at = x /\ call'[w].state = "woken"
        BY <3>2, <3>3 DEF Moves
      <3> QED BY <3>3, <3>4 DEF Minds
    <2>5. CASE m = t /\ call[t].at # x
      <3>1. t \in Threads /\ x \in held'[t]
        BY <2>2, <2>5 DEF Minds, Frame, OthersKept
      <3> QED BY <1>1, <3>1 DEF Minds
    <2> QED BY <2>3, <2>4, <2>5
  <1> QED BY <1>4, <1>5, <1>6, <1>7 DEF EntrySound

-----------------------------------------------------------------------------
(* Waiting threads.                                                        *)

\* Threads that wait at an entry are finitely many.
LEMMA WaitersFinite ==
    ASSUME NEW s
    PROVE  /\ IsFiniteSet(Waiters(s)) /\ Cardinality(Waiters(s)) \in Nat
           /\ Cardinality(Waiters(s)) <= Cardinality(Threads)
           /\ Cardinality(Waiters(s)) = 0 <=> Waiters(s) = {}
  <1>1. Waiters(s) \in SUBSET Threads
    BY DEF Waiters
  <1> HIDE DEF Waiters
  <1>2. IsFiniteSet(Waiters(s)) /\ Cardinality(Waiters(s)) <= Cardinality(Threads)
    BY <1>1, ThreadsAssumption, FS_Subset
  <1> QED BY <1>2, FS_CardinalityType, FS_EmptySet

\* One thread begins to wait at an entry, or leaves it, or goes on waiting.
LEMMA WaitersStep ==
    ASSUME EntriesInv, NEW t \in All, NEW c \in CallRec, NEW W,
           Moves(t, c, W), \A u \in All : u \in W => call[u].state = "asleep", NEW s \in SAs
    PROVE  /\ t \in Waiters(s)' <=> /\ t \in Threads /\ c.op \in {"checkout", "enumerate"}
                                    /\ c.state # "run" /\ c.at = s
           /\ Cardinality(Waiters(s)') =
                 Cardinality(Waiters(s) \ {t}) + (IF t \in Waiters(s)' THEN 1 ELSE 0)
           /\ Cardinality(Waiters(s) \ {t}) =
                 entry[s].waiting_threads - (IF t \in Waiters(s) THEN 1 ELSE 0)
  <1>1. t \in Waiters(s)' <=> /\ t \in Threads /\ c.op \in {"checkout", "enumerate"}
                              /\ c.state # "run" /\ c.at = s
    BY DEF Waiters, Moves
  <1>2. \A u \in All \ {t} : u \in Waiters(s)' <=> u \in Waiters(s)
    BY DEF Waiters, Moves
  <1>3. Waiters(s) \subseteq All /\ Waiters(s)' \subseteq All
    BY DEF Waiters, All
  <1>4. IsFiniteSet(Waiters(s)) /\ Cardinality(Waiters(s)) = entry[s].waiting_threads
    BY WaitersFinite DEF EntriesInv, EntrySound
  <1> DEFINE A == Waiters(s) \ {t}
  <1>5. IsFiniteSet(A) /\ t \notin A
    BY <1>4, FS_RemoveElement
  <1>6. Waiters(s)' = IF t \in Waiters(s)' THEN A \cup {t} ELSE A
    BY <1>2, <1>3
  <1>7. Cardinality(A) = Cardinality(Waiters(s)) - (IF t \in Waiters(s) THEN 1 ELSE 0)
    <2>1. Cardinality(Waiters(s)) \in Nat
      BY WaitersFinite
    <2>2. Cardinality(Waiters(s) \ {t}) =
              IF t \in Waiters(s) THEN Cardinality(Waiters(s)) - 1 ELSE Cardinality(Waiters(s))
      BY <1>4, FS_RemoveElement
    <2> QED BY <2>1, <2>2
  <1> HIDE DEF A
  <1>8. Cardinality(A \cup {t}) = Cardinality(A) + 1 /\ Cardinality(A) \in Nat
    BY <1>5, FS_AddElement, FS_CardinalityType
  <1>9. Cardinality(Waiters(s)') = Cardinality(A) + (IF t \in Waiters(s)' THEN 1 ELSE 0)
    BY <1>6, <1>8
  <1> QED BY <1>1, <1>4, <1>7, <1>9 DEF A

\* A thread that has an entry checked out does not wait for it.
LEMMA UserMinds ==
    ASSUME EntriesInv, NEW s \in SAs, life[s] = "listed", entry[s].checked_out # NoThread,
           \A u \in Threads : call[u].op = "destroy" => call[u].at # s
    PROVE  /\ entry[s].checked_out \in Threads /\ s \in held[entry[s].checked_out]
           /\ Minds(entry[s].checked_out, s)
  <1> DEFINE h == entry[s].checked_out
  <1>1. h \in Threads /\ s \in held[h]
    <2>1. h \in Threads \cup {NoThread}
      BY EntryFields DEF EntriesInv, Base, OwnInv, Typed
    <2> QED BY <2>1 DEF EntriesInv, EntrySound
  <1>2. h \in All /\ CallSound(h) /\ call[h] \in CallRec /\ h # Flusher
    BY <1>1, ThreadsAssumption DEF EntriesInv, Base, OwnInv, Typed, All
  <1> HIDE DEF h
  <1>3. call[h].op \in {"none", "checkout", "enumerate", "destroy", "flush"}
    BY <1>2, CallFields
  <1>4. ~(call[h].state = "asleep" /\ call[h].at = s)
    BY <1>1, <1>2, <1>3 DEF CallSound, CallShape, CallOfThread
  <1> QED BY <1>1, <1>4 DEF Minds, h

\* In particular one that makes others wait.
LEMMA BusyMinds ==
    ASSUME EntriesInv, NEW s \in SAs, life[s] = "listed", Busy(s)
    PROVE  /\ entry[s].checked_out \in Threads /\ s \in held[entry[s].checked_out]
           /\ Minds(entry[s].checked_out, s)
  <1>1. \A u \in Threads : call[u].op = "destroy" => call[u].at # s
    BY DEF EntriesInv, CallSound, CallOfThread, Busy, All
  <1> QED BY <1>1, UserMinds DEF Busy

\* Another thread that minds an entry goes on to.
LEMMA StillMinds ==
    ASSUME NEW t \in All, NEW c \in CallRec, NEW W, Moves(t, c, W), NEW s, Frame(t, s, W),
           NEW h \in All \ {t}, Minds(h, s)
    PROVE  \E u \in All : Minds(u, s)'
  <1>1. h \in Threads => held'[h] = held[h]
    BY DEF Frame, OthersKept
  <1>2. call'[h].at = call[h].at /\ (call'[h].state = "asleep" => call[h].state = "asleep")
    BY DEF Moves
  <1> QED BY <1>1, <1>2 DEF Minds

\* So does a thread that is woken.
LEMMA WokenMinds ==
    ASSUME NEW t \in All, NEW c \in CallRec, NEW W, Moves(t, c, W), NEW s,
           NEW w \in All \ {t}, call[w].at = s, w \in W \/ call[w].state \in {"woken", "run"}
    PROVE  \E u \in All : Minds(u, s)'
  <1>1. call'[w].at = s /\ call'[w].state # "asleep"
    BY DEF Moves
  <1> QED BY <1>1 DEF Minds

\* If threads are left that sleep at an entry, one of them was signalled.
LEMMA SignalMinds ==
    ASSUME NEW t \in All, NEW c \in CallRec, NEW W, Moves(t, c, W), NEW s,
           c.at # s \/ c.state # "asleep", W \in Signal(s), t \notin Sleepers(s), Sleepers(s)' # {}
    PROVE  \E u \in All : Minds(u, s)'
  <1>1. Sleepers(s) # {}
    BY DEF Sleepers, Moves
  <1>2. W # {} /\ W \subseteq Sleepers(s)
    BY <1>1 DEF Signal
  <1>3. PICK w \in W : w \in All \ {t} /\ call[w].at = s
    BY <1>2 DEF Sleepers
  <1> QED BY <1>3, WokenMinds

-----------------------------------------------------------------------------
(* Steps keep the invariant.                                               *)

\* If a step is sound for the thread that moves and the entry it is about.
LEMMA StepKeeps ==
    ASSUME EntriesInv, Base', NEW t \in All, NEW s \in SAs \cup {NoSA}, NEW c \in CallRec, NEW W,
           Moves(t, c, W), \A u \in All : u \in W => call[u].state = "asleep",
           c.at \in {NoSA, s}, Frame(t, s, W),
           CallSound(t)', s \in SAs => EntrySound(s)',
           FlushSound', CallOfFlusher', count' = Cardinality(Listed')
    PROVE  EntriesInv'
  <1>1. \A u \in All : CallSound(u)'
    BY OtherCalls
  <1>2. \A x \in SAs : EntrySound(x)'
    <2>1. \A x \in SAs \ {s} : EntrySound(x)'
      BY OtherEntries
    <2> QED BY <2>1
  <1> QED BY <1>1, <1>2 DEF EntriesInv

\* Steps of threads that leave the table alone do not disturb flush().
LEMMA CalmStep ==
    ASSUME EntriesInv, NEW t \in Threads, NEW c \in CallRec, NEW W, Moves(t, c, W), NEW s,
           \A u \in All : u \in W => call[u].state = "asleep",
           Frame(t, s, W), UNCHANGED <<table, count, life, shutdown>>,
           Flushed => c.op # "destroy"
    PROVE  FlushSound' /\ CallOfFlusher' /\ count' = Cardinality(Listed')
  <1>1. FlushSound /\ CallOfFlusher /\ count = Cardinality(Listed) /\ t # Flusher
    BY ThreadsAssumption DEF EntriesInv
  <1>2. Flushed' <=> Flushed
    BY DEF Flushed
  <1>3. \A u \in Threads : call'[u].op = "destroy" /\ Flushed => call[u].op = "destroy"
    BY DEF Moves, All
  <1>4. FlushSound'
    BY <1>1, <1>2, <1>3 DEF FlushSound, Frame, Marks
  <1>5. /\ call'[Flusher].op = call[Flusher].op /\ call'[Flusher].at = call[Flusher].at
        /\ call'[Flusher].state = "run" <=> call[Flusher].state = "run"
    BY <1>1 DEF Moves, All
  <1>6. \A g \in Segments : mutex[g] = Flusher => mutex'[g] = Flusher
    BY <1>1, ThreadsAssumption DEF Frame, Locks
  <1>7. CallOfFlusher'
    BY <1>1, <1>2, <1>5, <1>6 DEF CallOfFlusher
  <1>8. count' = Cardinality(Listed')
    BY <1>1 DEF Listed
  <1> QED BY <1>4, <1>7, <1>8

\* Both together.
LEMMA CalmKeeps ==
    ASSUME EntriesInv, Base', NEW t \in Threads, NEW s \in SAs \cup {NoSA}, NEW c \in CallRec, NEW W,
           Moves(t, c, W), \A u \in All : u \in W => call[u].state = "asleep",
           c.at \in {NoSA, s}, Frame(t, s, W), UNCHANGED <<table, count, life, shutdown>>,
           Flushed => c.op # "destroy", CallSound(t)', s \in SAs => EntrySound(s)'
    PROVE  EntriesInv'
  <1>1. t \in All
    BY DEF All
  <1> QED BY <1>1, CalmStep, StepKeeps

\* The frame of a step at one entry of the table.
LEMMA CalmFrame ==
    ASSUME NEW t \in All, NEW s \in SAs \cup {NoSA}, NEW W, UNCHANGED <<table, life>>,
           \A x \in SAs \ {s} : entry'[x] = entry[x],
           \A x \in SAs : entry[x].driveout_threads => entry'[x].driveout_threads,
           \A u \in Threads \ {t} : held'[u] = held[u],
           t \in Threads => \A x \in SAs \ {s} : x \in held'[t] <=> x \in held[t],
           Locks(t), Passes(t, s, W)
    PROVE  Frame(t, s, W)
  <1>1. OthersKept(t, s)
    BY DEF OthersKept
  <1>2. Marks /\ Frees(t, s)
    BY DEF Marks, Frees
  <1> QED BY <1>1, <1>2 DEF Frame

\* Steps that change nothing of this.
LEMMA NothingKeeps ==
    ASSUME EntriesInv, Base', UNCHANGED <<table, count, entry, life, mutex, call, held>>,
           Flushed' <=> Flushed, Flushed => shutdown'.rng_gone
    PROVE  EntriesInv'
  <1>1. FlushSound'
    BY DEF EntriesInv, FlushSound, Flushed
  <1>2. CallOfFlusher' /\ count' = Cardinality(Listed')
    BY DEF EntriesInv, CallOfFlusher, Listed, Flushed
  <1>3. \A t \in All : CallSound(t)'
    BY DEF EntriesInv, CallSound, CallShape, CallOfThread
  <1>4. \A s \in SAs : EntrySound(s)'
    BY DEF EntriesInv, EntrySound, Waiters, Sleepers, Minds
  <1> QED BY <1>1, <1>2, <1>3, <1>4 DEF EntriesInv

\* A thread takes an entry and its call ends.
LEMMA TakeKeeps ==
    ASSUME EntriesInv, Base', NEW t \in Threads, NEW s \in SAs, NEW c \in CallRec, NEW W,
           Moves(t, c, W), \A u \in All : u \in W => call[u].state = "asleep",
           c.op = "none", c.at = NoSA, c.state = "run", life[s] = "listed",
           \A x \in SAs \ {s} : entry'[x] = entry[x],
           entry'[s].checked_out = t, entry'[s].driveout_threads = entry[s].driveout_threads,
           entry'[s].waiting_threads = Cardinality(Waiters(s) \ {t}),
           held' = [held EXCEPT ![t] = @ \cup {s}], Locks(t), Passes(t, s, W),
           UNCHANGED <<table, count, life, shutdown>>
    PROVE  EntriesInv'
  <1>1. /\ t \in All /\ held \in [Threads -> SUBSET SAs] /\ call'[t] = c /\ t # Flusher
        /\ s # NoSA /\ EntrySound(s)
    BY SAsAssumption, ThreadsAssumption DEF EntriesInv, Base, OwnInv, Typed, All, Moves
  <1>2. Frame(t, s, W)
    BY <1>1, CalmFrame
  <1>3. CallSound(t)'
    BY <1>1 DEF CallSound, CallShape, CallOfThread
  <1>4. Cardinality(Waiters(s)') = Cardinality(Waiters(s) \ {t})
    <2>1. t \notin Waiters(s)'
      BY <1>1 DEF Waiters
    <2>2. Cardinality(Waiters(s) \ {t}) \in Nat
      BY WaitersFinite, FS_RemoveElement, FS_CardinalityType
    <2> QED BY <1>1, <2>1, <2>2, WaitersStep
  <1>5. s \in held'[t] /\ Minds(t, s)'
    BY <1>1 DEF Minds
  <1>6. EntrySound(s)'
    BY <1>1, <1>4, <1>5 DEF EntrySound
  <1> QED BY <1>1, <1>2, <1>3, <1>6, CalmKeeps

\* A thread waits at an entry that another one has.
LEMMA SleepKeeps ==
    ASSUME EntriesInv, Base', NEW t \in Threads, NEW s \in SAs, NEW c \in CallRec, NEW W,
           Moves(t, c, W), \A u \in All : u \in W => call[u].state = "asleep",
           c.op \in {"checkout", "enumerate"}, c.at = s, c.state = "asleep", s \notin held[t],
           c.op = "enumerate" => held[t] = {} /\ c.segment = Row[s], life[s] = "listed", Busy(s),
           \A x \in SAs \ {s} : entry'[x] = entry[x],
           entry'[s].checked_out = entry[s].checked_out,
           entry'[s].driveout_threads = entry[s].driveout_threads,
           entry'[s].waiting_threads = Cardinality(Waiters(s) \ {t}) + 1,
           Locks(t), Passes(t, s, W), UNCHANGED <<table, count, life, shutdown, held>>
    PROVE  EntriesInv'
  <1>1. /\ t \in All /\ call'[t] = c /\ t # Flusher /\ s # NoSA /\ EntrySound(s)
    BY SAsAssumption, ThreadsAssumption DEF EntriesInv, All, Moves
  <1>2. Frame(t, s, W)
    BY <1>1, CalmFrame
  <1>3. CallSound(t)'
    BY <1>1 DEF CallSound, CallShape, CallOfThread
  <1>4. Cardinality(Waiters(s)') = Cardinality(Waiters(s) \ {t}) + 1
    BY <1>1, WaitersStep
  <1>5. \E u \in All : Minds(u, s)'
    <2> DEFINE h == entry[s].checked_out
    <2>1. h \in All \ {t} /\ Minds(h, s)
      BY BusyMinds DEF All
    <2> HIDE DEF h
    <2> QED BY <1>1, <1>2, <2>1, StillMinds
  <1>6. EntrySound(s)'
    BY <1>1, <1>4, <1>5 DEF EntrySound
  <1> QED BY <1>1, <1>2, <1>3, <1>6, CalmKeeps

\* A thread that enumerates the table is at an entry, with the mutex of the segment.
LEMMA RunKeeps ==
    ASSUME EntriesInv, Base', NEW t \in Threads, NEW s \in SAs, NEW c \in CallRec, NEW W,
           Moves(t, c, W), \A u \in All : u \in W => call[u].state = "asleep",
           c.op = "enumerate", c.at = s, c.segment = Row[s], c.state = "run",
           held[t] = {}, life[s] = "listed", mutex'[Row[s]] = t,
           \A x \in SAs \ {s} : entry'[x] = entry[x],
           entry'[s].checked_out = entry[s].checked_out,
           entry'[s].driveout_threads = entry[s].driveout_threads,
           entry'[s].waiting_threads = Cardinality(Waiters(s) \ {t}),
           Locks(t), Passes(t, s, W), UNCHANGED <<table, count, life, shutdown, held>>
    PROVE  EntriesInv'
  <1>1. /\ t \in All /\ call'[t] = c /\ t # Flusher /\ s # NoSA /\ EntrySound(s)
    BY SAsAssumption, ThreadsAssumption DEF EntriesInv, All, Moves
  <1>2. Frame(t, s, W)
    BY <1>1, CalmFrame
  <1>3. CallSound(t)'
    BY <1>1 DEF CallSound, CallShape, CallOfThread
  <1>4. Cardinality(Waiters(s)') = Cardinality(Waiters(s) \ {t})
    <2>1. t \notin Waiters(s)'
      BY <1>1 DEF Waiters
    <2>2. Cardinality(Waiters(s) \ {t}) \in Nat
      BY WaitersFinite, FS_RemoveElement, FS_CardinalityType
    <2> QED BY <1>1, <2>1, <2>2, WaitersStep
  <1>5. Minds(t, s)'
    BY <1>1 DEF Minds
  <1>6. EntrySound(s)'
    BY <1>1, <1>4, <1>5 DEF EntrySound
  <1> QED BY <1>1, <1>2, <1>3, <1>6, CalmKeeps

\* A thread that is in no call or runs does not wait at any entry.
LEMMA NoWaiter ==
    ASSUME EntriesInv, NEW t \in Threads, NEW s \in SAs, Idle(t) \/ call[t].state = "run"
    PROVE  /\ t \notin Waiters(s) /\ t \notin Sleepers(s)
           /\ Cardinality(Waiters(s) \ {t}) = entry[s].waiting_threads
  <1>1. t \notin Waiters(s) /\ t \notin Sleepers(s)
    BY DEF Waiters, Sleepers, Idle, EntriesInv, CallSound, CallShape, All
  <1>2. Waiters(s) \ {t} = Waiters(s)
    BY <1>1
  <1> QED BY <1>1, <1>2 DEF EntriesInv, EntrySound

\* A thread that waits is counted.
LEMMA OneWaiter ==
    ASSUME EntriesInv, NEW t \in Threads, NEW s \in SAs, call[t].at = s,
           call[t].op \in {"checkout", "enumerate"}, call[t].state = "woken"
    PROVE  /\ t \in Waiters(s) /\ t \notin Sleepers(s)
           /\ Cardinality(Waiters(s) \ {t}) = entry[s].waiting_threads - 1
  <1>1. t \in Waiters(s) /\ t \notin Sleepers(s)
    BY DEF Waiters, Sleepers
  <1>2. IsFiniteSet(Waiters(s))
    BY WaitersFinite
  <1>3. Cardinality(Waiters(s) \ {t}) = Cardinality(Waiters(s)) - 1
    BY <1>1, <1>2, FS_RemoveElement
  <1> QED BY <1>1, <1>3 DEF EntriesInv, EntrySound

\* checkout(), checkout_by_message()
LEMMA CheckoutKeeps ==
    ASSUME EntriesInv, Base', NEW t \in Threads, NEW s \in SAs, Checkout(t, s)
    PROVE  EntriesInv'
  <1>1. /\ call \in [All -> CallRec] /\ entry \in [SAs -> EntryRec] /\ t \in All
        /\ Idle(t) /\ call[t] \in CallRec /\ CallSound(t) /\ NoSA \notin SAs
        /\ UNCHANGED <<table, count, life, connected, shutdown, mutex>>
    BY SAsAssumption DEF EntriesInv, Base, OwnInv, Typed, All, Checkout
  <1>2. call[t].at = NoSA /\ call[t].state = "run" /\ call[t].op = "none"
    BY <1>1 DEF CallSound, CallShape, Idle
  <1>3. Locks(t) /\ \A W : Passes(t, s, W)
    BY <1>1, <1>2 DEF Locks, Passes
  <1>4. Cardinality(Waiters(s) \ {t}) = entry[s].waiting_threads
    BY <1>1, NoWaiter
  <1>5. CASE UNCHANGED <<entry, call, held>>
    <2>1. Flushed' <=> Flushed
      BY <1>1 DEF Flushed
    <2>2. Flushed => shutdown'.rng_gone
      BY <1>1 DEF EntriesInv, FlushSound
    <2> QED BY <1>1, <1>5, <2>1, <2>2, NothingKeeps
  <1>6. CASE /\ life[s] = "listed" /\ Busy(s)
             /\ entry' = [entry EXCEPT ![s].waiting_threads = @ + 1]
             /\ call' = [call EXCEPT ![t] = Asleep([NoCall EXCEPT !.op = "checkout"], s)]
             /\ UNCHANGED held
    <2> DEFINE n == [NoCall EXCEPT !.op = "checkout"]  c == Asleep(n, s)  W == {}
    <2>1. n \in CallRec /\ n.op = "checkout"
      BY NewCalls
    <2> HIDE DEF n
    <2>2. c \in CallRec /\ c.op = "checkout" /\ c.at = s /\ c.segment = Row[s] /\ c.state = "asleep"
      BY <2>1, AsleepCall
    <2>3. call' = [call EXCEPT ![t] = c]
      BY <1>6 DEF n
    <2> HIDE DEF c
    <2>4. Moves(t, c, W) /\ \A u \in All : u \in W => call[u].state = "asleep"
      BY <1>1, <2>2, <2>3, ExceptMoves
    <2> HIDE DEF W
    <2>5. s \notin held[t]
      <3>1. held[t] = {} \/ (s \in unique[t].todo /\ held[t] = {unique[t].sa})
        BY DEF Checkout
      <3>2. unique[t].sa \notin unique[t].todo
        BY DEF EntriesInv, Base, RestSound
      <3> QED BY <3>1, <3>2
    <2>6. 1 \in {-1, 1} /\ entry' = [entry EXCEPT ![s].waiting_threads = @ + 1]
      BY <1>6
    <2>7. /\ \A x \in SAs \ {s} : entry'[x] = entry[x]
          /\ entry'[s].checked_out = entry[s].checked_out
          /\ entry'[s].driveout_threads = entry[s].driveout_threads
          /\ entry'[s].waiting_threads = entry[s].waiting_threads + 1
      BY <1>1, <2>6, WaitingEntry
    <2> QED BY <1>1, <1>3, <1>4, <1>6, <2>2, <2>4, <2>5, <2>7, SleepKeeps
  <1>7. CASE /\ life[s] = "listed" /\ ~Busy(s) /\ ~entry[s].driveout_threads
             /\ Take(t, s, entry) /\ UNCHANGED call
    <2> DEFINE c == call[t]  W == {}
    <2>1. Moves(t, c, W) /\ \A u \in All : u \in W => call[u].state = "asleep"
      BY <1>1, <1>7, SameMoves
    <2>2. c \in CallRec /\ c.op = "none" /\ c.at = NoSA /\ c.state = "run"
      BY <1>1, <1>2
    <2> HIDE DEF c, W
    <2>3. /\ entry' = [entry EXCEPT ![s].checked_out = t]
          /\ held' = [held EXCEPT ![t] = @ \cup {s}] /\ t \in Threads \cup {NoThread}
      BY <1>7 DEF Take
    <2>4. /\ \A x \in SAs \ {s} : entry'[x] = entry[x]
          /\ entry'[s].checked_out = t
          /\ entry'[s].driveout_threads = entry[s].driveout_threads
          /\ entry'[s].waiting_threads = entry[s].waiting_threads
      BY <1>1, <2>3, TakenEntry
    <2>5. held' = [held EXCEPT ![t] = @ \cup {s}] /\ life[s] = "listed"
      BY <1>7, <2>3
    <2>6. entry'[s].waiting_threads = Cardinality(Waiters(s) \ {t})
      BY <1>4, <2>4
    <2>7. UNCHANGED <<table, count, life, shutdown>> /\ Locks(t) /\ Passes(t, s, W)
      BY <1>1, <1>3
    <2> QED BY <2>1, <2>2, <2>4, <2>5, <2>6, <2>7, TakeKeeps
  <1> QED BY <1>5, <1>6, <1>7 DEF Checkout

\* The call of a thread ends, and those that wait at the entry are signalled.
LEMMA SignalKeeps ==
    ASSUME EntriesInv, Base', NEW t \in Threads, NEW s \in SAs, NEW c \in CallRec, NEW W,
           W \in Signal(s), Moves(t, c, W), c.op = "none", c.at = NoSA, c.state = "run",
           life[s] = "listed", t \notin Sleepers(s), call[t].at \in {NoSA, s},
           \A x \in SAs \ {s} : entry'[x] = entry[x],
           entry'[s].checked_out # NoThread => s \in held'[entry'[s].checked_out],
           entry'[s].driveout_threads = entry[s].driveout_threads,
           entry'[s].waiting_threads = Cardinality(Waiters(s) \ {t}),
           \A u \in Threads \ {t} : held'[u] = held[u],
           \A x \in SAs \ {s} : x \in held'[t] <=> x \in held[t],
           UNCHANGED <<table, count, life, shutdown, mutex>>
    PROVE  EntriesInv'
  <1>1. /\ t \in All /\ call'[t] = c /\ t # Flusher /\ NoSA \notin SAs /\ EntrySound(s)
        /\ \A u \in All : u \in W => call[u].state = "asleep"
    BY SAsAssumption, ThreadsAssumption, WokenSleep DEF EntriesInv, All, Moves
  <1>2. Locks(t) /\ Passes(t, s, W)
    BY <1>1 DEF Locks, Passes
  <1>3. Frame(t, s, W)
    BY <1>1, <1>2, CalmFrame
  <1>4. CallSound(t)'
    BY <1>1 DEF CallSound, CallShape, CallOfThread
  <1>5. Cardinality(Waiters(s)') = Cardinality(Waiters(s) \ {t})
    <2>1. t \notin Waiters(s)'
      BY <1>1 DEF Waiters
    <2>2. Cardinality(Waiters(s) \ {t}) \in Nat
      BY WaitersFinite, FS_RemoveElement, FS_CardinalityType
    <2> QED BY <1>1, <2>1, <2>2, WaitersStep
  <1>6. Sleepers(s)' # {} => \E u \in All : Minds(u, s)'
    BY <1>1, SignalMinds
  <1>7. EntrySound(s)'
    BY <1>1, <1>5, <1>6 DEF EntrySound
  <1> QED BY <1>1, <1>3, <1>4, <1>7, CalmKeeps

\* A thread that waited in checkout()
LEMMA WakeCheckoutKeeps ==
    ASSUME EntriesInv, Base', NEW t \in Threads, WakeCheckout(t)
    PROVE  EntriesInv'
  <1> DEFINE s == call[t].at
  <1>1. /\ call \in [All -> CallRec] /\ entry \in [SAs -> EntryRec] /\ t \in All
        /\ held \in [Threads -> SUBSET SAs] /\ OwnInv /\ CallSound(t)
        /\ Waking(t, "checkout")
        /\ UNCHANGED <<table, count, life, connected, shutdown, mutex, unique>>
    BY DEF EntriesInv, Base, OwnInv, Typed, All, WakeCheckout
  <1>2. /\ s \in SAs /\ life[s] = "listed" /\ call[t] \in CallRec /\ call[t].op = "checkout"
        /\ call[t].state = "woken" /\ s \notin held[t] /\ EntrySound(s) /\ NoSA \notin SAs
    BY <1>1, WakingAt, SAsAssumption DEF Waking, EntriesInv, CallSound, CallOfThread
  <1>3. /\ t \in Waiters(s) /\ t \notin Sleepers(s)
        /\ Cardinality(Waiters(s) \ {t}) = entry[s].waiting_threads - 1
    BY <1>2, OneWaiter
  <1>4. Locks(t) /\ \A W : Passes(t, s, W)
    BY <1>1 DEF Locks, Passes
  <1>n. /\ NotWaiting(s) \in [SAs -> EntryRec]
        /\ \A x \in SAs \ {s} : NotWaiting(s)[x] = entry[x]
        /\ NotWaiting(s)[s].checked_out = entry[s].checked_out
        /\ NotWaiting(s)[s].driveout_threads = entry[s].driveout_threads
        /\ NotWaiting(s)[s].waiting_threads = entry[s].waiting_threads - 1
    BY <1>1, <1>2, NotWaitingEntry
  <1>5. CASE /\ BusyAgain(s) /\ call' = [call EXCEPT ![t].state = "asleep"]
             /\ UNCHANGED <<entry, held>>
    <2> DEFINE c == [call[t] EXCEPT !.state = "asleep"]  W == {}
    <2>1. c \in CallRec /\ c.op = "checkout" /\ c.at = s /\ c.state = "asleep"
      BY <1>2 DEF CallRec
    <2>2. call' = [call EXCEPT ![t] = c]
      BY <1>5
    <2> HIDE DEF c
    <2>3. Moves(t, c, W) /\ \A u \in All : u \in W => call[u].state = "asleep"
      BY <1>1, <2>1, <2>2, ExceptMoves
    <2> HIDE DEF W
    <2>4. entry'[s].waiting_threads = Cardinality(Waiters(s) \ {t}) + 1
      BY <1>1, <1>2, <1>3, <1>5, EntryFields
    <2> QED BY <1>1, <1>2, <1>4, <1>5, <2>1, <2>3, <2>4, SleepKeeps DEF BusyAgain
  <1>6. CASE /\ entry[s].driveout_threads /\ entry' = NotWaiting(s)
             /\ \E W \in Signal(s) : call' = Calls(t, NoCall, W)
             /\ UNCHANGED held
    <2>1. PICK W \in Signal(s) : call' = Calls(t, NoCall, W)
      BY <1>6
    <2> DEFINE c == NoCall
    <2>2. c \in CallRec /\ c.op = "none" /\ c.at = NoSA /\ c.state = "run"
      BY NewCalls
    <2>3. Moves(t, c, W)
      BY <1>1, <2>1, <2>2, CallsMoves
    <2> HIDE DEF c
    <2>4. entry'[s].checked_out # NoThread => s \in held'[entry'[s].checked_out]
      BY <1>2, <1>n, <1>6 DEF EntrySound
    <2> HIDE DEF s
    <2>5. /\ \A x \in SAs \ {s} : entry'[x] = entry[x]
          /\ entry'[s].driveout_threads = entry[s].driveout_threads
          /\ entry'[s].waiting_threads = Cardinality(Waiters(s) \ {t})
      BY <1>3, <1>n, <1>6
    <2>6. /\ \A u \in Threads \ {t} : held'[u] = held[u]
          /\ \A x \in SAs \ {s} : x \in held'[t] <=> x \in held[t]
      BY <1>6
    <2>7. call[t].at \in {NoSA, s}
      BY DEF s
    <2> QED BY <1>1, <1>2, <1>3, <2>1, <2>2, <2>3, <2>4, <2>5, <2>6, <2>7, SignalKeeps
  <1>7. CASE /\ ~BusyAgain(s) /\ ~entry[s].driveout_threads
             /\ Take(t, s, NotWaiting(s)) /\ call' = [call EXCEPT ![t] = NoCall]
    <2> DEFINE c == NoCall  W == {}
    <2>1. c \in CallRec /\ c.op = "none" /\ c.at = NoSA /\ c.state = "run"
      BY NewCalls
    <2>2. Moves(t, c, W) /\ \A u \in All : u \in W => call[u].state = "asleep"
      BY <1>1, <1>7, <2>1, ExceptMoves
    <2> HIDE DEF c, W
    <2>3. /\ entry' = [NotWaiting(s) EXCEPT ![s].checked_out = t]
          /\ held' = [held EXCEPT ![t] = @ \cup {s}] /\ t \in Threads \cup {NoThread}
      BY <1>7 DEF Take
    <2> HIDE DEF s
    <2> DEFINE E == NotWaiting(s)
    <2> HIDE DEF E
    <2>4. /\ \A x \in SAs \ {s} : entry'[x] = E[x]
          /\ entry'[s].checked_out = t
          /\ entry'[s].driveout_threads = E[s].driveout_threads
          /\ entry'[s].waiting_threads = E[s].waiting_threads
      BY <1>2, <1>n, <2>3, TakenEntry DEF E
    <2>5. /\ \A x \in SAs \ {s} : entry'[x] = entry[x]
          /\ entry'[s].driveout_threads = entry[s].driveout_threads
          /\ entry'[s].waiting_threads = Cardinality(Waiters(s) \ {t})
      BY <1>3, <1>n, <2>4 DEF E
    <2> QED BY <1>1, <1>2, <1>4, <2>1, <2>2, <2>3, <2>4, <2>5, TakeKeeps
  <1> QED BY <1>5, <1>6, <1>7 DEF WakeCheckout

\* checkout_by_id() and its like begin.
LEMMA EnumerateKeeps ==
    ASSUME EntriesInv, Base', NEW t \in Threads, NEW goal \in SAs, Enumerate(t, goal)
    PROVE  EntriesInv'
  <1> DEFINE c == [NoCall EXCEPT !.op = "enumerate", !.goal = goal, !.segment = 1]
             W == {}  s == NoSA
  <1>1. /\ call \in [All -> CallRec] /\ t \in All /\ Idle(t) /\ held[t] = {} /\ CallSound(t)
        /\ call' = [call EXCEPT ![t] = c] /\ NoSA \notin SAs /\ t # Flusher
        /\ UNCHANGED <<table, count, entry, life, connected, shutdown, mutex, held, unique>>
    BY SAsAssumption, ThreadsAssumption DEF EntriesInv, Base, OwnInv, Typed, All, Enumerate
  <1>2. c \in CallRec /\ c.op = "enumerate" /\ c.at = NoSA /\ c.state = "run"
    <2>1. 1 \in 0..SegmentCount + 1 /\ 0 \in 0..SegmentCount + 1
      BY SegmentsAssumption
    <2> QED BY <2>1 DEF NoCall, CallRec
  <1> HIDE DEF c
  <1>3. Moves(t, c, W) /\ \A u \in All : u \in W => call[u].state = "asleep"
    BY <1>1, <1>2, ExceptMoves
  <1> HIDE DEF W
  <1>4. call[t].at = NoSA
    BY <1>1 DEF CallSound, CallShape, Idle
  <1>5. Locks(t) /\ Passes(t, s, W)
    BY <1>1, <1>4 DEF Locks, Passes
  <1>6. Frame(t, s, W)
    BY <1>1, <1>5, CalmFrame
  <1>7. CallSound(t)'
    BY <1>1, <1>2, <1>3 DEF CallSound, CallShape, CallOfThread, Moves
  <1> QED BY <1>1, <1>2, <1>3, <1>6, <1>7, CalmKeeps

\* An entry is visited, and the one before it is signalled.
LEMMA VisitKeeps ==
    ASSUME EntriesInv, Base', NEW t \in Threads, NEW s \in SAs, NEW g, NEW E \in [SAs -> EntryRec],
           Visit(t, s, g, E), g = Row[s], life[s] = "listed", held[t] = {},
           call[t].op = "enumerate", call[t].segment = g, mutex[g] \in {NoThread, t},
           call[t].at \in SAs \ {s} => call[t].state = "run",
           \A x \in SAs \ {s} : E[x] = entry[x],
           E[s].checked_out = entry[s].checked_out,
           E[s].driveout_threads = entry[s].driveout_threads,
           E[s].waiting_threads = Cardinality(Waiters(s) \ {t}),
           UNCHANGED <<table, count, life, shutdown>>
    PROVE  EntriesInv'
  <1> DEFINE a == call[t].at
  <1>1. /\ call \in [All -> CallRec] /\ t \in All /\ call[t] \in CallRec
        /\ mutex \in [Segments -> All \cup {NoThread}] /\ g \in Segments
    BY SegmentsAssumption DEF EntriesInv, Base, OwnInv, Typed, RestSound, All
  <1>2. /\ \A W \in Signal(a) :
              Passes(t, s, W) /\ \A u \in All : u \in W => call[u].state = "asleep"
        /\ \A W \in Leaving(t, s) :
              Passes(t, s, W) /\ \A u \in All : u \in W => call[u].state = "asleep"
    BY WokenSleep DEF Passes, Signal, Leaving
  <1>3. ASSUME NEW v, mutex' = [mutex EXCEPT ![g] = v]
        PROVE  Locks(t) /\ mutex'[g] = v
    BY <1>1, <1>3 DEF Locks
  <1> HIDE DEF a
  <1>4. CASE /\ Busy(s) /\ entry' = [E EXCEPT ![s].waiting_threads = @ + 1]
             /\ \E W \in Leaving(t, s) : call' = Calls(t, Asleep(call[t], s), W)
             /\ mutex' = [mutex EXCEPT ![g] = NoThread] /\ UNCHANGED held
    <2>1. PICK W \in Leaving(t, s) : call' = Calls(t, Asleep(call[t], s), W)
      BY <1>4
    <2> DEFINE c == Asleep(call[t], s)
    <2>2. c \in CallRec /\ c.op = "enumerate" /\ c.at = s /\ c.segment = Row[s] /\ c.state = "asleep"
      BY <1>1, AsleepCall
    <2> HIDE DEF c
    <2>3. Moves(t, c, W)
      BY <1>1, <2>1, <2>2, CallsMoves DEF c
    <2>4. 1 \in {-1, 1} /\ entry' = [E EXCEPT ![s].waiting_threads = @ + 1]
      BY <1>4
    <2>5. /\ \A x \in SAs \ {s} : entry'[x] = E[x]
          /\ entry'[s].checked_out = E[s].checked_out
          /\ entry'[s].driveout_threads = E[s].driveout_threads
          /\ entry'[s].waiting_threads = E[s].waiting_threads + 1
      BY <2>4, WaitingEntry
    <2>6. Locks(t) /\ Passes(t, s, W) /\ \A u \in All : u \in W => call[u].state = "asleep"
      BY <1>2, <1>3, <1>4
    <2> QED BY <1>4, <2>2, <2>3, <2>5, <2>6, SleepKeeps
  <1>5. CASE /\ \E W \in Signal(a) :
                   call' = Calls(t, [call[t] EXCEPT !.at = s, !.state = "run"], W)
             /\ mutex' = [mutex EXCEPT ![g] = t] /\ entry' = E /\ UNCHANGED held
    <2> DEFINE c == [call[t] EXCEPT !.at = s, !.state = "run"]
    <2>1. PICK W \in Signal(a) : call' = Calls(t, c, W)
      BY <1>5
    <2>2. c \in CallRec /\ c.op = "enumerate" /\ c.at = s /\ c.segment = Row[s] /\ c.state = "run"
      BY <1>1 DEF CallRec
    <2> HIDE DEF c
    <2>3. Moves(t, c, W)
      BY <1>1, <2>1, <2>2, CallsMoves
    <2>4. Passes(t, s, W) /\ \A u \in All : u \in W => call[u].state = "asleep"
      BY <1>2
    <2>5. Locks(t) /\ mutex'[Row[s]] = t
      <3>1. mutex' = [mutex EXCEPT ![g] = t]
        BY <1>5
      <3> QED BY <1>3, <3>1
    <2> QED BY <1>5, <2>2, <2>3, <2>4, <2>5, RunKeeps
  <1>6. CASE /\ \E W \in Signal(a) : call' = Calls(t, NoCall, W)
             /\ Take(t, s, E) /\ mutex' = [mutex EXCEPT ![g] = NoThread]
    <2> DEFINE c == NoCall
    <2>1. PICK W \in Signal(a) : call' = Calls(t, c, W)
      BY <1>6
    <2>2. c \in CallRec /\ c.op = "none" /\ c.at = NoSA /\ c.state = "run"
      BY NewCalls
    <2> HIDE DEF c
    <2>3. Moves(t, c, W)
      BY <1>1, <2>1, <2>2, CallsMoves
    <2>4. Locks(t) /\ Passes(t, s, W) /\ \A u \in All : u \in W => call[u].state = "asleep"
      BY <1>2, <1>3, <1>6
    <2>5. /\ entry' = [E EXCEPT ![s].checked_out = t]
          /\ held' = [held EXCEPT ![t] = @ \cup {s}] /\ t \in Threads \cup {NoThread}
      BY <1>6 DEF Take
    <2>6. /\ \A x \in SAs \ {s} : entry'[x] = E[x]
          /\ entry'[s].checked_out = t
          /\ entry'[s].driveout_threads = E[s].driveout_threads
          /\ entry'[s].waiting_threads = E[s].waiting_threads
      BY <2>5, TakenEntry
    <2>7. /\ \A x \in SAs \ {s} : entry'[x] = entry[x]
          /\ entry'[s].driveout_threads = entry[s].driveout_threads
          /\ entry'[s].waiting_threads = Cardinality(Waiters(s) \ {t})
          /\ held' = [held EXCEPT ![t] = @ \cup {s}]
      BY <2>5, <2>6
    <2> QED BY <2>2, <2>3, <2>4, <2>6, <2>7, TakeKeeps
  <1> QED BY <1>4, <1>5, <1>6 DEF Visit, a

\* The same of an entry at which the thread waited.
LEMMA WakeEnumerateKeeps ==
    ASSUME EntriesInv, Base', NEW t \in Threads, WakeEnumerate(t)
    PROVE  EntriesInv'
  <1> DEFINE s == call[t].at  E == NotWaiting(s)
  <1>1. /\ entry \in [SAs -> EntryRec] /\ t \in All /\ OwnInv /\ CallSound(t)
        /\ Waking(t, "enumerate") /\ Visit(t, s, call[t].segment, E)
        /\ UNCHANGED <<table, count, life, connected, shutdown, unique>>
    BY DEF EntriesInv, Base, OwnInv, Typed, All, WakeEnumerate
  <1>2. /\ s \in SAs /\ life[s] = "listed" /\ call[t].op = "enumerate" /\ NoSA \notin SAs
        /\ call[t].state = "woken" /\ Free(s)
    BY <1>1, WakingAt, SAsAssumption DEF Waking
  <1>3. held[t] = {} /\ call[t].segment = Row[s]
    BY <1>1, <1>2 DEF CallSound, CallOfThread
  <1>4. Cardinality(Waiters(s) \ {t}) = entry[s].waiting_threads - 1
    BY <1>2, OneWaiter
  <1>5. /\ E \in [SAs -> EntryRec] /\ \A x \in SAs \ {s} : E[x] = entry[x]
        /\ E[s].checked_out = entry[s].checked_out
        /\ E[s].driveout_threads = entry[s].driveout_threads
        /\ E[s].waiting_threads = entry[s].waiting_threads - 1
    BY <1>1, <1>2, NotWaitingEntry
  <1>6. mutex[Row[s]] = NoThread /\ call[t].at \notin SAs \ {s}
    BY <1>2 DEF Free
  <1> HIDE DEF s, E
  <1> QED BY <1>1, <1>2, <1>3, <1>4, <1>5, <1>6, VisitKeeps

\* enumerate() goes on, to another entry or another segment.
LEMMA EnumerateNextKeeps ==
    ASSUME EntriesInv, Base', NEW t \in Threads, EnumerateNext(t)
    PROVE  EntriesInv'
  <1> DEFINE g == call[t].segment  a == call[t].at
             s == IF a = NoSA THEN IF g \in Segments /\ table[g] # <<>> THEN table[g][1] ELSE NoSA
                  ELSE Following(a)
  <1>1. /\ call \in [All -> CallRec] /\ entry \in [SAs -> EntryRec] /\ t \in All /\ OwnInv
        /\ CallSound(t) /\ call[t] \in CallRec /\ NoSA \notin SAs /\ t # Flusher
        /\ mutex \in [Segments -> All \cup {NoThread}] /\ a \in SAs \cup {NoSA}
    BY CallFields, SAsAssumption, ThreadsAssumption
       DEF EntriesInv, Base, RestSound, OwnInv, Typed, All
  <1>2. /\ call[t].op = "enumerate" /\ call[t].state = "run"
        /\ g \in Segments => mutex[g] = IF a = NoSA THEN NoThread ELSE t
        /\ UNCHANGED <<table, count, life, connected, shutdown, unique>>
    BY DEF EnumerateNext
  <1>3. held[t] = {} /\ (a # NoSA => g = Row[a] /\ g \in Segments)
    BY <1>1, <1>2, SegmentsAssumption DEF CallSound, CallOfThread
  <1>4. s # NoSA => s \in SAs /\ life[s] = "listed" /\ Row[s] = g
    <2>1. CASE a = NoSA
      BY <1>1, <2>1, RowEntries
    <2>2. CASE a # NoSA
      BY <1>1, <1>3, <2>2, RowEntries
    <2> QED BY <2>1, <2>2
  <1>5. /\ \/ Visit(t, s, g, entry)
           \/ /\ s = NoSA /\ g \in Segments
              /\ \E W \in Signal(a) :
                    call' = Calls(t, [call[t] EXCEPT !.at = NoSA, !.segment = g + 1], W)
              /\ mutex' = [mutex EXCEPT ![g] = NoThread] /\ UNCHANGED <<entry, held>>
           \/ /\ g \notin Segments /\ call' = [call EXCEPT ![t] = NoCall]
              /\ UNCHANGED <<entry, held, mutex>>
    BY DEF EnumerateNext
  <1> HIDE DEF s
  <1>6. CASE Visit(t, s, g, entry)
    <2>1. s # NoSA
      BY <1>6 DEF Visit
    <2>2. s \in SAs /\ life[s] = "listed" /\ g = Row[s] /\ g \in Segments
      BY <1>4, <2>1, SegmentsAssumption
    <2>3. entry[s].waiting_threads = Cardinality(Waiters(s) \ {t})
      BY <1>2, <2>2, NoWaiter
    <2>4. mutex[g] \in {NoThread, t}
      BY <1>2, <2>2
    <2> QED BY <1>1, <1>2, <1>3, <1>6, <2>2, <2>3, <2>4, VisitKeeps
  <1>7. CASE /\ g \in Segments
             /\ \E W \in Signal(a) :
                   call' = Calls(t, [call[t] EXCEPT !.at = NoSA, !.segment = g + 1], W)
             /\ mutex' = [mutex EXCEPT ![g] = NoThread] /\ UNCHANGED <<entry, held>>
    <2> DEFINE c == [call[t] EXCEPT !.at = NoSA, !.segment = g + 1]  n == NoSA
    <2>1. PICK W \in Signal(a) : call' = Calls(t, c, W)
      BY <1>7
    <2>2. c \in CallRec /\ c.op = "enumerate" /\ c.at = NoSA /\ c.state = "run"
      <3>1. g + 1 \in 0..SegmentCount + 1
        BY <1>7, SegmentsAssumption DEF Segments
      <3> QED BY <1>1, <1>2, <3>1 DEF CallRec
    <2> HIDE DEF c
    <2>3. Moves(t, c, W) /\ \A u \in All : u \in W => call[u].state = "asleep"
      BY <1>1, <2>1, <2>2, CallsMoves, WokenSleep
    <2>4. Locks(t) /\ Passes(t, n, W)
      BY <1>1, <1>2, <1>7, <2>1 DEF Locks, Passes, Signal
    <2>5. Frame(t, n, W)
      BY <1>1, <1>2, <1>7, <2>4, CalmFrame
    <2>6. CallSound(t)'
      BY <1>1, <1>3, <1>7, <2>2, <2>3 DEF CallSound, CallShape, CallOfThread, Moves
    <2> QED BY <1>1, <1>2, <2>2, <2>3, <2>5, <2>6, CalmKeeps
  <1>8. CASE /\ g \notin Segments /\ call' = [call EXCEPT ![t] = NoCall]
             /\ UNCHANGED <<entry, held, mutex>>
    <2> DEFINE c == NoCall  n == NoSA  W == {}
    <2>2. c \in CallRec /\ c.op = "none" /\ c.at = NoSA /\ c.state = "run"
      BY NewCalls
    <2>3. Moves(t, c, W) /\ \A u \in All : u \in W => call[u].state = "asleep"
      BY <1>1, <1>8, <2>2, ExceptMoves
    <2> HIDE DEF c, W
    <2>4. Locks(t) /\ Passes(t, n, W)
      BY <1>1, <1>3, <1>8 DEF Locks, Passes
    <2>5. Frame(t, n, W)
      BY <1>1, <1>2, <1>8, <2>4, CalmFrame
    <2>6. CallSound(t)'
      BY <1>1, <2>2, <2>3 DEF CallSound, CallShape, CallOfThread, Moves
    <2> QED BY <1>1, <1>2, <2>2, <2>3, <2>5, <2>6, CalmKeeps
  <1> QED BY <1>5, <1>6, <1>7, <1>8

\* check_uniqueness() looks up the duplicates.
LEMMA CheckUniquenessKeeps ==
    ASSUME EntriesInv, Base', NEW t \in Threads, NEW s \in SAs, CheckUniqueness(t, s)
    PROVE  EntriesInv'
  <1>1. UNCHANGED <<table, count, entry, life, connected, shutdown, mutex, call, held>>
    BY DEF CheckUniqueness
  <1>2. (Flushed' <=> Flushed) /\ (Flushed => shutdown'.rng_gone)
    BY <1>1 DEF Flushed, EntriesInv, FlushSound
  <1> QED BY <1>1, <1>2, NothingKeeps

\* flush() begins.
LEMMA FlushStartKeeps ==
    ASSUME EntriesInv, Base', FlushStart
    PROVE  EntriesInv'
  <1>1. /\ UNCHANGED <<table, count, entry, life, connected, mutex, call, held, unique>>
        /\ shutdown' = [shutdown EXCEPT !.rng_gone = TRUE]
        /\ shutdown \in [rng_gone : BOOLEAN, new_entries_driveout_threads : BOOLEAN]
    BY DEF FlushStart, EntriesInv, Base, ShutdownTyped
  <1>2. (Flushed' <=> Flushed) /\ shutdown'.rng_gone
    BY <1>1 DEF Flushed
  <1> QED BY <1>1, <1>2, NothingKeeps

-----------------------------------------------------------------------------
(* Entries come and go.                                                    *)

\* The number of entries in the table.
LEMMA ListedStep ==
    ASSUME NEW s \in SAs, \A x \in SAs \ {s} : life'[x] = life[x]
    PROVE  /\ life[s] # "listed" /\ life'[s] = "listed" =>
                 Cardinality(Listed') = Cardinality(Listed) + 1
           /\ life[s] = "listed" /\ life'[s] # "listed" =>
                 Cardinality(Listed') = Cardinality(Listed) - 1
           /\ life[s] # "listed" /\ life'[s] # "listed" => Listed' = Listed
  <1>1. Listed \in SUBSET SAs /\ Listed' \in SUBSET SAs
    BY DEF Listed
  <1>2. IsFiniteSet(Listed)
    BY <1>1, SAsAssumption, FS_Subset
  <1>3. \A x \in SAs : x \in Listed' <=> life'[x] = "listed"
    BY DEF Listed
  <1>4. \A x \in SAs : x \in Listed <=> life[x] = "listed"
    BY DEF Listed
  <1> DEFINE A == Listed  B == Listed'
  <1> HIDE DEF A, B
  <1>5. A \in SUBSET SAs /\ B \in SUBSET SAs /\ IsFiniteSet(A)
    BY <1>1, <1>2 DEF A, B
  <1>6. \A x \in SAs : (x \in B <=> life'[x] = "listed") /\ (x \in A <=> life[x] = "listed")
    BY <1>3, <1>4 DEF A, B
  <1>7. ASSUME life[s] # "listed", life'[s] = "listed"
        PROVE  Cardinality(B) = Cardinality(A) + 1
    <2>1. B = A \cup {s} /\ s \notin A
      BY <1>5, <1>6, <1>7
    <2> QED BY <1>5, <2>1, FS_AddElement
  <1>8. ASSUME life[s] = "listed", life'[s] # "listed"
        PROVE  Cardinality(B) = Cardinality(A) - 1
    <2>1. B = A \ {s} /\ s \in A
      BY <1>5, <1>6, <1>8
    <2> QED BY <1>5, <2>1, FS_RemoveElement
  <1>9. life[s] # "listed" /\ life'[s] # "listed" => B = A
    BY <1>5, <1>6
  <1> QED BY <1>7, <1>8, <1>9 DEF A, B

\* No thread is at an IKE_SA that is not in the table.
LEMMA NobodyThere ==
    ASSUME EntriesInv, NEW s \in SAs, life[s] # "listed"
    PROVE  /\ \A u \in All : call[u].at # s
           /\ Waiters(s) = {} /\ Sleepers(s) = {}
  <1>1. s # NoSA
    BY SAsAssumption
  <1>2. \A u \in All : call[u].at # s
    BY <1>1 DEF EntriesInv, CallSound, CallShape
  <1> QED BY <1>2 DEF Waiters, Sleepers, All

\* create_new()
LEMMA CreateNewKeeps ==
    ASSUME EntriesInv, Base', NEW t \in Threads, NEW s \in SAs, CreateNew(t, s)
    PROVE  EntriesInv'
  <1> DEFINE c == call[t]  W == {}
  <1>1. /\ call \in [All -> CallRec] /\ t \in All /\ life \in [SAs -> Lives] /\ NoSA \notin SAs
        /\ held \in [Threads -> SUBSET SAs] /\ c \in CallRec /\ CallSound(t) /\ EntrySound(s)
        /\ FlushSound /\ CallOfFlusher /\ count = Cardinality(Listed)
    BY SAsAssumption DEF EntriesInv, Base, OwnInv, Typed, All
  <1>2. /\ Idle(t) /\ ~shutdown.rng_gone /\ life[s] = "none"
        /\ life' = [life EXCEPT ![s] = "new"] /\ held' = [held EXCEPT ![t] = @ \cup {s}]
        /\ UNCHANGED <<table, count, entry, connected, shutdown, mutex, call, unique>>
    BY DEF CreateNew
  <1>3. /\ life'[s] = "new" /\ \A x \in SAs \ {s} : life'[x] = life[x]
        /\ \A u \in Threads \ {t} : held'[u] = held[u]
        /\ \A x \in SAs \ {s} : x \in held'[t] <=> x \in held[t]
    BY <1>1, <1>2
  <1>4. /\ Moves(t, c, W) /\ \A u \in All : u \in W => call[u].state = "asleep"
        /\ c.at = NoSA /\ c.op = "none" /\ c.state = "run"
    BY <1>1, <1>2, SameMoves DEF CallSound, CallShape, Idle
  <1>5. \A u \in All : call[u].at # s
    BY <1>2, NobodyThere
  <1>6. Waiters(s)' = Waiters(s) /\ Sleepers(s)' = {}
    BY <1>2, <1>5 DEF Waiters, Sleepers
  <1>7. Frame(t, s, W)
    BY <1>1, <1>2, <1>3, <1>4 DEF Frame, OthersKept, Locks, Marks, Frees, Passes
  <1>8. EntrySound(s)'
    BY <1>1, <1>2, <1>3, <1>6 DEF EntrySound
  <1>9. CallSound(t)'
    BY <1>1, <1>2, <1>4 DEF CallSound, CallShape, CallOfThread
  <1>10. ~Flushed /\ ~Flushed'
    BY <1>1, <1>2 DEF FlushSound, Flushed
  <1>11. FlushSound' /\ CallOfFlusher'
    BY <1>1, <1>2, <1>10 DEF FlushSound, CallOfFlusher
  <1>12. count' = Cardinality(Listed')
    BY <1>1, <1>2, <1>3, ListedStep
  <1> HIDE DEF c, W
  <1> QED BY <1>1, <1>4, <1>7, <1>8, <1>9, <1>11, <1>12, StepKeeps

\* put_entry(), by a thread that may keep the IKE_SA.
LEMMA PutKeeps ==
    ASSUME EntriesInv, Base', NEW t \in Threads, NEW s \in SAs, NEW v \in Threads \cup {NoThread},
           Idle(t), life[s] = "new", PutEntry(s, v), v # NoThread => s \in held'[v],
           UNCHANGED <<shutdown, mutex, call>>,
           \A u \in Threads \ {t} : held'[u] = held[u],
           \A x \in SAs \ {s} : x \in held'[t] <=> x \in held[t]
    PROVE  EntriesInv'
  <1> DEFINE c == call[t]  W == {}
  <1>1. /\ call \in [All -> CallRec] /\ t \in All /\ life \in [SAs -> Lives] /\ NoSA \notin SAs
        /\ c \in CallRec /\ CallSound(t) /\ OwnInv /\ ShutdownTyped
        /\ FlushSound /\ CallOfFlusher /\ count = Cardinality(Listed)
        /\ entry \in [SAs -> EntryRec] /\ table \in [Segments -> Seq(SAs)] /\ Row[s] \in Segments
        /\ \A x \in SAs : Row[x] \in Segments
    BY SAsAssumption, SegmentsAssumption DEF EntriesInv, Base, OwnInv, Typed, All
  <1> DEFINE d == shutdown.new_entries_driveout_threads
             e == [NoEntry EXCEPT !.checked_out = v, !.driveout_threads = d]
  <1>2. e.checked_out = v /\ e.waiting_threads = 0
    <2>1. d \in BOOLEAN
      BY <1>1 DEF ShutdownTyped
    <2> HIDE DEF d
    <2> QED BY <2>1, NewEntry
  <1>3. entry' = [entry EXCEPT ![s] = e]
    BY DEF PutEntry
  <1> HIDE DEF e
  <1>4. entry'[s] = e /\ \A x \in SAs \ {s} : entry'[x] = entry[x]
    BY <1>1, <1>3
  <1> DEFINE q == table[Row[s]]  r == <<s>> \o q
  <1>5. q \in Seq(SAs) /\ IsInjective(q) /\ s \notin Range(q)
    BY <1>1 DEF OwnInv, RowSound
  <1>6. Range(r) = Range(q) \cup {s}
    BY <1>5, RowWith
  <1>7. table' = [table EXCEPT ![Row[s]] = r] /\ count' = count + 1
    BY DEF PutEntry
  <1> HIDE DEF r
  <1>8. /\ s \in Range(table'[Row[s]])
        /\ \A x \in SAs : x \in Range(table[Row[x]]) => x \in Range(table'[Row[x]])
    BY <1>1, <1>6, <1>7
  <1>9. life'[s] = "listed" /\ \A x \in SAs \ {s} : life'[x] = life[x]
    BY <1>1 DEF PutEntry
  <1>10. /\ Moves(t, c, W) /\ \A u \in All : u \in W => call[u].state = "asleep"
         /\ c.at = NoSA /\ c.op = "none" /\ c.state = "run"
    BY <1>1, SameMoves DEF CallSound, CallShape, Idle
  <1>11. \A u \in All : call[u].at # s
    BY NobodyThere
  <1>12. Waiters(s)' = {} /\ Sleepers(s)' = {}
    BY <1>11 DEF Waiters, Sleepers, All
  <1>13. Frame(t, s, W)
    <2>1. OthersKept(t, s)
      BY <1>4, <1>8, <1>9 DEF OthersKept
    <2>2. Locks(t) /\ Marks /\ Frees(t, s)
      BY <1>4, <1>9 DEF Locks, Marks, Frees
    <2> QED BY <1>1, <1>10, <2>1, <2>2 DEF Frame, Passes
  <1>14. EntrySound(s)'
    <2>1. Cardinality({}) = 0
      BY FS_EmptySet
    <2> QED BY <1>2, <1>4, <1>8, <1>12, <2>1 DEF EntrySound
  <1>15. CallSound(t)'
    BY <1>1, <1>10 DEF CallSound, CallShape, CallOfThread
  <1>16. ~Flushed /\ ~Flushed'
    BY <1>1 DEF FlushSound, Flushed
  <1>17. FlushSound' /\ CallOfFlusher'
    BY <1>1, <1>16 DEF FlushSound, CallOfFlusher
  <1>18. count' = Cardinality(Listed')
    BY <1>1, <1>7, <1>9, ListedStep
  <1> HIDE DEF c, W
  <1> QED BY <1>1, <1>10, <1>13, <1>14, <1>15, <1>17, <1>18, StepKeeps

\* checkout_new()
LEMMA CheckoutNewKeeps ==
    ASSUME EntriesInv, Base', NEW t \in Threads, NEW s \in SAs, CheckoutNew(t, s)
    PROVE  EntriesInv'
  <1>1. /\ Idle(t) /\ s \in held[t] /\ life[s] = "new" /\ PutEntry(s, t)
        /\ UNCHANGED <<connected, shutdown, mutex, call, held, unique>>
    BY DEF CheckoutNew
  <1> QED BY <1>1, PutKeeps

\* What a thread holds when it gives s back.
LEMMA Returned ==
    ASSUME held \in [Threads -> SUBSET SAs], NEW t \in Threads, NEW s \in SAs, Return(t, s)
    PROVE  /\ \A u \in Threads \ {t} : held'[u] = held[u]
           /\ \A x \in SAs \ {s} : x \in held'[t] <=> x \in held[t]
           /\ s \notin held'[t]
  BY DEF Return

\* An entry is checked in, and the threads W that wait for it are signalled.
LEMMA CheckinListed ==
    ASSUME EntriesInv, Base', NEW t \in Threads, NEW s \in SAs, NEW W \in Signal(s), Idle(t),
           life[s] = "listed", entry' = [entry EXCEPT ![s].checked_out = NoThread],
           call' = Calls(t, NoCall, W), Return(t, s),
           UNCHANGED <<table, count, life, shutdown, mutex>>
    PROVE  EntriesInv'
  <1> DEFINE c == NoCall
  <1>1. /\ call \in [All -> CallRec] /\ entry \in [SAs -> EntryRec] /\ t \in All
        /\ held \in [Threads -> SUBSET SAs] /\ CallSound(t) /\ NoThread \in Threads \cup {NoThread}
    BY DEF EntriesInv, Base, OwnInv, Typed, All
  <1>2. c \in CallRec /\ c.op = "none" /\ c.at = NoSA /\ c.state = "run"
    BY NewCalls
  <1>3. Moves(t, c, W)
    BY <1>1, <1>2, CallsMoves
  <1> HIDE DEF c
  <1>4. /\ \A x \in SAs \ {s} : entry'[x] = entry[x]
        /\ entry'[s].checked_out = NoThread
        /\ entry'[s].driveout_threads = entry[s].driveout_threads
        /\ entry'[s].waiting_threads = entry[s].waiting_threads
    BY <1>1, TakenEntry
  <1>5. /\ \A u \in Threads \ {t} : held'[u] = held[u]
        /\ \A x \in SAs \ {s} : x \in held'[t] <=> x \in held[t]
    BY <1>1, Returned
  <1>6. t \notin Sleepers(s) /\ Cardinality(Waiters(s) \ {t}) = entry[s].waiting_threads
    BY NoWaiter
  <1>7. call[t].at = NoSA
    BY <1>1 DEF CallSound, CallShape, Idle
  <1>8. /\ entry'[s].waiting_threads = Cardinality(Waiters(s) \ {t})
        /\ entry'[s].checked_out # NoThread => s \in held'[entry'[s].checked_out]
        /\ call[t].at \in {NoSA, s}
    BY <1>4, <1>6, <1>7
  <1> QED BY <1>2, <1>3, <1>4, <1>5, <1>6, <1>8, SignalKeeps

\* checkin()
LEMMA CheckinKeeps ==
    ASSUME EntriesInv, Base', NEW t \in Threads, NEW s \in SAs, Checkin(t, s)
    PROVE  EntriesInv'
  <1>1. /\ Idle(t) /\ s \in held[t] /\ Return(t, s) /\ UNCHANGED <<shutdown, mutex>>
        /\ held \in [Threads -> SUBSET SAs]
    BY DEF Checkin, EntriesInv, Base, OwnInv, Typed
  <1>2. CASE /\ life[s] = "listed" /\ entry' = [entry EXCEPT ![s].checked_out = NoThread]
             /\ \E W \in Signal(s) : call' = Calls(t, NoCall, W)
             /\ UNCHANGED <<table, count, life>>
    <2>1. PICK W \in Signal(s) : call' = Calls(t, NoCall, W)
      BY <1>2
    <2> QED BY <1>1, <1>2, <2>1, CheckinListed
  <1>3. CASE life[s] = "new" /\ PutEntry(s, NoThread) /\ UNCHANGED call
    <2> DEFINE v == NoThread
    <2>1. v \in Threads \cup {NoThread} /\ PutEntry(s, v) /\ v = NoThread
      BY <1>3
    <2> HIDE DEF v
    <2> QED BY <1>1, <1>3, <2>1, Returned, PutKeeps
  <1> QED BY <1>2, <1>3 DEF Checkin

\* No thread is at an entry that its holder removes.
LEMMA NobodyElse ==
    ASSUME EntriesInv, NEW t \in Threads, NEW s \in SAs, s \in held[t], life[s] = "listed",
           Free(s), NobodyWaits(s), ~Flushed
    PROVE  Waiters(s) = {} /\ \A u \in All \ {t} : call[u].at # s
  <1>1. Waiters(s) = {}
    <2>1. Cardinality(Waiters(s)) = 0
      BY DEF EntriesInv, EntrySound, NobodyWaits
    <2> QED BY <2>1, WaitersFinite
  <1>2. ASSUME NEW u \in All \ {t}, call[u].at = s
        PROVE  FALSE
    <2>1. /\ CallSound(u) /\ CallAt(u) /\ call[u] \in CallRec /\ s # NoSA /\ NoThread \notin All
          /\ u \in Threads \cup {Flusher} /\ HeldAt(s)
      BY SAsAssumption, ThreadsAssumption DEF EntriesInv, Base, OwnInv, Typed, All
    <2>2. call[u].op # "flush" /\ call[u].op # "none"
      <3>1. call[Flusher].op # "flush"
        BY DEF EntriesInv, CallOfFlusher
      <3> QED BY <1>2, <2>1, <3>1 DEF CallSound, CallShape
    <2>3. u \in Threads
      BY <2>1, <2>2 DEF CallSound, CallShape
    <2>4. call[u].op # "destroy"
      BY <1>2, <2>1, <2>3 DEF CallAt, HeldAt
    <2>5. call[u].op \in {"checkout", "enumerate"}
      BY <2>1, <2>2, <2>4, CallFields
    <2>6. call[u].state = "run"
      BY <1>1, <1>2, <2>3, <2>5 DEF Waiters
    <2>7. call[u].op = "enumerate" /\ mutex[Row[s]] = u
      BY <1>2, <2>1, <2>3, <2>5, <2>6 DEF CallSound, CallShape, CallOfThread
    <2> QED BY <2>1, <2>7 DEF Free
  <1> QED BY <1>1, <1>2

\* The rows without an entry.
LEMMA RowsWithout ==
    ASSUME OwnInv, NEW s \in SAs, RemoveEntry(s)
    PROVE  /\ \A x \in SAs \ {s} : x \in Range(table[Row[x]]) => x \in Range(table'[Row[x]])
           /\ life'[s] = "destroyed" /\ \A x \in SAs \ {s} : life'[x] = life[x]
           /\ count' = IF s \in Range(table[Row[s]]) THEN count - 1 ELSE count
  <1> DEFINE q == table[Row[s]]  r == RemoveAt(q, Position(q, s))
  <1>1. /\ table \in [Segments -> Seq(SAs)] /\ Row[s] \in Segments /\ life \in [SAs -> Lives]
        /\ \A x \in SAs : Row[x] \in Segments
        /\ q \in Seq(SAs) /\ IsInjective(q)
    BY SegmentsAssumption DEF OwnInv, Typed, RowSound
  <1>2. Range(r) = Range(q) \ {s}
    BY <1>1, RowWithout
  <1>3. /\ table' = [table EXCEPT ![Row[s]] = r] /\ life' = [life EXCEPT ![s] = "destroyed"]
        /\ count' = IF s \in Range(q) THEN count - 1 ELSE count
    BY DEF RemoveEntry, DestroyEntry
  <1> HIDE DEF r
  <1>4. \A x \in SAs \ {s} : x \in Range(table[Row[x]]) => x \in Range(table'[Row[x]])
    BY <1>1, <1>2, <1>3
  <1> QED BY <1>1, <1>3, <1>4

\* The thread that holds an entry removes it.
LEMMA RemoveKeeps ==
    ASSUME EntriesInv, Base', NEW t \in Threads, NEW s \in SAs, NEW c \in CallRec,
           Moves(t, c, {}), c.op = "none", c.at = NoSA, c.state = "run",
           s \in held[t], life[s] = "listed", Free(s), NobodyWaits(s), ~Flushed,
           call[t].at \in {NoSA, s}, \A x \in SAs \ {s} : entry'[x] = entry[x],
           entry'[s].waiting_threads = entry[s].waiting_threads, entry'[s].driveout_threads,
           RemoveEntry(s), Return(t, s), UNCHANGED <<shutdown, mutex>>
    PROVE  EntriesInv'
  <1> DEFINE W == {}
  <1>1. /\ t \in All /\ OwnInv /\ EntrySound(s) /\ call'[t] = c /\ NoSA \notin SAs /\ t # Flusher
        /\ FlushSound /\ CallOfFlusher /\ count = Cardinality(Listed)
        /\ held \in [Threads -> SUBSET SAs]
    BY SAsAssumption, ThreadsAssumption DEF EntriesInv, Base, OwnInv, Typed, Moves, All
  <1>2. Waiters(s) = {} /\ \A u \in All \ {t} : call[u].at # s
    BY NobodyElse
  <1>3. /\ \A x \in SAs \ {s} : x \in Range(table[Row[x]]) => x \in Range(table'[Row[x]])
        /\ life'[s] = "destroyed" /\ \A x \in SAs \ {s} : life'[x] = life[x]
        /\ count' = count - 1
    BY <1>1, RowsWithout DEF EntrySound
  <1>4. /\ \A u \in Threads \ {t} : held'[u] = held[u]
        /\ \A x \in SAs \ {s} : x \in held'[t] <=> x \in held[t]
    BY <1>1, Returned
  <1>5. Frame(t, s, W)
    <2>1. OthersKept(t, s)
      BY <1>3, <1>4 DEF OthersKept
    <2>2. Locks(t) /\ Marks /\ Frees(t, s)
      BY <1>2 DEF Locks, Marks, Frees
    <2>3. Passes(t, s, W)
      BY <1>1 DEF Passes
    <2> QED BY <2>1, <2>2, <2>3 DEF Frame
  <1>6. \A u \in All : call'[u].at # s
    BY <1>1, <1>2 DEF Moves
  <1>7. Waiters(s)' = {} /\ Sleepers(s)' = {}
    BY <1>6 DEF Waiters, Sleepers, All
  <1>8. EntrySound(s)'
    BY <1>1, <1>2, <1>3, <1>7 DEF EntrySound
  <1>9. CallSound(t)'
    BY <1>1 DEF CallSound, CallShape, CallOfThread
  <1>10. ~Flushed'
    BY DEF Flushed
  <1>11. call'[Flusher].op = call[Flusher].op
    BY <1>1 DEF Moves, All
  <1>12. FlushSound' /\ CallOfFlusher'
    BY <1>1, <1>10, <1>11 DEF FlushSound, CallOfFlusher
  <1>13. count' = Cardinality(Listed')
    BY <1>1, <1>3, ListedStep
  <1>14. Moves(t, c, W) /\ \A u \in All : u \in W => call[u].state = "asleep"
    OBVIOUS
  <1> HIDE DEF W
  <1> QED BY <1>1, <1>5, <1>8, <1>9, <1>12, <1>13, <1>14, StepKeeps

\* A thread that destroys an entry waits until those that wait for it have left.
LEMMA DriveoutKeeps ==
    ASSUME EntriesInv, Base', NEW t \in Threads, NEW s \in SAs, NEW c \in CallRec,
           Moves(t, c, Broadcast(s)), c.op = "destroy", c.at = s, c.state = "asleep",
           t \notin Waiters(s), ~NobodyWaits(s), life[s] = "listed", ~Flushed,
           call[t].at \in {NoSA, s}, \A x \in SAs \ {s} : entry'[x] = entry[x],
           entry'[s].checked_out = entry[s].checked_out, entry'[s].driveout_threads,
           entry'[s].waiting_threads = entry[s].waiting_threads,
           UNCHANGED <<table, count, life, shutdown, mutex, held>>
    PROVE  EntriesInv'
  <1> DEFINE W == Broadcast(s)
  <1>1. /\ t \in All /\ call'[t] = c /\ t # Flusher /\ NoSA \notin SAs /\ EntrySound(s)
        /\ \A u \in All : u \in W => call[u].state = "asleep"
    BY SAsAssumption, ThreadsAssumption, WokenSleep DEF EntriesInv, All, Moves
  <1>2. PICK w \in Waiters(s) : w # t
    <2>1. Cardinality(Waiters(s)) # 0
      BY <1>1 DEF EntrySound, NobodyWaits
    <2> QED BY <2>1, WaitersFinite
  <1>3. /\ w \in All \ {t} /\ call[w].at = s
        /\ w \in W \/ call[w].state \in {"woken", "run"}
    <2>1. w \in All /\ call[w].at = s /\ call[w] \in CallRec
      BY <1>2 DEF Waiters, All, EntriesInv, Base, OwnInv, Typed
    <2> QED BY <1>2, <2>1, CallFields DEF Broadcast, Sleepers
  <1>4. Moves(t, c, W)
    OBVIOUS
  <1> HIDE DEF W
  <1>5. Locks(t) /\ Passes(t, s, W)
    BY <1>1 DEF Locks, Passes
  <1>6. Frame(t, s, W)
    BY <1>1, <1>5, CalmFrame
  <1>7. CallSound(t)'
    BY <1>1 DEF CallSound, CallShape, CallOfThread
  <1>8. Cardinality(Waiters(s)') = Cardinality(Waiters(s))
    <2>1. t \notin Waiters(s)'
      BY <1>1 DEF Waiters
    <2>2. entry[s].waiting_threads = Cardinality(Waiters(s)) /\ Cardinality(Waiters(s)) \in Nat
      BY <1>1, WaitersFinite DEF EntrySound
    <2> QED BY <1>1, <1>4, <2>1, <2>2, WaitersStep
  <1>9. \E u \in All : Minds(u, s)'
    BY <1>1, <1>3, <1>4, WokenMinds
  <1>10. EntrySound(s)'
    BY <1>1, <1>8, <1>9 DEF EntrySound
  <1> QED BY <1>1, <1>4, <1>6, <1>7, <1>10, CalmKeeps

\* A new IKE_SA is destroyed.
LEMMA DropKeeps ==
    ASSUME EntriesInv, Base', NEW t \in Threads, NEW s \in SAs, Idle(t), life[s] = "new",
           life' = [life EXCEPT ![s] = "destroyed"], Return(t, s),
           UNCHANGED <<table, count, entry, shutdown, mutex, call>>
    PROVE  EntriesInv'
  <1> DEFINE c == call[t]  W == {}
  <1>1. /\ call \in [All -> CallRec] /\ t \in All /\ life \in [SAs -> Lives] /\ NoSA \notin SAs
        /\ held \in [Threads -> SUBSET SAs] /\ c \in CallRec /\ CallSound(t) /\ EntrySound(s)
        /\ FlushSound /\ CallOfFlusher /\ count = Cardinality(Listed)
    BY SAsAssumption DEF EntriesInv, Base, OwnInv, Typed, All
  <1>2. /\ life'[s] = "destroyed" /\ \A x \in SAs \ {s} : life'[x] = life[x]
        /\ \A u \in Threads \ {t} : held'[u] = held[u]
        /\ \A x \in SAs \ {s} : x \in held'[t] <=> x \in held[t]
    BY <1>1, Returned
  <1>3. /\ Moves(t, c, W) /\ \A u \in All : u \in W => call[u].state = "asleep"
        /\ c.at = NoSA /\ c.op = "none" /\ c.state = "run"
    BY <1>1, SameMoves DEF CallSound, CallShape, Idle
  <1>4. \A u \in All : call[u].at # s
    BY NobodyThere
  <1>5. Waiters(s)' = Waiters(s) /\ Sleepers(s)' = {}
    BY <1>4 DEF Waiters, Sleepers
  <1>6. Frame(t, s, W)
    BY <1>1, <1>2, <1>3 DEF Frame, OthersKept, Locks, Marks, Frees, Passes
  <1>7. EntrySound(s)'
    BY <1>1, <1>2, <1>5 DEF EntrySound
  <1>8. CallSound(t)'
    BY <1>1, <1>3 DEF CallSound, CallShape, CallOfThread
  <1>9. ~Flushed /\ ~Flushed'
    BY <1>1 DEF FlushSound, Flushed
  <1>10. FlushSound' /\ CallOfFlusher'
    BY <1>1, <1>9 DEF FlushSound, CallOfFlusher
  <1>11. count' = Cardinality(Listed')
    BY <1>1, <1>2, ListedStep
  <1> HIDE DEF c, W
  <1> QED BY <1>1, <1>3, <1>6, <1>7, <1>8, <1>10, <1>11, StepKeeps

\* checkin_and_destroy()
LEMMA CheckinAndDestroyKeeps ==
    ASSUME EntriesInv, Base', NEW t \in Threads, NEW s \in SAs, CheckinAndDestroy(t, s)
    PROVE  EntriesInv'
  <1>1. /\ call \in [All -> CallRec] /\ entry \in [SAs -> EntryRec] /\ t \in All /\ CallSound(t)
        /\ Idle(t) /\ s \in held[t] /\ Free(s) /\ UNCHANGED <<shutdown, mutex>>
        /\ call[t] \in CallRec /\ FlushSound
    BY DEF EntriesInv, Base, OwnInv, Typed, All, CheckinAndDestroy
  <1>2. call[t].at = NoSA /\ call[t].state = "run" /\ call[t].op = "none"
    BY <1>1 DEF CallSound, CallShape, Idle
  <1>3. CASE /\ life[s] = "listed" /\ entry' = [entry EXCEPT ![s].checked_out = NoThread]
             /\ call' = Calls(t, NoCall, Broadcast(s)) /\ Return(t, s)
             /\ UNCHANGED <<table, count, life, connected>>
    <2>1. Broadcast(s) \in Signal(s)
      BY DEF Broadcast, Signal
    <2> QED BY <1>1, <1>3, <2>1, CheckinListed
  <1>4. ASSUME entry' = [entry EXCEPT ![s].driveout_threads = TRUE]
        PROVE  /\ \A x \in SAs \ {s} : entry'[x] = entry[x]
               /\ entry'[s].checked_out = entry[s].checked_out /\ entry'[s].driveout_threads
               /\ entry'[s].waiting_threads = entry[s].waiting_threads
    BY <1>1, <1>4, MarkedEntry
  <1>5. life[s] = "listed" /\ ~entry[s].driveout_threads => ~Flushed
    BY <1>1 DEF FlushSound
  <1>6. CASE /\ life[s] = "listed" /\ ~entry[s].driveout_threads /\ ~NobodyWaits(s)
             /\ entry' = [entry EXCEPT ![s].driveout_threads = TRUE]
             /\ call' = Calls(t, Asleep([NoCall EXCEPT !.op = "destroy"], s), Broadcast(s))
             /\ UNCHANGED <<table, count, life, connected, held, unique>>
    <2> DEFINE b == [NoCall EXCEPT !.op = "destroy"]  c == Asleep(b, s)
    <2>1. c \in CallRec /\ c.at = s /\ c.op = "destroy" /\ c.state = "asleep"
      <3>1. b \in CallRec /\ b.op = "destroy"
        BY NewCalls
      <3> HIDE DEF b
      <3> QED BY <3>1, AsleepCall
    <2>2. call' = Calls(t, c, Broadcast(s))
      BY <1>6
    <2> HIDE DEF c
    <2>3. Moves(t, c, Broadcast(s))
      BY <1>1, <2>1, <2>2, CallsMoves
    <2>4. t \notin Waiters(s) /\ call[t].at \in {NoSA, s}
      BY <1>1, <1>2, NoWaiter
    <2> QED BY <1>1, <1>4, <1>5, <1>6, <2>1, <2>3, <2>4, DriveoutKeeps
  <1>7. CASE /\ life[s] = "listed" /\ ~entry[s].driveout_threads /\ NobodyWaits(s)
             /\ entry' = [entry EXCEPT ![s].driveout_threads = TRUE]
             /\ RemoveEntry(s) /\ Return(t, s) /\ UNCHANGED call
    <2> DEFINE c == call[t]
    <2>1. Moves(t, c, {})
      BY <1>1, <1>7, SameMoves
    <2>2. c \in CallRec /\ c.op = "none" /\ c.at = NoSA /\ c.state = "run"
      BY <1>1, <1>2
    <2> HIDE DEF c
    <2>3. call[t].at \in {NoSA, s}
      BY <1>2
    <2> QED BY <1>1, <1>4, <1>5, <1>7, <2>1, <2>2, <2>3, RemoveKeeps
  <1>8. CASE /\ life[s] = "new" /\ life' = [life EXCEPT ![s] = "destroyed"] /\ Return(t, s)
             /\ UNCHANGED <<table, count, entry, connected, call>>
    BY <1>1, <1>8, DropKeeps
  <1> QED BY <1>3, <1>6, <1>7, <1>8 DEF CheckinAndDestroy

\* A thread that waited in checkin_and_destroy()
LEMMA WakeDestroyKeeps ==
    ASSUME EntriesInv, Base', NEW t \in Threads, WakeDestroy(t)
    PROVE  EntriesInv'
  <1>1. PICK s \in SAs : s = call[t].at
    BY WakingAt DEF WakeDestroy, All, EntriesInv, Base
  <1>2. /\ life[s] = "listed" /\ call[t] \in CallRec /\ call[t].op = "destroy" /\ t \in All
        /\ call \in [All -> CallRec] /\ UNCHANGED <<entry, shutdown, mutex>> /\ CallSound(t)
        /\ FlushSound /\ Free(s) /\ CallAt(t) /\ EntrySound(s)
    BY <1>1, WakingAt DEF WakeDestroy, Waking, All, EntriesInv, Base, OwnInv, Typed
  <1>3. /\ s \in held[t] /\ entry[s].driveout_threads /\ ~Flushed /\ t \notin Waiters(s)
        /\ call[t].at \in {NoSA, s}
    BY <1>1, <1>2 DEF CallAt, CallSound, CallOfThread, FlushSound, Waiters
  <1>4. CASE /\ ~NobodyWaits(s) /\ call' = Calls(t, Asleep(call[t], s), Broadcast(s))
             /\ UNCHANGED <<table, count, life, connected, held, unique>>
    <2> DEFINE c == Asleep(call[t], s)
    <2>1. c \in CallRec /\ c.at = s /\ c.op = "destroy" /\ c.state = "asleep"
      BY <1>2, AsleepCall
    <2>2. call' = Calls(t, c, Broadcast(s))
      BY <1>4
    <2> HIDE DEF c
    <2>3. Moves(t, c, Broadcast(s))
      BY <1>2, <2>1, <2>2, CallsMoves
    <2> QED BY <1>2, <1>3, <1>4, <2>1, <2>3, DriveoutKeeps
  <1>5. CASE /\ NobodyWaits(s) /\ RemoveEntry(s) /\ Return(t, s)
             /\ call' = [call EXCEPT ![t] = NoCall]
    <2> DEFINE c == NoCall
    <2>1. c \in CallRec /\ c.op = "none" /\ c.at = NoSA /\ c.state = "run"
      BY NewCalls
    <2>2. Moves(t, c, {})
      BY <1>2, <1>5, <2>1, ExceptMoves
    <2> HIDE DEF c
    <2> QED BY <1>2, <1>3, <1>5, <2>1, <2>2, RemoveKeeps
  <1> QED BY <1>1, <1>4, <1>5 DEF WakeDestroy

\* A thread wakes up without a signal.
LEMMA SpuriousKeeps ==
    ASSUME EntriesInv, Base', NEW t \in All, Spurious(t)
    PROVE  EntriesInv'
  <1> DEFINE c == [call[t] EXCEPT !.state = "woken"]  W == {}
  <1>1. /\ call \in [All -> CallRec] /\ call[t] \in CallRec /\ call[t].state = "asleep"
        /\ CallAt(t) /\ CallSound(t) /\ NoSA \notin SAs /\ FlushSound /\ CallOfFlusher
        /\ UNCHANGED <<table, count, entry, life, connected, shutdown, mutex, held, unique>>
        /\ count = Cardinality(Listed)
    BY SAsAssumption DEF EntriesInv, Base, OwnInv, Typed, Spurious
  <1>2. PICK s \in SAs : s = call[t].at /\ EntrySound(s)
    BY <1>1 DEF CallAt, EntriesInv
  <1>3. /\ c \in CallRec /\ c.state = "woken" /\ c.op = call[t].op /\ c.at = s
        /\ c.segment = call[t].segment
    BY <1>1, <1>2 DEF CallRec
  <1>4. call' = [call EXCEPT ![t] = c]
    BY DEF Spurious
  <1> HIDE DEF c
  <1>5. Moves(t, c, W) /\ \A u \in All : u \in W => call[u].state = "asleep"
    BY <1>1, <1>3, <1>4, ExceptMoves
  <1>6. \A u \in All : /\ call'[u].op = call[u].op /\ call'[u].at = call[u].at
                       /\ call'[u].segment = call[u].segment
                       /\ call'[u].state = "run" <=> call[u].state = "run"
    BY <1>1, <1>2, <1>3, <1>5 DEF Moves
  <1>7. Frame(t, s, W)
    <2>1. Locks(t) /\ Passes(t, s, W)
      BY <1>1, <1>2 DEF Locks, Passes
    <2> HIDE DEF W
    <2> QED BY <1>1, <1>2, <2>1, CalmFrame
  <1>8. CallSound(t)'
    <2>1. CallShape(t)'
      BY <1>1, <1>6 DEF CallSound, CallShape
    <2>2. t \in Threads => CallOfThread(t)'
      BY <1>1, <1>6 DEF CallSound, CallOfThread
    <2> QED BY <2>1, <2>2 DEF CallSound
  <1>9. FlushSound'
    BY <1>1, <1>6 DEF FlushSound, Flushed, All
  <1>10. CallOfFlusher'
    BY <1>1, <1>6 DEF CallOfFlusher, Flushed, All
  <1>11. count' = Cardinality(Listed')
    BY <1>1 DEF Listed
  <1>12. EntrySound(s)'
    <2>1. Minds(t, s)'
      BY <1>3, <1>5 DEF Minds, Moves
    <2>2. Waiters(s)' = Waiters(s)
      BY <1>6 DEF Waiters, All
    <2> QED BY <1>1, <1>2, <2>1, <2>2 DEF EntrySound
  <1> HIDE DEF W
  <1> QED BY <1>1, <1>2, <1>3, <1>5, <1>7, <1>8, <1>9, <1>10, <1>11, <1>12, StepKeeps

-----------------------------------------------------------------------------
(* flush().                                                                *)

\* flush() marks the entries; here it matters that it meets no other thread that
\* destroys or adds one.
LEMMA FlushMarkKeeps ==
    ASSUME EntriesInv, Base', QuietFlush, FlushMark
    PROVE  EntriesInv'
  <1> DEFINE b == [NoCall EXCEPT !.op = "flush"]
             c == [NoCall EXCEPT !.op = "flush", !.segment = 1]  W == {}  n == NoSA
             mark(s) == entry[s].driveout_threads \/ life[s] = "listed"
             E == [s \in SAs |-> [entry[s] EXCEPT !.driveout_threads = mark(s)]]
  <1>1. /\ call \in [All -> CallRec] /\ entry \in [SAs -> EntryRec] /\ Flusher \in All
        /\ CallSound(Flusher) /\ ~Flushed /\ NoSA \notin SAs /\ Flusher \notin Threads
        /\ shutdown.rng_gone /\ Quiet /\ \A g \in Segments : mutex[g] = NoThread
        /\ FlushSound /\ CallOfFlusher /\ count = Cardinality(Listed) /\ ShutdownTyped
    BY SAsAssumption, ThreadsAssumption
       DEF EntriesInv, Base, OwnInv, Typed, All, FlushMark, Flushed
  <1>2. c \in CallRec /\ c.state = "run" /\ c.op = "flush" /\ c.at = NoSA
    <2>1. 1 \in 0..SegmentCount + 1
      BY SegmentsAssumption
    <2>2. b \in CallRec /\ b.state = "run" /\ b.op = "flush" /\ b.at = NoSA
      BY NewCalls
    <2>3. c = [b EXCEPT !.segment = 1]
      BY DEF NoCall
    <2> HIDE DEF b, c
    <2> QED BY <2>1, <2>2, <2>3 DEF CallRec
  <1>3. /\ call' = [call EXCEPT ![Flusher] = c] /\ UNCHANGED <<table, count, life, held>>
        /\ entry' = E /\ mutex' = [g \in Segments |-> Flusher]
        /\ shutdown' = [shutdown EXCEPT !.new_entries_driveout_threads = TRUE]
    BY DEF FlushMark
  <1> HIDE DEF c
  <1>4. Moves(Flusher, c, W) /\ \A u \in All : u \in W => call[u].state = "asleep"
    BY <1>1, <1>2, <1>3, ExceptMoves
  <1>5. \A x \in SAs : /\ entry'[x].checked_out = entry[x].checked_out
                       /\ entry'[x].waiting_threads = entry[x].waiting_threads
                       /\ entry'[x].driveout_threads <=> mark(x)
    <2>1. \A x \in SAs : mark(x) \in BOOLEAN /\ entry[x] \in EntryRec
      BY <1>1, EntryFields
    <2> HIDE DEF mark
    <2>2. ASSUME NEW x \in SAs
          PROVE  /\ E[x].checked_out = entry[x].checked_out
                 /\ E[x].waiting_threads = entry[x].waiting_threads
                 /\ E[x].driveout_threads <=> mark(x)
      <3>1. E[x] = [entry[x] EXCEPT !.driveout_threads = mark(x)]
        OBVIOUS
      <3> HIDE DEF E
      <3> QED BY <2>1, <3>1, EntryFields
    <2> HIDE DEF E
    <2> QED BY <1>3, <2>2
  <1> HIDE DEF E
  <1>6. call[Flusher].at = NoSA
    <2>1. call[Flusher].op = "none"
      BY <1>1 DEF CallOfFlusher, CallSound, CallShape
    <2> QED BY <1>1, <2>1 DEF CallSound, CallShape
  <1>7. Frame(Flusher, n, W)
    <2>1. OthersKept(Flusher, n)
      BY <1>1, <1>3, <1>5 DEF OthersKept
    <2>2. Locks(Flusher) /\ Frees(Flusher, n) /\ Passes(Flusher, n, W)
      BY <1>1, <1>6 DEF Locks, Frees, Passes
    <2>3. Marks
      BY <1>5 DEF Marks
    <2> QED BY <2>1, <2>2, <2>3 DEF Frame
  <1>8. CallSound(Flusher)'
    BY <1>1, <1>2, <1>4 DEF CallSound, CallShape, Moves
  <1>9. Flushed' /\ shutdown'.rng_gone
    BY <1>1, <1>3 DEF Flushed, ShutdownTyped
  <1>10. FlushSound'
    <2>1. \A u \in Threads : call'[u].op # "destroy"
      BY <1>1, <1>4 DEF Quiet, Moves, All
    <2>2. \A x \in SAs : life'[x] # "new" /\ (life'[x] = "listed" => entry'[x].driveout_threads)
      BY <1>1, <1>3, <1>5 DEF Quiet
    <2> QED BY <1>9, <2>1, <2>2 DEF FlushSound
  <1>11. CallOfFlusher'
    BY <1>2, <1>3, <1>4, <1>9 DEF CallOfFlusher, Moves
  <1>12. count' = Cardinality(Listed')
    BY <1>1, <1>3 DEF Listed
  <1>13. c.at \in {NoSA, n} /\ n \in SAs \cup {NoSA} /\ n \notin SAs
    BY <1>1, <1>2
  <1> HIDE DEF W, n
  <1> QED BY <1>1, <1>2, <1>4, <1>7, <1>8, <1>10, <1>11, <1>12, <1>13, StepKeeps

\* flush() waits at the first entry of a row, which somebody still uses or waits for.
LEMMA FlushWaits ==
    ASSUME EntriesInv, Base', NEW s \in SAs, life[s] = "listed", call[Flusher].op = "flush",
           call[Flusher].at \in {NoSA, s}, table[Row[s]] # <<>>, table[Row[s]][1] = s,
           \A g \in Segments \ {Row[s]} : mutex[g] = Flusher, mutex[Row[s]] \in {NoThread, Flusher},
           ~Left(s), call' = Calls(Flusher, Asleep(call[Flusher], s), Broadcast(s)),
           mutex' = [mutex EXCEPT ![Row[s]] = NoThread],
           UNCHANGED <<table, count, entry, life, shutdown, held>>
    PROVE  EntriesInv'
  <1> DEFINE c == Asleep(call[Flusher], s)  W == Broadcast(s)
  <1>1. /\ call \in [All -> CallRec] /\ Flusher \in All /\ Flusher \notin Threads
        /\ call[Flusher] \in CallRec /\ NoSA \notin SAs /\ EntrySound(s) /\ Flushed
        /\ mutex \in [Segments -> All \cup {NoThread}]
        /\ FlushSound /\ count = Cardinality(Listed)
    BY SAsAssumption, ThreadsAssumption
       DEF EntriesInv, Base, RestSound, OwnInv, Typed, All, CallOfFlusher
  <1>2. c \in CallRec /\ c.op = "flush" /\ c.at = s /\ c.state = "asleep"
    BY <1>1, AsleepCall
  <1>3. call' = Calls(Flusher, c, W)
    OBVIOUS
  <1> HIDE DEF c
  <1>4. Moves(Flusher, c, W) /\ \A u \in All : u \in W => call[u].state = "asleep"
    BY <1>1, <1>2, <1>3, CallsMoves, WokenSleep
  <1>5. Frame(Flusher, s, W)
    <2>1. Locks(Flusher) /\ Passes(Flusher, s, W)
      BY <1>1 DEF Locks, Passes
    <2> HIDE DEF W
    <2> QED BY <1>1, <2>1, CalmFrame
  <1>6. CallSound(Flusher)'
    BY <1>1, <1>2, <1>4 DEF CallSound, CallShape, Moves
  <1>7. \A u \in Threads : call'[u].op = call[u].op
    BY <1>1, <1>4 DEF Moves, All
  <1>8. FlushSound'
    BY <1>1, <1>7 DEF FlushSound, Flushed
  <1>9. CallOfFlusher'
    <2>1. Flushed' /\ call'[Flusher] = c
      BY <1>1, <1>4 DEF Flushed, Moves
    <2>2. \A g \in Segments : mutex'[g] = Flusher \/ g = Row[s]
      BY <1>1
    <2> QED BY <1>2, <2>1, <2>2 DEF CallOfFlusher
  <1>10. count' = Cardinality(Listed')
    BY <1>1 DEF Listed
  <1>11. \E u \in All : Minds(u, s)'
    <2>1. CASE entry[s].waiting_threads # 0
      <3>1. PICK w \in Waiters(s) : TRUE
        BY <1>1, <2>1, WaitersFinite DEF EntrySound
      <3>2. w \in All \ {Flusher} /\ call[w].at = s /\ call[w] \in CallRec
        BY <1>1, <3>1 DEF Waiters, All
      <3>3. w \in W \/ call[w].state \in {"woken", "run"}
        BY <3>2, CallFields DEF Broadcast, Sleepers
      <3> HIDE DEF W
      <3> QED BY <1>1, <1>2, <1>4, <3>2, <3>3, WokenMinds
    <2>2. CASE entry[s].checked_out # NoThread
      <3> DEFINE h == entry[s].checked_out
      <3>1. \A u \in Threads : call[u].op = "destroy" => call[u].at # s
        BY <1>1 DEF FlushSound
      <3>2. h \in Threads /\ Minds(h, s)
        BY <2>2, <3>1, UserMinds
      <3>3. h \in All \ {Flusher}
        BY <1>1, <3>2 DEF All
      <3> HIDE DEF W, h
      <3> QED BY <1>1, <1>2, <1>4, <1>5, <3>2, <3>3, StillMinds
    <2> QED BY <2>1, <2>2 DEF Left
  <1>12. Waiters(s)' = Waiters(s)
    <2>1. \A u \in Threads : u \in Waiters(s)' <=> u \in Waiters(s)
      BY <1>1, <1>4 DEF Waiters, Moves, All
    <2> QED BY <2>1 DEF Waiters
  <1>13. EntrySound(s)'
    BY <1>1, <1>11, <1>12 DEF EntrySound
  <1> HIDE DEF W
  <1> QED BY <1>1, <1>2, <1>4, <1>5, <1>6, <1>8, <1>9, <1>10, <1>13, StepKeeps

\* The rows without their first entry.
LEMMA RowsAfter ==
    ASSUME OwnInv, NEW s \in SAs, RemoveEntryAt(s), table[Row[s]] # <<>>, table[Row[s]][1] = s
    PROVE  /\ \A x \in SAs \ {s} : x \in Range(table[Row[x]]) => x \in Range(table'[Row[x]])
           /\ life'[s] = "destroyed" /\ \A x \in SAs \ {s} : life'[x] = life[x]
           /\ count' = count - 1
  <1> DEFINE q == table[Row[s]]  r == SubSeq(q, Position(q, s) + 1, Len(q))
  <1>1. /\ table \in [Segments -> Seq(SAs)] /\ Row[s] \in Segments /\ life \in [SAs -> Lives]
        /\ \A x \in SAs : Row[x] \in Segments
        /\ q \in Seq(SAs) /\ IsInjective(q)
    BY SegmentsAssumption DEF OwnInv, Typed, RowSound
  <1>2. Range(r) = Range(q) \ {s}
    <2>1. q # <<>> /\ q[1] = s /\ r = After(q, s)
      BY DEF After
    <2> HIDE DEF q, r
    <2> QED BY <1>1, <2>1, RowAfter
  <1>3. /\ table' = [table EXCEPT ![Row[s]] = r] /\ life' = [life EXCEPT ![s] = "destroyed"]
        /\ count' = count - 1
    BY DEF RemoveEntryAt, DestroyEntry
  <1> HIDE DEF r
  <1>4. \A x \in SAs \ {s} : x \in Range(table[Row[x]]) => x \in Range(table'[Row[x]])
    BY <1>1, <1>2, <1>3
  <1> QED BY <1>1, <1>3, <1>4

\* No thread is at an entry that flush() removes.
LEMMA NobodyLeft ==
    ASSUME EntriesInv, NEW s \in SAs, Flushed, Left(s), mutex[Row[s]] \in {NoThread, Flusher}
    PROVE  Waiters(s) = {} /\ \A u \in All \ {Flusher} : call[u].at # s
  <1>1. Waiters(s) = {}
    <2>1. Cardinality(Waiters(s)) = 0
      BY DEF EntriesInv, EntrySound, Left
    <2> QED BY <2>1, WaitersFinite
  <1>2. ASSUME NEW u \in All \ {Flusher}, call[u].at = s
        PROVE  FALSE
    <2>1. /\ CallSound(u) /\ call[u] \in CallRec /\ s # NoSA /\ NoThread \notin All
          /\ u \in Threads /\ FlushSound
      BY SAsAssumption, ThreadsAssumption DEF EntriesInv, Base, OwnInv, Typed, All
    <2>2. call[u].op # "flush" /\ call[u].op # "none" /\ call[u].op # "destroy"
      BY <1>2, <2>1 DEF CallSound, CallShape, FlushSound
    <2>3. call[u].op \in {"checkout", "enumerate"}
      BY <2>1, <2>2, CallFields
    <2>4. call[u].state = "run"
      BY <1>1, <1>2, <2>1, <2>3 DEF Waiters
    <2>5. call[u].op = "enumerate" /\ mutex[Row[s]] = u
      BY <1>2, <2>1, <2>3, <2>4 DEF CallSound, CallShape, CallOfThread
    <2> QED BY <2>1, <2>5
  <1> QED BY <1>1, <1>2

\* flush() removes the first entry of a row, once it is left.
LEMMA FlushRemoves ==
    ASSUME EntriesInv, Base', NEW s \in SAs, life[s] = "listed", call[Flusher].op = "flush",
           call[Flusher].at \in {NoSA, s}, table[Row[s]] # <<>>, table[Row[s]][1] = s,
           \A g \in Segments \ {Row[s]} : mutex[g] = Flusher, mutex[Row[s]] \in {NoThread, Flusher},
           Left(s), RemoveEntryAt(s),
           call' = [call EXCEPT ![Flusher].at = NoSA, ![Flusher].state = "run"],
           mutex' = [mutex EXCEPT ![Row[s]] = Flusher], UNCHANGED <<entry, shutdown, held>>
    PROVE  EntriesInv'
  <1> DEFINE c == [call[Flusher] EXCEPT !.at = NoSA, !.state = "run"]  W == {}
  <1>1. /\ call \in [All -> CallRec] /\ Flusher \in All /\ Flusher \notin Threads
        /\ call[Flusher] \in CallRec /\ NoSA \notin SAs /\ EntrySound(s) /\ Flushed /\ OwnInv
        /\ mutex \in [Segments -> All \cup {NoThread}]
        /\ FlushSound /\ count = Cardinality(Listed)
    BY SAsAssumption, ThreadsAssumption
       DEF EntriesInv, Base, RestSound, OwnInv, Typed, All, CallOfFlusher
  <1>2. c \in CallRec /\ c.op = "flush" /\ c.at = NoSA /\ c.state = "run"
    BY <1>1 DEF CallRec
  <1>3. call' = [call EXCEPT ![Flusher] = c]
    BY <1>1
  <1> HIDE DEF c
  <1>4. Moves(Flusher, c, W) /\ \A u \in All : u \in W => call[u].state = "asleep"
    BY <1>1, <1>2, <1>3, ExceptMoves
  <1>5. /\ \A x \in SAs \ {s} : x \in Range(table[Row[x]]) => x \in Range(table'[Row[x]])
        /\ life'[s] = "destroyed" /\ \A x \in SAs \ {s} : life'[x] = life[x]
        /\ count' = count - 1
    BY <1>1, RowsAfter
  <1>6. Waiters(s) = {} /\ \A u \in All \ {Flusher} : call[u].at # s
    BY <1>1, NobodyLeft
  <1>7. Frame(Flusher, s, W)
    <2>1. OthersKept(Flusher, s)
      BY <1>1, <1>5 DEF OthersKept
    <2>2. Locks(Flusher)
      BY <1>1 DEF Locks
    <2>3. Marks /\ Frees(Flusher, s) /\ Passes(Flusher, s, W)
      BY <1>1, <1>6 DEF Marks, Frees, Passes
    <2> QED BY <2>1, <2>2, <2>3 DEF Frame
  <1>8. CallSound(Flusher)'
    BY <1>1, <1>2, <1>4 DEF CallSound, CallShape, Moves
  <1>9. \A u \in Threads : call'[u].op = call[u].op
    BY <1>1, <1>4 DEF Moves, All
  <1>10. FlushSound'
    <2>1. /\ shutdown'.rng_gone /\ \A u \in Threads : call'[u].op # "destroy"
      BY <1>1, <1>9 DEF FlushSound
    <2>2. ASSUME NEW x \in SAs
          PROVE  life'[x] # "new" /\ (life'[x] = "listed" => entry'[x].driveout_threads)
      <3>1. life'[x] = life[x] \/ life'[x] = "destroyed"
        BY <1>5
      <3> QED BY <1>1, <3>1 DEF FlushSound
    <2> QED BY <2>1, <2>2 DEF FlushSound
  <1>11. CallOfFlusher'
    <2>1. Flushed' /\ call'[Flusher] = c
      BY <1>1, <1>4 DEF Flushed, Moves
    <2>2. \A g \in Segments : mutex'[g] = Flusher
      BY <1>1
    <2> QED BY <1>2, <2>1, <2>2 DEF CallOfFlusher
  <1>12. count' = Cardinality(Listed')
    BY <1>1, <1>5, ListedStep
  <1>13. EntrySound(s)'
    <2>1. \A u \in All : call'[u].at # s
      BY <1>1, <1>2, <1>4, <1>6 DEF Moves
    <2>2. Waiters(s)' = {} /\ Sleepers(s)' = {}
      BY <2>1 DEF Waiters, Sleepers, All
    <2> QED BY <1>1, <1>5, <1>6, <2>2 DEF EntrySound
  <1> HIDE DEF W
  <1> QED BY <1>1, <1>2, <1>4, <1>7, <1>8, <1>10, <1>11, <1>12, <1>13, StepKeeps

\* The loop of flush()
LEMMA FlushNextKeeps ==
    ASSUME EntriesInv, Base', FlushNext
    PROVE  EntriesInv'
  <1> DEFINE g == call[Flusher].segment  W == {}  n == NoSA
  <1>1. /\ call \in [All -> CallRec] /\ Flusher \in All /\ Flusher \notin Threads /\ OwnInv
        /\ call[Flusher] \in CallRec /\ NoSA \notin SAs /\ call[Flusher].op = "flush"
        /\ call[Flusher].state = "run" /\ UNCHANGED <<entry, shutdown, held, unique>>
        /\ mutex \in [Segments -> All \cup {NoThread}]
        /\ FlushSound /\ CallOfFlusher /\ count = Cardinality(Listed)
    BY SAsAssumption, ThreadsAssumption
       DEF EntriesInv, Base, RestSound, OwnInv, Typed, All, FlushNext
  <1>2. /\ Flushed /\ call[Flusher].at = NoSA
        /\ \A h \in Segments : mutex[h] = Flusher
    BY <1>1 DEF CallOfFlusher
  <1>3. ASSUME NEW c \in CallRec, c.state = "run", c.at = NoSA, c.op \in {"none", "flush"},
               call' = [call EXCEPT ![Flusher] = c], UNCHANGED <<table, count, life>>,
               c.op = "flush" => UNCHANGED mutex
        PROVE  EntriesInv'
    <2>1. Moves(Flusher, c, W) /\ \A u \in All : u \in W => call[u].state = "asleep"
      BY <1>1, <1>3, ExceptMoves
    <2>2. Frame(Flusher, n, W)
      <3>1. OthersKept(Flusher, n)
        BY <1>1, <1>3 DEF OthersKept
      <3>2. Locks(Flusher) /\ Frees(Flusher, n) /\ Passes(Flusher, n, W) /\ Marks
        BY <1>1, <1>2 DEF Locks, Frees, Passes, Marks
      <3> QED BY <3>1, <3>2 DEF Frame
    <2>3. CallSound(Flusher)'
      BY <1>1, <1>3, <2>1 DEF CallSound, CallShape, Moves
    <2>4. \A u \in Threads : call'[u].op = call[u].op
      BY <1>1, <2>1 DEF Moves, All
    <2>5. FlushSound'
      BY <1>1, <1>3, <2>4 DEF FlushSound, Flushed
    <2>6. CallOfFlusher'
      BY <1>1, <1>2, <1>3, <2>1 DEF CallOfFlusher, Flushed, Moves
    <2>7. count' = Cardinality(Listed')
      BY <1>1, <1>3 DEF Listed
    <2>8. c.at \in {NoSA, n} /\ n \in SAs \cup {NoSA} /\ n \notin SAs
      BY <1>1, <1>3
    <2> HIDE DEF W, n
    <2> QED BY <1>1, <2>1, <2>2, <2>3, <2>5, <2>6, <2>7, <2>8, StepKeeps
  <1>4. ASSUME NEW m \in 0..SegmentCount + 1, call' = [call EXCEPT ![Flusher].segment = m],
               UNCHANGED <<table, count, life, mutex>>
        PROVE  EntriesInv'
    <2> DEFINE c == [call[Flusher] EXCEPT !.segment = m]
    <2>1. c \in CallRec /\ c.state = "run" /\ c.op = "flush" /\ c.at = NoSA
      BY <1>1, <1>2 DEF CallRec
    <2>2. call' = [call EXCEPT ![Flusher] = c]
      BY <1>1, <1>4
    <2> HIDE DEF c
    <2> QED BY <1>3, <1>4, <2>1, <2>2
  <1>5. CASE g \in Segments /\ table[g] # <<>> /\ FlushEntry(table[g][1])
    <2>1. PICK s \in SAs : s = table[g][1] /\ life[s] = "listed" /\ Row[s] = g
      BY <1>1, <1>5, RowEntries
    <2>2. /\ FlushEntry(s) /\ table[Row[s]] # <<>> /\ table[Row[s]][1] = s /\ Row[s] \in Segments
          /\ call[Flusher].at \in {NoSA, s}
      BY <1>2, <1>5, <2>1
    <2>3. /\ \A h \in Segments \ {Row[s]} : mutex[h] = Flusher
          /\ mutex[Row[s]] \in {NoThread, Flusher}
      BY <1>2, <2>2
    <2> QED BY <1>1, <2>1, <2>2, <2>3, FlushWaits, FlushRemoves DEF FlushEntry
  <1>6. CASE /\ g \in Segments /\ call' = [call EXCEPT ![Flusher].segment = g + 1]
             /\ UNCHANGED <<table, count, life, connected, mutex>>
    <2>1. g + 1 \in 0..SegmentCount + 1
      BY <1>6, SegmentsAssumption DEF Segments
    <2> QED BY <1>4, <1>6, <2>1
  <1>7. CASE /\ call' = [call EXCEPT ![Flusher].segment = 1]
             /\ UNCHANGED <<table, count, life, connected, mutex>>
    <2>1. 1 \in 0..SegmentCount + 1
      BY SegmentsAssumption
    <2> QED BY <1>4, <1>7, <2>1
  <1>8. CASE call' = [call EXCEPT ![Flusher] = NoCall] /\ UNCHANGED <<table, count, life, connected>>
    BY <1>3, <1>8, NewCalls
  <1> QED BY <1>5, <1>6, <1>7, <1>8 DEF FlushNext

\* The thread that flushes waited at an entry.
LEMMA WakeFlushKeeps ==
    ASSUME EntriesInv, Base', WakeFlush
    PROVE  EntriesInv'
  <1>1. PICK s \in SAs : s = call[Flusher].at
    BY WakingAt DEF WakeFlush, All, EntriesInv, Base
  <1>2. /\ life[s] = "listed" /\ call[Flusher].op = "flush" /\ call[Flusher].state = "woken"
        /\ FlushEntry(s) /\ Free(s) /\ UNCHANGED <<entry, shutdown, held, unique>>
        /\ CallOfFlusher
    BY <1>1, WakingAt DEF WakeFlush, Waking, All, EntriesInv, Base
  <1>3. /\ table[Row[s]] # <<>> /\ table[Row[s]][1] = s /\ call[Flusher].at \in {NoSA, s}
        /\ \A h \in Segments \ {Row[s]} : mutex[h] = Flusher
        /\ mutex[Row[s]] \in {NoThread, Flusher}
    BY <1>1, <1>2 DEF CallOfFlusher, Free
  <1> QED BY <1>2, <1>3, FlushWaits, FlushRemoves DEF FlushEntry

-----------------------------------------------------------------------------
(* The invariant holds.                                                    *)

\* Steps keep the types of the mutexes and of what check_uniqueness() has to visit.
LEMMA NextRest ==
    ASSUME OwnInv, RestSound, [Next]_vars
    PROVE  RestSound'
  <1>1. /\ connected \subseteq SAs /\ mutex \in [Segments -> All \cup {NoThread}]
        /\ unique \in [Threads -> [sa : SAs \cup {NoSA}, todo : SUBSET SAs]]
        /\ \A t \in Threads : unique[t].sa \notin unique[t].todo
        /\ NoSA \notin SAs /\ Flusher \in All
    BY SAsAssumption DEF RestSound, All
  <1>2. ASSUME NEW m, NEW v \in All \cup {NoThread}, mutex' = [mutex EXCEPT ![m] = v]
        PROVE  mutex' \in [Segments -> All \cup {NoThread}]
    BY <1>1, <1>2
  <1>3. ASSUME NEW t \in Threads, NEW s \in SAs, Return(t, s)
        PROVE  /\ unique' \in [Threads -> [sa : SAs \cup {NoSA}, todo : SUBSET SAs]]
               /\ \A u \in Threads : unique'[u].sa \notin unique'[u].todo
    <2> DEFINE e == IF s = unique[t].sa THEN NotUnique ELSE unique[t]
    <2>1. e \in [sa : SAs \cup {NoSA}, todo : SUBSET SAs] /\ e.sa \notin e.todo
      BY <1>1 DEF NotUnique
    <2>2. unique' = [unique EXCEPT ![t] = e]
      BY <1>3 DEF Return
    <2> HIDE DEF e
    <2> QED BY <1>1, <2>1, <2>2
  <1>4. CASE \/ FlushStart \/ UNCHANGED vars \/ \E t \in All : Spurious(t)
             \/ \E t \in Threads, s \in SAs : CreateNew(t, s) \/ CheckoutNew(t, s) \/ Enumerate(t, s)
             \/ \E t \in Threads : WakeCheckout(t)
    <2>1. UNCHANGED <<connected, mutex, unique>>
      BY <1>4 DEF FlushStart, vars, Spurious, CreateNew, CheckoutNew, Enumerate, WakeCheckout
    <2> QED BY <2>1 DEF RestSound
  <1>5. ASSUME NEW t \in Threads, NEW s \in SAs, Checkout(t, s) PROVE RestSound'
    <2> DEFINE e == [unique[t] EXCEPT !.todo = @ \ {s}]
    <2>1. e \in [sa : SAs \cup {NoSA}, todo : SUBSET SAs] /\ e.sa \notin e.todo
      BY <1>1
    <2>2. unique' = [unique EXCEPT ![t] = e] /\ UNCHANGED <<connected, mutex>>
      BY <1>5 DEF Checkout
    <2> HIDE DEF e
    <2> QED BY <1>1, <2>1, <2>2 DEF RestSound
  <1>6. ASSUME NEW t \in Threads, NEW s \in SAs, CheckUniqueness(t, s) PROVE RestSound'
    <2> DEFINE e == [sa |-> s, todo |-> connected]
    <2>1. e \in [sa : SAs \cup {NoSA}, todo : SUBSET SAs] /\ e.sa \notin e.todo
      BY <1>1, <1>6 DEF CheckUniqueness
    <2>2. unique' = [unique EXCEPT ![t] = e] /\ UNCHANGED <<connected, mutex>>
      BY <1>6 DEF CheckUniqueness
    <2> HIDE DEF e
    <2> QED BY <1>1, <2>1, <2>2 DEF RestSound
  <1>7. ASSUME NEW t \in Threads, NEW s \in SAs, Checkin(t, s) \/ CheckinAndDestroy(t, s)
        PROVE  RestSound'
    <2>1. /\ connected' \subseteq SAs /\ UNCHANGED mutex
          /\ Return(t, s) \/ UNCHANGED unique
      BY <1>1, <1>7 DEF Checkin, CheckinAndDestroy, RemoveEntry, DestroyEntry
    <2> QED BY <1>1, <1>3, <2>1 DEF RestSound
  <1>8. ASSUME NEW t \in Threads, WakeDestroy(t) PROVE RestSound'
    <2>1. PICK s \in SAs : s = call[t].at
      BY <1>8, WakingAt DEF WakeDestroy, All
    <2>2. /\ connected' \subseteq SAs /\ UNCHANGED mutex
          /\ Return(t, s) \/ UNCHANGED unique
      BY <1>1, <1>8, <2>1 DEF WakeDestroy, RemoveEntry, DestroyEntry
    <2> QED BY <1>1, <1>3, <2>2 DEF RestSound
  <1>9. ASSUME NEW t \in Threads, WakeEnumerate(t) \/ EnumerateNext(t) PROVE RestSound'
    <2>1. UNCHANGED <<connected, unique>>
      BY <1>9 DEF WakeEnumerate, EnumerateNext
    <2>2. ASSUME NEW s, NEW g, NEW E, Visit(t, s, g, E)
          PROVE  mutex' \in [Segments -> All \cup {NoThread}]
      <3>1. t \in All
        BY DEF All
      <3>2. mutex' = [mutex EXCEPT ![g] = NoThread] \/ mutex' = [mutex EXCEPT ![g] = t]
        BY <2>2 DEF Visit
      <3> QED BY <1>2, <3>1, <3>2
    <2>3. mutex' \in [Segments -> All \cup {NoThread}]
      BY <1>1, <1>2, <1>9, <2>2 DEF WakeEnumerate, EnumerateNext
    <2> QED BY <1>1, <2>1, <2>3 DEF RestSound
  <1>10. CASE Flush
    <2>1. UNCHANGED unique /\ connected' \subseteq connected
      BY <1>10 DEF Flush, FlushMark, FlushNext, WakeFlush, FlushEntry, RemoveEntryAt, DestroyEntry
    <2>2. ASSUME NEW s, FlushEntry(s) PROVE mutex' \in [Segments -> All \cup {NoThread}]
      BY <1>1, <1>2, <2>2 DEF FlushEntry
    <2>3. mutex' \in [Segments -> All \cup {NoThread}]
      BY <1>1, <1>10, <2>2 DEF Flush, FlushMark, FlushNext, WakeFlush
    <2> QED BY <1>1, <2>1, <2>3 DEF RestSound
  <1> QED BY <1>4, <1>5, <1>6, <1>7, <1>8, <1>9, <1>10 DEF Next, Proceed

\* Every step keeps the invariant.
LEMMA NextEntries ==
    ASSUME EntriesInv, QuietFlush, [Next]_vars
    PROVE  EntriesInv'
  <1>1. Base'
    BY NextOwned, NextShutdown, NextRest DEF EntriesInv, Base
  <1>2. CASE UNCHANGED vars
    <2>1. /\ UNCHANGED <<table, count, entry, life, mutex, call, held>>
          /\ (Flushed' <=> Flushed) /\ (Flushed => shutdown'.rng_gone)
      BY <1>2 DEF vars, Flushed, EntriesInv, FlushSound
    <2> QED BY <1>1, <2>1, NothingKeeps
  <1>3. CASE FlushStart \/ Flush
    BY <1>1, <1>3, FlushStartKeeps, FlushMarkKeeps, FlushNextKeeps, WakeFlushKeeps DEF Flush
  <1>4. ASSUME NEW t \in Threads, Proceed(t) PROVE EntriesInv'
    BY <1>1, <1>4, WakeCheckoutKeeps, WakeEnumerateKeeps, WakeDestroyKeeps, EnumerateNextKeeps
    DEF Proceed
  <1>5. ASSUME NEW t \in Threads, NEW s \in SAs,
               \/ CreateNew(t, s) \/ CheckoutNew(t, s) \/ Checkout(t, s)
               \/ Enumerate(t, s) \/ CheckUniqueness(t, s)
               \/ Checkin(t, s) \/ CheckinAndDestroy(t, s)
        PROVE  EntriesInv'
    BY <1>1, <1>5, CreateNewKeeps, CheckoutNewKeeps, CheckoutKeeps, EnumerateKeeps,
       CheckUniquenessKeeps, CheckinKeeps, CheckinAndDestroyKeeps
  <1> QED BY <1>1, <1>2, <1>3, <1>4, <1>5, SpuriousKeeps DEF Next

\* The table is empty at the start.
LEMMA InitEntries ==
    ASSUME Init
    PROVE  EntriesInv
  <1>1. OwnInv /\ ShutdownTyped /\ NoSA \notin SAs /\ Cardinality({}) = 0
    BY InitOwned, SAsAssumption, FS_EmptySet
  <1>2. NoCall.op = "none" /\ NoCall.state = "run" /\ NoCall.at = NoSA
    BY NewCalls
  <1>3. RestSound
    BY <1>1 DEF Init, RestSound, NotUnique
  <1>4. /\ ~Flushed /\ Listed = {} /\ \A t \in All : call[t] = NoCall
        /\ \A s \in SAs : entry[s] = NoEntry /\ life[s] = "none"
    BY DEF Init, Flushed, Listed
  <1>5. \A t \in All : CallSound(t)
    BY <1>2, <1>4 DEF CallSound, CallShape, CallOfThread
  <1>6. FlushSound /\ CallOfFlusher
    BY <1>2, <1>4 DEF FlushSound, CallOfFlusher, All
  <1>7. ASSUME NEW s \in SAs PROVE EntrySound(s)
    <2>1. Waiters(s) = {} /\ Sleepers(s) = {}
      BY <1>2, <1>4 DEF Waiters, Sleepers, All
    <2>2. entry[s].waiting_threads = 0
      BY <1>4 DEF NoEntry
    <2> QED BY <1>1, <1>4, <2>1, <2>2 DEF EntrySound
  <1>8. count = Cardinality(Listed)
    BY <1>1, <1>4 DEF Init
  <1> QED BY <1>1, <1>3, <1>5, <1>6, <1>7, <1>8 DEF EntriesInv, Base

\* The invariant says what the property does.
LEMMA EntriesImplied ==
    ASSUME EntriesInv
    PROVE  EntriesSound
  <1>1. OwnInv /\ Typed /\ RestSound /\ ShutdownTyped /\ count = Cardinality(Listed)
    BY DEF EntriesInv, Base, OwnInv
  <1>2. TypeOK
    <2>1. count \in 0..Cardinality(SAs)
      <3>1. Listed \in SUBSET SAs
        BY DEF Listed
      <3> HIDE DEF Listed
      <3>2. /\ IsFiniteSet(Listed) /\ Cardinality(Listed) <= Cardinality(SAs)
        BY <3>1, SAsAssumption, FS_Subset
      <3>3. Cardinality(Listed) \in Nat /\ Cardinality(SAs) \in Nat
        BY <3>2, SAsAssumption, FS_CardinalityType
      <3> QED BY <1>1, <3>2, <3>3
    <2>2. entry \in [SAs -> [checked_out : Threads \cup {NoThread},
                             waiting_threads : 0..Cardinality(Threads),
                             driveout_threads : BOOLEAN]]
      <3>1. \A s \in SAs : entry[s].waiting_threads \in 0..Cardinality(Threads)
        <4>1. Cardinality(Threads) \in Nat
          BY ThreadsAssumption, FS_CardinalityType
        <4> QED BY <4>1, WaitersFinite DEF EntriesInv, EntrySound
      <3> QED BY <1>1, <3>1 DEF Typed, EntryRec
    <2> QED BY <1>1, <2>1, <2>2 DEF TypeOK, Typed, RestSound, ShutdownTyped, CallRec, Lives
  <1>3. NoDangling
    <2>1. \A t \in All : call[t].at # NoSA => life[call[t].at] # "destroyed"
      BY DEF EntriesInv, CallSound, CallShape
    <2>2. \A t \in Threads : \A s \in held[t] : life[s] # "destroyed"
      BY <1>1 DEF OwnInv, Typed, HeldAt
    <2> QED BY <2>1, <2>2 DEF NoDangling
  <1>4. CountIsEntries
    <2>1. ASSUME NEW s \in SAs PROVE life[s] = "listed" <=> s \in Range(table[Row[s]])
      BY <1>1, SegmentsAssumption DEF EntriesInv, EntrySound, OwnInv, RowSound
    <2>2. \A g \in Segments : IsInjective(table[g])
      BY <1>1 DEF OwnInv, RowSound
    <2> QED BY <1>1, <2>1, <2>2 DEF CountIsEntries, Listed
  <1>5. NobodyForgotten
    BY DEF NobodyForgotten, EntriesInv, EntrySound, Minds
  <1> QED BY <1>2, <1>3, <1>4, <1>5 DEF EntriesSound

\* If flush() meets no thread that destroys or adds an IKE_SA, the table is sound between
\* any two steps: checkin_and_destroy() and flush() free an entry only when nobody is at it,
\* total_sa_count is the number of entries, and whoever sleeps at an entry will be signalled.
THEOREM EntriesSoundCorrect ==
    ASSUME QuietFlush
    PROVE  Spec => []EntriesSound
  <1>1. EntriesInv /\ [Next]_vars => EntriesInv'
    BY NextEntries
  <1> QED BY <1>1, InitEntries, EntriesImplied, PTL DEF Spec

=============================================================================
