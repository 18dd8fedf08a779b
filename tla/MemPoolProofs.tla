---------------------------- MODULE MemPoolProofs ----------------------------
(***************************************************************************)
(* Theorems about MemPool, for any number of IKE_SAs, identities, peers and *)
(* pools of any size.                                                       *)
(***************************************************************************)
EXTENDS MemPool, FiniteSetTheorems, FunctionTheorems, SequenceTheorems,
        WellFoundedInduction, TLAPS

-----------------------------------------------------------------------------
(* The inductive invariants.                                               *)

SaRec == [state : States, op : 1..Len(Ops), pool : Pools,
          requested : Requests \cup {None}, addr : Pools \X Nat \cup {None}]

\* The leases of a pool, of which arrays of online leases consist.
Leases(p) == {l \in Lease : l.offset \in Offsets(p)}
Arrays(p) == {a \in [head : Nat, tail : Nat, elems : Seq(Leases(p))] : a.head + a.tail <= MaxUnused}

\* The lease is in the list of online, or of offline leases, of the identity.
On(on, i, o) == \E k \in DOMAIN on[i].elems : on[i].elems[k].offset = o
Off(off, i, o) == \E k \in DOMAIN off[i] : off[i][k] = o

\* Every lease handed out is in the lists of one identity, in that of offline leases once.
OnOnce(p, on) ==
    \A i, j \in Ids, o \in Offsets(p) : On(on, i, o) /\ On(on, j, o) => i = j
OnNotOff(p, on, off) ==
    \A i, j \in Ids, o \in Offsets(p) : On(on, i, o) => ~Off(off, j, o)
OffOnce(off) ==
    \A i, j \in Ids : \A k \in DOMAIN off[i], l \in DOMAIN off[j] :
        off[i][k] = off[j][l] => i = j /\ k = l
HandedOut(p, on, off, n) ==
    \A o \in Offsets(p) : o <= n <=> \E i \in Ids : On(on, i, o) \/ Off(off, i, o)

PoolType(p, on, off, n) ==
    on \in [Ids -> Arrays(p)] /\ off \in [Ids -> Seq(Offsets(p))] /\ n \in 0..PoolSizes[p]
PoolSound(p, on, off, n) ==
    /\ PoolType(p, on, off, n)
    /\ OnOnce(p, on) /\ OnNotOff(p, on, off) /\ OffOnce(off) /\ HandedOut(p, on, off, n)

Sound(p) == PoolSound(p, online[p], offline[p], unused[p])

\* The pools asked for a new lease had none left.
Exhausted(s) ==
    sa[s].state = "acquire" => \A p \in loaded :
        sa[s].op = 3 \/ (sa[s].op = 2 /\ p < sa[s].pool) => unused[p] = PoolSizes[p]

\* An IKE_SA has an address of a pool, or none.
AddrSound(s) ==
    sa[s].addr # None => sa[s].addr[1] \in Pools /\ sa[s].addr[2] \in Offsets(sa[s].addr[1])

KeptInv ==
    /\ loaded \subseteq Pools /\ sa \in [Sessions -> SaRec]
    /\ DOMAIN online = Pools /\ DOMAIN offline = Pools /\ unused \in [Pools -> Nat]
    /\ \A p \in Pools : Sound(p)
    /\ \A s \in Sessions : Exhausted(s) /\ AddrSound(s)

\* No identity has a third IKE_SA and arrays of two leases are extended in place, or the
\* IKE_SAs of an identity have peers of their own: then reassigning an online lease
\* copies what it should.
Distinct(i) == \A s, t \in Sessions : Id[s] = i /\ Id[t] = i /\ Peer[s] = Peer[t] => s = t
CopiesHarmless ==
    \A i \in Ids : \/ InPlace >= 2 /\ Cardinality({s \in Sessions : Id[s] = i}) <= 2
                   \/ Distinct(i)

\* Who has an address, whose pool is then loaded and is still to be asked to release it.
HoldsSound(s) ==
    /\ sa[s].state \in {"idle", "acquire", "failed"} => sa[s].addr = None
    /\ sa[s].state \in {"up", "release"} =>
          /\ sa[s].addr # None /\ sa[s].addr[1] \in loaded
          /\ sa[s].state = "release" => sa[s].pool <= sa[s].addr[1]

\* The online leases of an identity are those of its IKE_SAs, if all have peers of their own.
PeersOwn(e, f, p, i) ==
    \A k \in DOMAIN e : \E t \in Sessions :
        Id[t] = i /\ Peer[t] = e[k].hash /\ f[t].addr = <<p, e[k].offset>>
AddrsOwn(f, i) ==
    \A t, u \in Sessions :
        Id[t] = i /\ Id[u] = i /\ f[t].addr = f[u].addr /\ f[t].addr # None => t = u
DistinctSound ==
    \A p \in Pools, i \in Ids :
        Distinct(i) => PeersOwn(online[p][i].elems, sa, p, i) /\ AddrsOwn(sa, i)

HeldInv ==
    OnlineIsHeld /\ DistinctSound /\ \A s \in Sessions : HoldsSound(s)

-----------------------------------------------------------------------------
(* Sequences.                                                              *)

\* A nonempty set of numbers has a least one.
LEMMA LeastOf ==
    ASSUME NEW S, S \subseteq Nat, S # {}
    PROVE  Min(S) \in S
  <1>1. PICK R : R = OpToRel(<, Nat)
    OBVIOUS
  <1>2. \E x \in S : \A y \in S : ~(<<y, x>> \in R)
    BY <1>1, NatLessThanWellFounded, WFMin
  <1>3. \A x, y \in Nat : x < y => <<x, y>> \in R
    BY <1>1 DEF OpToRel
  <1>4. \E x \in S : \A y \in S : x =< y
    <2>1. PICK x \in S : \A y \in S : ~(<<y, x>> \in R)
      BY <1>2
    <2>2. \A y \in S : y \in Nat /\ x \in Nat /\ ~(y < x)
      BY <1>3, <2>1
    <2>3. \A y \in S : x =< y
      BY <2>2
    <2> QED BY <2>3
  <1> QED BY <1>4 DEF Min

\* The element that was appended is the last, the others stay.
LEMMA AppendFacts ==
    ASSUME NEW S, NEW q \in Seq(S), NEW x \in S
    PROVE  /\ Append(q, x) \in Seq(S) /\ Len(Append(q, x)) = Len(q) + 1 /\ Len(q) \in Nat
           /\ DOMAIN q = 1..Len(q) /\ DOMAIN Append(q, x) = 1..(Len(q) + 1)
           /\ \A k \in 1..Len(q) : Append(q, x)[k] = q[k]
           /\ Append(q, x)[Len(q) + 1] = x
  BY AppendProperties

\* Where the elements of a sequence without its k-th element were.
Old(k, i) == IF i < k THEN i ELSE i + 1

\* remove_at() takes the element out and keeps the others.
LEMMA RemoveAtFacts ==
    ASSUME NEW S, NEW q \in Seq(S), NEW k \in DOMAIN q, NEW r, r = RemoveAt(q, k)
    PROVE  /\ r \in Seq(S) /\ Len(r) = Len(q) - 1 /\ Len(q) \in Nat
           /\ DOMAIN q = 1..Len(q) /\ DOMAIN r = 1..(Len(q) - 1)
           /\ \A i \in DOMAIN r : Old(k, i) \in DOMAIN q \ {k} /\ r[i] = q[Old(k, i)]
           /\ \A j \in DOMAIN q \ {k} : \E i \in DOMAIN r : Old(k, i) = j
           /\ \A i, j \in DOMAIN r : Old(k, i) = Old(k, j) => i = j
  <1> DEFINE n == Len(q)  a == SubSeq(q, 1, k - 1)  b == SubSeq(q, k + 1, n)
  <1>1. n \in Nat /\ DOMAIN q = 1..n /\ k \in 1..n
    OBVIOUS
  <1>2. /\ a \in Seq(S) /\ Len(a) = k - 1 /\ \A i \in 1..(k - 1) : a[i] = q[i]
        /\ b \in Seq(S) /\ Len(b) = n - k /\ \A i \in 1..(n - k) : b[i] = q[k + i]
    <2>1. a \in Seq(S) /\ Len(a) = k - 1 /\ \A i \in 1..(k - 1) : a[i] = q[i]
      BY <1>1
    <2>2. b \in Seq(S) /\ Len(b) = n - k
      BY <1>1
    <2>3. \A i \in 1..(n - k) : b[i] = q[k + i]
      BY <1>1
    <2> QED BY <2>1, <2>2, <2>3
  <1>3. r = a \o b
    BY DEF RemoveAt
  <1> HIDE DEF a, b
  <1>4. /\ r \in Seq(S) /\ Len(r) = n - 1
        /\ \A i \in 1..(n - 1) : r[i] = IF i <= Len(a) THEN a[i] ELSE b[i - Len(a)]
    <2>1. /\ a \o b \in Seq(S) /\ Len(a \o b) = Len(a) + Len(b)
          /\ \A i \in 1..(Len(a) + Len(b)) :
                (a \o b)[i] = IF i <= Len(a) THEN a[i] ELSE b[i - Len(a)]
      BY <1>2, ConcatProperties, Zenon
    <2>2. Len(a) + Len(b) = n - 1
      BY <1>1, <1>2
    <2> QED BY <1>3, <2>1, <2>2, Zenon
  <1>5. DOMAIN r = 1..(n - 1)
    BY <1>4
  <1>6. ASSUME NEW i \in 1..(n - 1)
        PROVE  Old(k, i) \in (1..n) \ {k} /\ r[i] = q[Old(k, i)]
    <2>1. CASE i < k
      <3>1. i \in 1..(k - 1) /\ i <= Len(a) /\ Old(k, i) = i
        BY <1>1, <1>2, <2>1 DEF Old
      <3>2. r[i] = a[i] /\ a[i] = q[i]
        BY <1>2, <1>4, <3>1
      <3> QED BY <1>1, <2>1, <3>1, <3>2
    <2>2. CASE ~(i < k)
      <3>1. i - Len(a) \in 1..(n - k) /\ ~(i <= Len(a)) /\ k + (i - Len(a)) = i + 1
            /\ Old(k, i) = i + 1 /\ i + 1 \in (1..n) \ {k}
        BY <1>1, <1>2, <2>2 DEF Old
      <3> QED BY <1>2, <1>4, <3>1
    <2> QED BY <2>1, <2>2
  <1>7. ASSUME NEW j \in (1..n) \ {k} PROVE \E i \in 1..(n - 1) : Old(k, i) = j
    <2>1. CASE j < k
      <3>1. j \in 1..(n - 1) /\ Old(k, j) = j
        BY <1>1, <2>1 DEF Old
      <3> QED BY <3>1
    <2>2. CASE ~(j < k)
      <3>1. j - 1 \in 1..(n - 1) /\ Old(k, j - 1) = j
        BY <1>1, <1>7, <2>2 DEF Old
      <3> QED BY <3>1
    <2> QED BY <2>1, <2>2
  <1>8. \A i, j \in 1..(n - 1) : Old(k, i) = Old(k, j) => i = j
    BY <1>1 DEF Old
  <1> QED BY <1>1, <1>4, <1>5, <1>6, <1>7, <1>8

\* The leases with an offset, and the first of them.
At(e, o) == {k \in DOMAIN e : e[k].offset = o}
FirstOf(e, o) == SelectInSeq(e, LAMBDA l : l.offset = o)
LEMMA FirstAt ==
    ASSUME NEW S, NEW e \in Seq(S), NEW o, NEW k, k = FirstOf(e, o)
    PROVE  (k = 0 /\ At(e, o) = {}) \/ (k # 0 /\ k \in At(e, o))
  <1>1. DOMAIN e = 1..Len(e) /\ At(e, o) = {i \in 1..Len(e) : e[i].offset = o}
    BY DEF At
  <1>2. k = IF At(e, o) # {} THEN Min(At(e, o)) ELSE 0
    BY <1>1 DEF FirstOf, SelectInSeq
  <1>3. At(e, o) \subseteq Nat /\ 0 \notin At(e, o)
    BY <1>1
  <1> QED BY <1>2, <1>3, LeastOf

\* There are finitely many.
LEMMA AtFinite ==
    ASSUME NEW S, NEW e \in Seq(S), NEW o
    PROVE  IsFiniteSet(At(e, o)) /\ Cardinality(At(e, o)) \in Nat
  <1>1. At(e, o) \subseteq 1..Len(e) /\ Len(e) \in Nat
    BY DEF At
  <1>2. IsFiniteSet(1..Len(e))
    BY <1>1, FS_Interval
  <1> QED BY <1>1, <1>2, FS_Subset, FS_CardinalityType

\* One lease more counts for its offset,
LEMMA AtAppend ==
    ASSUME NEW S, NEW e \in Seq(S), NEW l \in S, NEW o
    PROVE  /\ IsFiniteSet(At(e, o)) /\ Cardinality(At(e, o)) \in Nat
           /\ Cardinality(At(Append(e, l), o)) =
                  Cardinality(At(e, o)) + IF l.offset = o THEN 1 ELSE 0
  <1>1. PICK f : f = Append(e, l)
    OBVIOUS
  <1>2. /\ DOMAIN e = 1..Len(e) /\ DOMAIN f = 1..(Len(e) + 1) /\ Len(e) \in Nat
        /\ (\A k \in 1..Len(e) : f[k] = e[k]) /\ f[Len(e) + 1] = l
    BY <1>1, AppendFacts
  <1>3. IsFiniteSet(At(e, o))
    BY AtFinite
  <1>4. At(f, o) = IF l.offset = o THEN At(e, o) \cup {Len(e) + 1} ELSE At(e, o)
    BY <1>2 DEF At
  <1>5. Len(e) + 1 \notin At(e, o)
    BY <1>2 DEF At
  <1>6. Cardinality(At(e, o)) \in Nat
    BY <1>3, FS_CardinalityType
  <1>7. PICK A : A = At(e, o)
    OBVIOUS
  <1>8. Cardinality(A \cup {Len(e) + 1}) = Cardinality(A) + 1
    BY <1>3, <1>5, <1>7, FS_AddElement
  <1>9. CASE l.offset = o
    BY <1>1, <1>3, <1>4, <1>6, <1>7, <1>8, <1>9
  <1>10. CASE l.offset # o
    BY <1>1, <1>3, <1>4, <1>6, <1>10
  <1> QED BY <1>9, <1>10

\* and one that is removed no longer does.
LEMMA AtRemove ==
    ASSUME NEW S, NEW e \in Seq(S), NEW k \in DOMAIN e, NEW o
    PROVE  /\ IsFiniteSet(At(e, o)) /\ Cardinality(At(e, o)) \in Nat
           /\ Cardinality(At(RemoveAt(e, k), o)) =
                  Cardinality(At(e, o)) - IF e[k].offset = o THEN 1 ELSE 0
  <1>1. PICK r : r = RemoveAt(e, k)
    OBVIOUS
  <1>2. /\ Len(e) \in Nat /\ DOMAIN e = 1..Len(e)
        /\ \A i \in DOMAIN r : Old(k, i) \in DOMAIN e \ {k} /\ r[i] = e[Old(k, i)]
        /\ \A j \in DOMAIN e \ {k} : \E i \in DOMAIN r : Old(k, i) = j
        /\ \A i, j \in DOMAIN r : Old(k, i) = Old(k, j) => i = j
    BY <1>1, RemoveAtFacts
  <1>3. IsFiniteSet(At(e, o))
    BY AtFinite
  <1>4. IsFiniteSet(At(e, o) \ {k}) /\ Cardinality(At(e, o)) \in Nat
    BY <1>3, FS_RemoveElement, FS_CardinalityType
  <1>5. Cardinality(At(r, o)) = Cardinality(At(e, o) \ {k})
    <2>1. PICK f : f = [i \in At(r, o) |-> Old(k, i)]
      OBVIOUS
    <2>2. f \in [At(r, o) -> At(e, o) \ {k}]
      BY <1>2, <2>1 DEF At
    <2>3. \A i, j \in At(r, o) : f[i] = f[j] => i = j
      BY <1>2, <2>1 DEF At
    <2>4. \A j \in At(e, o) \ {k} : \E i \in At(r, o) : f[i] = j
      BY <1>2, <2>1 DEF At
    <2>5. f \in Bijection(At(r, o), At(e, o) \ {k})
      BY <2>2, <2>3, <2>4, Fun_IsBij, Zenon
    <2>6. r \in Seq(S)
      BY <1>1, RemoveAtFacts
    <2>7. IsFiniteSet(At(r, o))
      BY <2>6, AtFinite
    <2> QED BY <2>5, <2>7, FS_Bijection DEF ExistsBijection
  <1>6. k \in At(e, o) <=> e[k].offset = o
    BY DEF At
  <1>7. k \notin At(e, o) => At(e, o) \ {k} = At(e, o)
    OBVIOUS
  <1> QED BY <1>1, <1>3, <1>4, <1>5, <1>6, <1>7, FS_RemoveElement

-----------------------------------------------------------------------------
(* Arrays, and the lists of a pool.                                        *)

\* The pools are numbered from one, and so are their addresses.
LEMMA PoolFacts ==
    /\ Len(PoolSizes) \in Nat \ {0} /\ Pools = 1..Len(PoolSizes)
    /\ 1 \in Pools /\ Len(PoolSizes) \in Pools
    /\ \A p \in Pools : /\ p \in Nat \ {0} /\ p <= Len(PoolSizes) /\ PoolSizes[p] \in Nat \ {0}
                        /\ Offsets(p) \subseteq Nat \ {0}
                        /\ \A o : o \in Offsets(p) <=> o \in Nat \ {0} /\ o <= PoolSizes[p]
  <1>1. PoolSizes \in Seq(Nat \ {0}) /\ PoolSizes # <<>>
    BY PoolsAssumption
  <1>2. Len(PoolSizes) \in Nat \ {0} /\ DOMAIN PoolSizes = 1..Len(PoolSizes)
        /\ \A p \in 1..Len(PoolSizes) : PoolSizes[p] \in Nat \ {0}
    BY <1>1
  <1> QED BY <1>2 DEF Pools, Offsets

\* What is known of the identity and the peer of an IKE_SA.
LEMMA SessionFacts ==
    ASSUME NEW s \in Sessions
    PROVE  Id[s] \in Ids /\ Peer[s] \in Peers /\ Peer[s] # NoPeer
  BY PoolsAssumption DEF Ids, Peers

\* The fields of an array.
LEMMA ArrayFields ==
    ASSUME NEW p \in Pools, NEW a \in Arrays(p)
    PROVE  /\ a.head \in Nat /\ a.tail \in Nat /\ a.elems \in Seq(Leases(p))
           /\ a.head + a.tail <= MaxUnused
           /\ DOMAIN a.elems = 1..Len(a.elems) /\ Len(a.elems) \in Nat
           /\ \A k \in DOMAIN a.elems :
                 /\ a.elems[k] \in Leases(p)
                 /\ a.elems[k].offset \in Nat /\ a.elems[k].offset \in Offsets(p)
  <1>1. a.head \in Nat /\ a.tail \in Nat /\ a.elems \in Seq(Leases(p))
        /\ a.head + a.tail <= MaxUnused
    BY DEF Arrays
  <1>2. DOMAIN a.elems = 1..Len(a.elems) /\ Len(a.elems) \in Nat
        /\ \A k \in 1..Len(a.elems) : a.elems[k] \in Leases(p)
    BY <1>1
  <1>3. \A l \in Leases(p) : l.offset \in Nat /\ l.offset \in Offsets(p)
    BY DEF Leases, Lease
  <1> QED BY <1>1, <1>2, <1>3

\* An array is made of its fields.
LEMMA ArrayOf ==
    ASSUME NEW p \in Pools, NEW h \in Nat, NEW t \in Nat, NEW e \in Seq(Leases(p)),
           h + t <= MaxUnused
    PROVE  [elems |-> e, head |-> h, tail |-> t] \in Arrays(p)
  BY DEF Arrays

\* No lease is in a new array.
LEMMA EmptyArrayType ==
    ASSUME NEW p \in Pools
    PROVE  EmptyArray \in Arrays(p) /\ EmptyArray.elems = <<>>
  BY ArraysAssumption DEF EmptyArray, Arrays

\* A lease of an IKE_SA is one of the pool.
LEMMA OwnLeaseType ==
    ASSUME NEW p \in Pools, NEW s \in Sessions, NEW o \in Offsets(p)
    PROVE  /\ OwnLease(s, o) \in Leases(p)
           /\ OwnLease(s, o).offset = o /\ OwnLease(s, o).hash = Peer[s]
  <1>1. o \in Nat
    BY PoolFacts
  <1> QED BY <1>1, SessionFacts DEF OwnLease, Leases, Lease

\* array_insert() at the tail,
LEMMA InsertLastType ==
    ASSUME NEW p \in Pools, NEW a \in Arrays(p), NEW l \in Leases(p)
    PROVE  InsertLast(a, l) \in Arrays(p) /\ InsertLast(a, l).elems = Append(a.elems, l)
  <1>1. /\ a.head \in Nat /\ a.tail \in Nat /\ a.elems \in Seq(Leases(p))
        /\ a.head + a.tail <= MaxUnused /\ MaxUnused \in Nat
    BY ArrayFields, ArraysAssumption
  <1>2. PICK h, t : /\ h = IF UsesHead(a) THEN Less(a.head) ELSE a.head
                    /\ t = IF UsesHead(a) THEN a.tail ELSE Less(a.tail)
    OBVIOUS
  <1>3. h \in Nat /\ t \in Nat /\ h + t <= MaxUnused
    BY <1>1, <1>2 DEF Less
  <1>4. InsertLast(a, l) = [elems |-> Append(a.elems, l), head |-> h, tail |-> t]
    BY <1>2 DEF InsertLast
  <1>5. Append(a.elems, l) \in Seq(Leases(p))
    BY <1>1, AppendFacts
  <1>6. InsertLast(a, l).elems = Append(a.elems, l)
    BY <1>4
  <1>7. InsertLast(a, l) \in Arrays(p)
    <2>1. PICK e : e = Append(a.elems, l)
      OBVIOUS
    <2>2. [elems |-> e, head |-> h, tail |-> t] \in Arrays(p)
      BY <1>3, <1>5, <2>1, ArrayOf
    <2> QED BY <1>4, <2>1, <2>2
  <1> QED BY <1>6, <1>7

\* and array_remove() of an element.
LEMMA RemoveIndexType ==
    ASSUME NEW p \in Pools, NEW a \in Arrays(p), NEW k \in DOMAIN a.elems
    PROVE  RemoveIndex(a, k) \in Arrays(p) /\ RemoveIndex(a, k).elems = RemoveAt(a.elems, k)
  <1>1. /\ a.head \in Nat /\ a.tail \in Nat /\ a.elems \in Seq(Leases(p))
        /\ a.head + a.tail <= MaxUnused /\ MaxUnused \in Nat
    BY ArrayFields, ArraysAssumption
  <1> DEFINE atTail == k - 1 > Len(a.elems) \div 2
             head == IF atTail THEN a.head ELSE a.head + 1
             tail == IF atTail THEN a.tail + 1 ELSE a.tail
             compress == head + tail > MaxUnused
  <1>2. PICK h, t : /\ h = IF compress THEN 0 ELSE head
                    /\ t = IF compress THEN 0 ELSE tail
    OBVIOUS
  <1>4. RemoveIndex(a, k) = [elems |-> RemoveAt(a.elems, k), head |-> h, tail |-> t]
    BY <1>2 DEF RemoveIndex
  <1> HIDE DEF atTail
  <1>3. head \in Nat /\ tail \in Nat
    BY <1>1
  <1> HIDE DEF head, tail
  <1>5. h \in Nat /\ t \in Nat /\ h + t <= MaxUnused
    BY <1>1, <1>2, <1>3
  <1>6. RemoveAt(a.elems, k) \in Seq(Leases(p))
    BY <1>1, RemoveAtFacts
  <1>7. RemoveIndex(a, k).elems = RemoveAt(a.elems, k)
    BY <1>4
  <1>8. RemoveIndex(a, k) \in Arrays(p)
    <2>1. PICK e : e = RemoveAt(a.elems, k)
      OBVIOUS
    <2>2. [elems |-> e, head |-> h, tail |-> t] \in Arrays(p)
      BY <1>5, <1>6, <2>1, ArrayOf
    <2> QED BY <1>4, <2>1, <2>2
  <1> QED BY <1>7, <1>8

\* One lease more, or less, is online or offline.
OnMore(on, g, i, o) == \A b \in Ids : \A x : On(g, b, x) <=> On(on, b, x) \/ (b = i /\ x = o)
OnLess(on, g, i, o) == \A b \in Ids : \A x : On(g, b, x) <=> On(on, b, x) /\ ~(b = i /\ x = o)
OffMore(off, h, i, o) ==
    \A b \in Ids : \A x : Off(h, b, x) <=> Off(off, b, x) \/ (b = i /\ x = o)
OffLess(off, h, o) == \A b \in Ids : \A x : Off(h, b, x) <=> Off(off, b, x) /\ x # o

\* A lease that is inserted is online,
Inserts(p, on, i, l, g) ==
    /\ on \in [Ids -> Arrays(p)] /\ i \in Ids /\ l \in Leases(p)
    /\ g = [on EXCEPT ![i] = InsertLast(on[i], l)]
LEMMA InsertedOn ==
    ASSUME NEW p \in Pools, NEW on, NEW i, NEW l, NEW g, Inserts(p, on, i, l, g)
    PROVE  /\ g \in [Ids -> Arrays(p)]
           /\ g[i].elems = Append(on[i].elems, l)
           /\ \A j \in Ids \ {i} : g[j] = on[j]
           /\ OnMore(on, g, i, l.offset)
  <1>0. /\ on \in [Ids -> Arrays(p)] /\ i \in Ids /\ l \in Leases(p)
        /\ g = [on EXCEPT ![i] = InsertLast(on[i], l)]
    BY DEF Inserts
  <1>1. on[i] \in Arrays(p) /\ on[i].elems \in Seq(Leases(p))
    BY <1>0, ArrayFields
  <1>2. /\ InsertLast(on[i], l) \in Arrays(p)
        /\ InsertLast(on[i], l).elems = Append(on[i].elems, l)
    BY <1>0, <1>1, InsertLastType
  <1>3. /\ g \in [Ids -> Arrays(p)] /\ g[i].elems = Append(on[i].elems, l)
        /\ \A j \in Ids \ {i} : g[j] = on[j]
    BY <1>0, <1>2
  <1>4. PICK e, f : e = on[i].elems /\ f = g[i].elems
    OBVIOUS
  <1>5. /\ DOMAIN e = 1..Len(e) /\ DOMAIN f = 1..(Len(e) + 1) /\ Len(e) \in Nat
        /\ (\A k \in 1..Len(e) : f[k] = e[k]) /\ f[Len(e) + 1] = l
    BY <1>0, <1>1, <1>3, <1>4, AppendFacts
  <1>6. \A x : (\E k \in DOMAIN f : f[k].offset = x) <=>
                   (\E k \in DOMAIN e : e[k].offset = x) \/ x = l.offset
    BY <1>5
  <1>7. \A x : On(g, i, x) <=> On(on, i, x) \/ x = l.offset
    BY <1>4, <1>6 DEF On
  <1>8. \A j \in Ids \ {i} : \A x : On(g, j, x) <=> On(on, j, x)
    BY <1>3 DEF On
  <1> QED BY <1>3, <1>7, <1>8 DEF OnMore

\* and one that is removed is so only if there is another.
Removes(p, on, i, k, o, g) ==
    /\ on \in [Ids -> Arrays(p)] /\ i \in Ids /\ k \in DOMAIN on[i].elems
    /\ on[i].elems[k].offset = o /\ g = [on EXCEPT ![i] = RemoveIndex(on[i], k)]
OnWithout(on, g, i, o) ==
    \A b \in Ids : \A x : /\ On(g, b, x) => On(on, b, x)
                          /\ On(on, b, x) /\ ~(b = i /\ x = o) => On(g, b, x)
LEMMA RemovedOn ==
    ASSUME NEW p \in Pools, NEW on, NEW i, NEW k, NEW o, NEW g, Removes(p, on, i, k, o, g)
    PROVE  /\ g \in [Ids -> Arrays(p)]
           /\ g[i].elems = RemoveAt(on[i].elems, k)
           /\ \A j \in Ids \ {i} : g[j] = on[j]
           /\ OnWithout(on, g, i, o) /\ On(on, i, o)
  <1>0. /\ on \in [Ids -> Arrays(p)] /\ i \in Ids /\ k \in DOMAIN on[i].elems
        /\ on[i].elems[k].offset = o /\ g = [on EXCEPT ![i] = RemoveIndex(on[i], k)]
    BY DEF Removes
  <1>1. on[i] \in Arrays(p) /\ on[i].elems \in Seq(Leases(p))
    BY <1>0, ArrayFields
  <1>2. /\ RemoveIndex(on[i], k) \in Arrays(p)
        /\ RemoveIndex(on[i], k).elems = RemoveAt(on[i].elems, k)
    BY <1>0, <1>1, RemoveIndexType
  <1>3. /\ g \in [Ids -> Arrays(p)] /\ g[i].elems = RemoveAt(on[i].elems, k)
        /\ \A j \in Ids \ {i} : g[j] = on[j]
    BY <1>0, <1>2
  <1>4. PICK e, f : e = on[i].elems /\ f = g[i].elems
    OBVIOUS
  <1>5. /\ \A m \in DOMAIN f : Old(k, m) \in DOMAIN e \ {k} /\ f[m] = e[Old(k, m)]
        /\ \A j \in DOMAIN e \ {k} : \E m \in DOMAIN f : Old(k, m) = j
    <2>1. e \in Seq(Leases(p)) /\ k \in DOMAIN e /\ f = RemoveAt(e, k)
      BY <1>0, <1>1, <1>3, <1>4
    <2> QED BY <2>1, RemoveAtFacts
  <1>6. ASSUME NEW x
        PROVE  /\ (\E m \in DOMAIN f : f[m].offset = x) => (\E m \in DOMAIN e : e[m].offset = x)
               /\ (\E m \in DOMAIN e : e[m].offset = x) /\ x # o =>
                      (\E m \in DOMAIN f : f[m].offset = x)
    <2>1. ASSUME NEW m \in DOMAIN e, e[m].offset = x, x # o
          PROVE  \E j \in DOMAIN f : f[j].offset = x
      <3>1. m \in DOMAIN e \ {k}
        BY <1>0, <1>4, <2>1
      <3>2. PICK j \in DOMAIN f : Old(k, j) = m
        BY <1>5, <3>1
      <3> QED BY <1>5, <2>1, <3>2
    <2> QED BY <1>5, <2>1
  <1>7. \A x : /\ On(g, i, x) => On(on, i, x)
               /\ On(on, i, x) /\ x # o => On(g, i, x)
    BY <1>4, <1>6 DEF On
  <1>8. \A j \in Ids \ {i} : \A x : On(g, j, x) <=> On(on, j, x)
    BY <1>3 DEF On
  <1>9. On(on, i, o)
    BY <1>0 DEF On
  <1> QED BY <1>0, <1>3, <1>7, <1>8, <1>9 DEF OnWithout

\* The first offline lease of an identity is taken off its list,
TakesFirst(p, off, i, h, o) ==
    /\ off \in [Ids -> Seq(Offsets(p))] /\ OffOnce(off) /\ i \in Ids /\ off[i] # <<>>
    /\ h = [off EXCEPT ![i] = Tail(off[i])] /\ o = off[i][1]
LEMMA TakenOff ==
    ASSUME NEW p \in Pools, NEW off, NEW i, NEW h, NEW o, TakesFirst(p, off, i, h, o)
    PROVE  /\ h \in [Ids -> Seq(Offsets(p))] /\ OffOnce(h)
           /\ o \in Offsets(p) /\ Off(off, i, o)
           /\ OffLess(off, h, o)
  <1>0. /\ off \in [Ids -> Seq(Offsets(p))] /\ OffOnce(off) /\ i \in Ids /\ off[i] # <<>>
        /\ h = [off EXCEPT ![i] = Tail(off[i])] /\ o = off[i][1]
    BY DEF TakesFirst
  <1>1. PICK e, t : e = off[i] /\ t = Tail(off[i])
    OBVIOUS
  <1>2. /\ e \in Seq(Offsets(p)) /\ e # <<>> /\ Len(e) \in Nat /\ DOMAIN e = 1..Len(e)
        /\ Len(e) > 0 /\ e[1] = o /\ o \in Offsets(p) /\ 1 \in DOMAIN e
    BY <1>0, <1>1
  <1>3. /\ t \in Seq(Offsets(p)) /\ DOMAIN t = 1..(Len(e) - 1)
        /\ \A k \in 1..(Len(e) - 1) : t[k] = e[k + 1]
    BY <1>1, <1>2
  <1>4. h \in [Ids -> Seq(Offsets(p))] /\ h[i] = t /\ \A j \in Ids \ {i} : h[j] = off[j]
    BY <1>0, <1>1, <1>3
  <1>5. Off(off, i, o)
    BY <1>0, <1>1, <1>2 DEF Off
  <1> DEFINE New(j, k) == IF j = i THEN k + 1 ELSE k
  <1>6. ASSUME NEW j \in Ids, NEW k \in DOMAIN h[j]
        PROVE  /\ New(j, k) \in DOMAIN off[j] /\ h[j][k] = off[j][New(j, k)]
               /\ h[j][k] # o
    <2>1. New(j, k) \in DOMAIN off[j] /\ h[j][k] = off[j][New(j, k)] /\ (j = i => New(j, k) # 1)
      BY <1>0, <1>1, <1>2, <1>3, <1>4
    <2>2. off[j][New(j, k)] # off[i][1]
      BY <1>0, <1>1, <1>2, <2>1 DEF OffOnce
    <2> QED BY <1>0, <2>1, <2>2
  <1>7. \A j \in Ids : \A k, l \in DOMAIN h[j] : New(j, k) = New(j, l) => k = l
    BY <1>3, <1>4
  <1>8. ASSUME NEW j \in Ids, NEW k \in DOMAIN off[j], off[j][k] # o
        PROVE  \E m \in DOMAIN h[j] : h[j][m] = off[j][k]
    <2>1. CASE j = i
      <3>1. k - 1 \in DOMAIN t /\ t[k - 1] = e[k]
        BY <1>1, <1>2, <1>3, <1>8, <2>1
      <3> QED BY <1>1, <1>4, <2>1, <3>1
    <2>2. CASE j # i
      BY <1>4, <2>2
    <2> QED BY <2>1, <2>2
  <1> HIDE DEF New
  <1>9. OffOnce(h)
    <2> SUFFICES ASSUME NEW a \in Ids, NEW b \in Ids, NEW k \in DOMAIN h[a],
                        NEW l \in DOMAIN h[b], h[a][k] = h[b][l]
                 PROVE  a = b /\ k = l
      BY DEF OffOnce
    <2>1. off[a][New(a, k)] = off[b][New(b, l)]
      BY <1>6
    <2>2. a = b /\ New(a, k) = New(b, l)
      BY <1>0, <1>6, <2>1 DEF OffOnce
    <2> QED BY <1>7, <2>2
  <1>10. ASSUME NEW j \in Ids, NEW x PROVE Off(h, j, x) <=> Off(off, j, x) /\ x # o
    <2>1. ASSUME Off(h, j, x) PROVE Off(off, j, x) /\ x # o
      <3>1. PICK k \in DOMAIN h[j] : h[j][k] = x
        BY <2>1 DEF Off
      <3> QED BY <1>6, <3>1 DEF Off
    <2>2. ASSUME Off(off, j, x), x # o PROVE Off(h, j, x)
      <3>1. PICK k \in DOMAIN off[j] : off[j][k] = x
        BY <2>2 DEF Off
      <3> QED BY <1>8, <2>2, <3>1 DEF Off
    <2> QED BY <2>1, <2>2
  <1> QED BY <1>0, <1>2, <1>4, <1>5, <1>9, <1>10 DEF OffLess

\* and one that is released is appended.
LEMMA AppendedOff ==
    ASSUME NEW p \in Pools, NEW off \in [Ids -> Seq(Offsets(p))], OffOnce(off),
           NEW i \in Ids, NEW o \in Offsets(p), \A j \in Ids : ~Off(off, j, o),
           NEW h, h = [off EXCEPT ![i] = Append(off[i], o)]
    PROVE  /\ h \in [Ids -> Seq(Offsets(p))] /\ OffOnce(h)
           /\ OffMore(off, h, i, o)
  <1>1. PICK e, f : e = off[i] /\ f = Append(off[i], o)
    OBVIOUS
  <1>2. /\ e \in Seq(Offsets(p)) /\ f \in Seq(Offsets(p)) /\ Len(e) \in Nat
        /\ DOMAIN e = 1..Len(e) /\ DOMAIN f = 1..(Len(e) + 1)
        /\ (\A k \in 1..Len(e) : f[k] = e[k]) /\ f[Len(e) + 1] = o
    BY <1>1, AppendFacts
  <1>3. h \in [Ids -> Seq(Offsets(p))] /\ h[i] = f /\ \A j \in Ids \ {i} : h[j] = off[j]
    BY <1>1, <1>2
  <1> DEFINE IsLast(j, k) == j = i /\ k = Len(e) + 1
  <1>4. ASSUME NEW j \in Ids, NEW k \in DOMAIN h[j]
        PROVE  \/ IsLast(j, k) /\ h[j][k] = o
               \/ k \in DOMAIN off[j] /\ h[j][k] = off[j][k] /\ h[j][k] # o
    <2>1. IsLast(j, k) \/ (k \in DOMAIN off[j] /\ h[j][k] = off[j][k])
      BY <1>1, <1>2, <1>3
    <2>2. IsLast(j, k) => h[j][k] = o
      BY <1>2, <1>3
    <2>3. \A m \in DOMAIN off[j] : off[j][m] # o
      BY DEF Off
    <2> QED BY <2>1, <2>2, <2>3
  <1>5. \A j, b \in Ids : \A k, l : IsLast(j, k) /\ IsLast(b, l) => j = b /\ k = l
    OBVIOUS
  <1>6. \A j \in Ids : \A k \in DOMAIN off[j] : k \in DOMAIN h[j] /\ h[j][k] = off[j][k]
    BY <1>1, <1>2, <1>3
  <1>7. Len(e) + 1 \in DOMAIN h[i] /\ h[i][Len(e) + 1] = o
    BY <1>2, <1>3
  <1> HIDE DEF IsLast
  <1>8. OffOnce(h)
    <2> SUFFICES ASSUME NEW a \in Ids, NEW b \in Ids, NEW k \in DOMAIN h[a],
                        NEW l \in DOMAIN h[b], h[a][k] = h[b][l]
                 PROVE  a = b /\ k = l
      BY DEF OffOnce
    <2>1. CASE h[a][k] = o
      BY <1>4, <1>5, <2>1
    <2>2. CASE h[a][k] # o
      BY <1>4, <2>2 DEF OffOnce
    <2> QED BY <2>1, <2>2
  <1>9. ASSUME NEW j \in Ids, NEW x
        PROVE  Off(h, j, x) <=> Off(off, j, x) \/ (j = i /\ x = o)
    <2>1. Off(off, j, x) => Off(h, j, x)
      BY <1>6 DEF Off
    <2>2. Off(h, i, o)
      BY <1>7 DEF Off
    <2>3. ASSUME Off(h, j, x) PROVE Off(off, j, x) \/ (j = i /\ x = o)
      BY <1>4, <2>3 DEF Off, IsLast
    <2> QED BY <2>1, <2>2, <2>3
  <1> QED BY <1>3, <1>8, <1>9 DEF OffMore

\* A pool stays sound if the same leases are online,
LEMMA SoundSame ==
    ASSUME NEW p \in Pools, NEW on, NEW off, NEW n, PoolSound(p, on, off, n),
           NEW g \in [Ids -> Arrays(p)],
           \A i \in Ids : \A x \in Offsets(p) : On(g, i, x) <=> On(on, i, x)
    PROVE  PoolSound(p, g, off, n)
  BY DEF PoolSound, PoolType, OnOnce, OnNotOff, HandedOut

\* if an offline lease comes online,
ComesOnline(p, on, off, i, j, o, g, h) ==
    /\ i \in Ids /\ j \in Ids /\ o \in Offsets(p) /\ Off(off, j, o)
    /\ g \in [Ids -> Arrays(p)] /\ h \in [Ids -> Seq(Offsets(p))] /\ OffOnce(h)
    /\ OnMore(on, g, i, o)
    /\ OffLess(off, h, o)
LEMMA SoundOnline ==
    ASSUME NEW p \in Pools, NEW on, NEW off, NEW n, PoolSound(p, on, off, n),
           NEW i, NEW j, NEW o, NEW g, NEW h, ComesOnline(p, on, off, i, j, o, g, h)
    PROVE  PoolSound(p, g, h, n)
  <1>0. /\ i \in Ids /\ j \in Ids /\ o \in Offsets(p) /\ Off(off, j, o)
        /\ g \in [Ids -> Arrays(p)] /\ h \in [Ids -> Seq(Offsets(p))] /\ OffOnce(h)
        /\ OnMore(on, g, i, o)
        /\ OffLess(off, h, o)
    BY DEF ComesOnline
  <1>1. \A b \in Ids : ~On(on, b, o)
    BY <1>0 DEF PoolSound, OnNotOff
  <1>2. OnOnce(p, g)
    <2>1. OnOnce(p, on)
      BY DEF PoolSound
    <2> SUFFICES ASSUME NEW a \in Ids, NEW b \in Ids, NEW x \in Offsets(p), On(g, a, x), On(g, b, x)
                 PROVE  a = b
      BY DEF OnOnce
    <2>2. /\ On(on, a, x) \/ (a = i /\ x = o)
          /\ On(on, b, x) \/ (b = i /\ x = o)
      BY <1>0 DEF OnMore
    <2>3. CASE x = o
      BY <1>1, <2>2, <2>3
    <2>4. CASE x # o
      BY <2>1, <2>2, <2>4 DEF OnOnce
    <2> QED BY <2>3, <2>4
  <1>3. OnNotOff(p, g, h)
    BY <1>0 DEF PoolSound, OnNotOff, OnMore, OffLess
  <1>4. HandedOut(p, g, h, n)
    BY <1>0 DEF PoolSound, HandedOut, OnMore, OffLess
  <1> QED BY <1>0, <1>2, <1>3, <1>4 DEF PoolSound, PoolType

\* if a new one is handed out,
LEMMA SoundNew ==
    ASSUME NEW p \in Pools, NEW on, NEW off, NEW n, PoolSound(p, on, off, n), n < PoolSizes[p],
           NEW i \in Ids, NEW g \in [Ids -> Arrays(p)],
           OnMore(on, g, i, n + 1)
    PROVE  PoolSound(p, g, off, n + 1) /\ n + 1 \in Offsets(p)
  <1>1. n \in Nat /\ n + 1 \in Offsets(p) /\ n + 1 \in 0..PoolSizes[p] /\ ~(n + 1 <= n)
    <2>1. PICK size : size = PoolSizes[p]
      OBVIOUS
    <2>2. size \in Nat /\ n \in 0..size /\ n < size
      BY <2>1, PoolFacts DEF PoolSound, PoolType
    <2>3. n \in Nat /\ n + 1 \in Nat \ {0} /\ n + 1 <= size /\ n + 1 \in 0..size /\ ~(n + 1 <= n)
      BY <2>2
    <2>4. n + 1 \in Offsets(p)
      BY <2>1, <2>3, PoolFacts
    <2> QED BY <2>1, <2>3, <2>4
  <1>2. \A b \in Ids : ~On(on, b, n + 1) /\ ~Off(off, b, n + 1)
    BY <1>1 DEF PoolSound, HandedOut
  <1>3. PICK m : m = n + 1
    OBVIOUS
  <1>4. OnOnce(p, g)
    BY <1>2 DEF PoolSound, OnOnce, OnMore
  <1>5. OnNotOff(p, g, off)
    BY <1>2 DEF PoolSound, OnNotOff, OnMore
  <1>6. \A o \in Offsets(p) : o <= m <=> o <= n \/ o = m
    BY <1>1, <1>3, PoolFacts
  <1>7. HandedOut(p, g, off, m)
    BY <1>1, <1>3, <1>6 DEF PoolSound, HandedOut, OnMore
  <1> QED BY <1>1, <1>3, <1>4, <1>5, <1>7 DEF PoolSound, PoolType

\* and if one goes offline.
LEMMA SoundOffline ==
    ASSUME NEW p \in Pools, NEW on, NEW off, NEW n, PoolSound(p, on, off, n),
           NEW i \in Ids, NEW o \in Offsets(p), On(on, i, o),
           NEW g \in [Ids -> Arrays(p)], NEW h \in [Ids -> Seq(Offsets(p))], OffOnce(h),
           OnLess(on, g, i, o),
           OffMore(off, h, i, o)
    PROVE  PoolSound(p, g, h, n)
  <1>1. OnOnce(p, g)
    BY DEF PoolSound, OnOnce, OnLess
  <1>2. OnNotOff(p, g, h)
    BY DEF PoolSound, OnNotOff, OnOnce, OnLess, OffMore
  <1>3. HandedOut(p, g, h, n)
    BY DEF PoolSound, HandedOut, OnLess, OffMore
  <1> QED BY <1>1, <1>2, <1>3 DEF PoolSound, PoolType

-----------------------------------------------------------------------------
(* What a pool answers.                                                    *)

\* The fields of a result.
LEMMA ResultFields ==
    ASSUME NEW o, NEW on, NEW off, NEW n, NEW r, r = Result(o, on, off, n)
    PROVE  r.offset = o /\ r.online = on /\ r.offline = off /\ r.unused = n
  BY DEF Result

\* An IKE_SA is given a lease: its own, which nobody has online, or a copy of what is
\* where an online lease of its peer was.
Given(s, p, r) ==
    LET a == online[p][Id[s]]
    IN /\ r.offset \in Offsets(p)
       /\ \A j \in Ids \ {Id[s]} : r.online[j].elems = online[p][j].elems
       /\ \/ /\ r.online[Id[s]].elems = Append(a.elems, OwnLease(s, r.offset))
             /\ \A j \in Ids : ~On(online[p], j, r.offset)
          \/ \E k \in DOMAIN a.elems : \E l \in Aliased(a, k) :
                /\ a.elems[k].hash = Peer[s] /\ r.offset = a.elems[k].offset
                /\ r.online[Id[s]].elems = Append(a.elems, l)
OutcomeSound(s, p, r) ==
    /\ PoolSound(p, r.online, r.offline, r.unused) /\ unused[p] <= r.unused
    /\ r = Nothing(p) \/ Given(s, p, r)

\* Nothing is given.
LEMMA NothingSound ==
    ASSUME NEW s \in Sessions, NEW p \in Pools, Sound(p)
    PROVE  OutcomeSound(s, p, Nothing(p)) /\ Nothing(p).offset = 0
  <1>1. PICK r : r = Nothing(p)
    OBVIOUS
  <1>2. r.offset = 0 /\ r.online = online[p] /\ r.offline = offline[p] /\ r.unused = unused[p]
    BY <1>1, ResultFields DEF Nothing
  <1>3. unused[p] \in Nat
    BY PoolFacts DEF Sound, PoolSound, PoolType
  <1> QED BY <1>1, <1>2, <1>3 DEF OutcomeSound, Sound

\* What is copied is a lease of the identity, if it is not from where the array was.
LEMMA AliasedFacts ==
    ASSUME NEW p \in Pools, NEW a \in Arrays(p), ~Moves(a), NEW k \in DOMAIN a.elems,
           NEW l \in Aliased(a, k)
    PROVE  l \in Leases(p) /\ \E m \in DOMAIN a.elems : a.elems[m].offset = l.offset
  <1>1. DOMAIN a.elems = 1..Len(a.elems) /\ Len(a.elems) \in Nat
        /\ \A m \in DOMAIN a.elems : a.elems[m] \in Leases(p)
    BY ArrayFields
  <1>2. k < Len(a.elems) => k + 1 \in DOMAIN a.elems
    BY <1>1
  <1>3. \E m \in DOMAIN a.elems : l = a.elems[m]
    <2>1. CASE UsesHead(a)
      <3>1. l = IF k < Len(a.elems) THEN a.elems[k + 1] ELSE a.elems[k]
        BY <2>1 DEF Aliased
      <3> QED BY <1>2, <3>1
    <2>2. CASE ~UsesHead(a)
      <3>1. l = a.elems[k]
        BY <2>2 DEF Aliased
      <3> QED BY <3>1
    <2> QED BY <2>1, <2>2
  <1> QED BY <1>1, <1>3

\* The online lease that is reassigned is one of the same peer.
LEMMA SameFacts ==
    ASSUME NEW s \in Sessions, NEW p \in Pools, Sound(p), NEW k, k = Same(s, p), k # 0
    PROVE  /\ k \in DOMAIN online[p][Id[s]].elems
           /\ online[p][Id[s]].elems[k].hash = Peer[s]
           /\ online[p][Id[s]].elems[k].offset \in Offsets(p)
  <1> DEFINE T(l) == l.hash = Peer[s]
                     /\ (sa[s].requested = None \/ sa[s].requested = <<p, l.offset>>)
  <1>1. PICK e : e = online[p][Id[s]].elems
    OBVIOUS
  <1>2. online[p][Id[s]] \in Arrays(p)
    BY SessionFacts DEF Sound, PoolSound, PoolType
  <1>3. /\ DOMAIN e = 1..Len(e) /\ Len(e) \in Nat
        /\ \A m \in DOMAIN e : e[m].offset \in Offsets(p)
    BY <1>1, <1>2, ArrayFields
  <1>4. PICK I : I = {m \in 1..Len(e) : T(e[m])}
    OBVIOUS
  <1>5. k = IF I # {} THEN Min(I) ELSE 0
    BY <1>1, <1>4 DEF Same, SelectInSeq
  <1>6. I \subseteq Nat
    BY <1>3, <1>4
  <1>7. k \in I
    BY <1>5, <1>6, LeastOf
  <1> QED BY <1>1, <1>3, <1>4, <1>7, SessionFacts

\* get_existing(): an online lease of the peer is reassigned,
LEMMA ReassignOnlineSound ==
    ASSUME NEW s \in Sessions, NEW p \in Pools, Sound(p), Same(s, p) # 0,
           ~Moves(online[p][Id[s]]), NEW r \in ReassignOnline(s, p)
    PROVE  OutcomeSound(s, p, r) /\ r.offset # 0
  <1>1. PICK a, k : a = online[p][Id[s]] /\ k = Same(s, p)
    OBVIOUS
  <1>2. /\ k \in DOMAIN a.elems /\ a.elems[k].hash = Peer[s] /\ a.elems[k].offset \in Offsets(p)
    BY <1>1, SameFacts
  <1>3. PICK l \in Aliased(a, k) :
            r = Result(a.elems[k].offset, [online[p] EXCEPT ![Id[s]] = InsertLast(a, l)],
                       offline[p], unused[p])
    BY <1>1 DEF ReassignOnline
  <1>4. /\ r.offset = a.elems[k].offset /\ r.offline = offline[p] /\ r.unused = unused[p]
        /\ r.online = [online[p] EXCEPT ![Id[s]] = InsertLast(online[p][Id[s]], l)]
    <2>1. PICK g : g = [online[p] EXCEPT ![Id[s]] = InsertLast(a, l)]
      OBVIOUS
    <2>2. r = Result(a.elems[k].offset, g, offline[p], unused[p])
      BY <1>3, <2>1, Zenon
    <2>3. /\ r.offset = a.elems[k].offset /\ r.offline = offline[p] /\ r.unused = unused[p]
          /\ r.online = g
      BY <2>2, ResultFields
    <2> QED BY <1>1, <2>1, <2>3, Zenon
  <1>5. online[p] \in [Ids -> Arrays(p)] /\ a \in Arrays(p) /\ Id[s] \in Ids
    BY <1>1, SessionFacts DEF Sound, PoolSound, PoolType
  <1>6. l \in Leases(p) /\ \E m \in DOMAIN a.elems : a.elems[m].offset = l.offset
    BY <1>1, <1>2, <1>5, AliasedFacts
  <1>7. /\ r.online \in [Ids -> Arrays(p)]
        /\ r.online[Id[s]].elems = Append(online[p][Id[s]].elems, l)
        /\ \A j \in Ids \ {Id[s]} : r.online[j] = online[p][j]
        /\ OnMore(online[p], r.online, Id[s], l.offset)
    <2>1. PICK g, on, i : g = r.online /\ on = online[p] /\ i = Id[s]
      OBVIOUS
    <2>2. Inserts(p, on, i, l, g)
      BY <1>4, <1>5, <1>6, <2>1 DEF Inserts
    <2>3. /\ g \in [Ids -> Arrays(p)] /\ g[i].elems = Append(on[i].elems, l)
          /\ \A j \in Ids \ {i} : g[j] = on[j]
          /\ OnMore(on, g, i, l.offset)
      BY <2>2, InsertedOn
    <2> QED BY <2>1, <2>3
  <1>8. \A x \in Offsets(p) : x = l.offset => On(online[p], Id[s], x)
    BY <1>1, <1>6 DEF On
  <1>9. PoolSound(p, r.online, r.offline, r.unused)
    <2>1. PICK g : g = r.online
      OBVIOUS
    <2>2. \A i \in Ids : \A x \in Offsets(p) : On(g, i, x) <=> On(online[p], i, x)
      BY <1>7, <1>8, <2>1 DEF OnMore
    <2>3. g \in [Ids -> Arrays(p)] /\ PoolSound(p, online[p], offline[p], unused[p])
      BY <1>7, <2>1 DEF Sound
    <2>4. PoolSound(p, g, offline[p], unused[p])
      BY <2>2, <2>3, SoundSame
    <2> QED BY <1>4, <2>1, <2>4
  <1>10. Given(s, p, r)
    BY <1>1, <1>2, <1>4, <1>7 DEF Given
  <1>11. unused[p] <= r.unused /\ r.offset # 0
    BY <1>2, <1>4, PoolFacts DEF Sound, PoolSound, PoolType
  <1> QED BY <1>9, <1>10, <1>11 DEF OutcomeSound

\* An offline lease of an identity, the same or another, comes online.
TakesOffline(s, p, i, on, r) ==
    /\ offline[p][i] # <<>>
    /\ r = Result(offline[p][i][1], GiveTo(s, on, offline[p][i][1]),
                  [offline[p] EXCEPT ![i] = Tail(@)], unused[p])
LEMMA OfflineSound ==
    ASSUME NEW s \in Sessions, NEW p \in Pools, Sound(p), NEW i \in Ids,
           NEW on \in [Ids -> Arrays(p)],
           \A j \in Ids : on[j].elems = online[p][j].elems,
           NEW r, TakesOffline(s, p, i, on, r)
    PROVE  OutcomeSound(s, p, r) /\ r.offset # 0
  <1>1. PICK o : o = offline[p][i][1]
    OBVIOUS
  <1>2. PICK h : h = [offline[p] EXCEPT ![i] = Tail(offline[p][i])]
    OBVIOUS
  <1>3. r.offset = o /\ r.online = GiveTo(s, on, o) /\ r.offline = h /\ r.unused = unused[p]
    <2>1. PICK g : g = GiveTo(s, on, o)
      OBVIOUS
    <2>2. r = Result(o, g, h, unused[p])
      BY <1>1, <1>2, <2>1 DEF TakesOffline
    <2> QED BY <2>1, <2>2, ResultFields
  <1>4. /\ offline[p] \in [Ids -> Seq(Offsets(p))] /\ OffOnce(offline[p]) /\ Id[s] \in Ids
    BY SessionFacts DEF Sound, PoolSound, PoolType
  <1>5. /\ h \in [Ids -> Seq(Offsets(p))] /\ OffOnce(h)
        /\ o \in Offsets(p) /\ Off(offline[p], i, o)
        /\ OffLess(offline[p], h, o)
    <2>1. PICK off : off = offline[p]
      OBVIOUS
    <2>2. TakesFirst(p, off, i, h, o)
      BY <1>1, <1>2, <1>4, <2>1 DEF TakesOffline, TakesFirst
    <2>3. /\ h \in [Ids -> Seq(Offsets(p))] /\ OffOnce(h)
          /\ o \in Offsets(p) /\ Off(off, i, o)
          /\ OffLess(off, h, o)
      BY <2>2, TakenOff
    <2> QED BY <2>1, <2>3
  <1>6. PICK l : l = OwnLease(s, o)
    OBVIOUS
  <1>7. l \in Leases(p) /\ l.offset = o
    BY <1>5, <1>6, OwnLeaseType
  <1>8. r.online = [on EXCEPT ![Id[s]] = InsertLast(on[Id[s]], l)]
    BY <1>3, <1>6 DEF GiveTo
  <1>9. /\ r.online \in [Ids -> Arrays(p)]
        /\ r.online[Id[s]].elems = Append(on[Id[s]].elems, l)
        /\ \A j \in Ids \ {Id[s]} : r.online[j] = on[j]
        /\ OnMore(on, r.online, Id[s], o)
    <2>1. Inserts(p, on, Id[s], l, r.online)
      BY <1>4, <1>7, <1>8 DEF Inserts
    <2> QED BY <1>7, <2>1, InsertedOn
  <1>10. \A j \in Ids : \A x : On(on, j, x) <=> On(online[p], j, x)
    BY DEF On
  <1>11. PoolSound(p, r.online, h, unused[p])
    <2>1. ComesOnline(p, online[p], offline[p], Id[s], i, o, r.online, h)
      BY <1>4, <1>5, <1>9, <1>10 DEF ComesOnline, OnMore
    <2> QED BY <2>1, SoundOnline DEF Sound
  <1>12. \A j \in Ids : ~On(online[p], j, o)
    BY <1>5 DEF Sound, PoolSound, OnNotOff
  <1>13. Given(s, p, r)
    BY <1>3, <1>4, <1>5, <1>6, <1>9, <1>12 DEF Given
  <1>14. unused[p] <= r.unused /\ r.offset # 0
    BY <1>3, <1>5, PoolFacts DEF Sound, PoolSound, PoolType
  <1> QED BY <1>3, <1>11, <1>13, <1>14 DEF OutcomeSound

\* or an offline lease of the identity comes online.
LEMMA GetExistingSound ==
    ASSUME NEW s \in Sessions, NEW p \in Pools, Sound(p), NEW r \in GetExisting(s, p),
           Same(s, p) # 0 => ~Moves(online[p][Id[s]])
    PROVE  OutcomeSound(s, p, r)
  <1>1. CASE Same(s, p) # 0
    BY <1>1, ReassignOnlineSound DEF GetExisting
  <1>2. CASE Same(s, p) = 0 /\ offline[p][Id[s]] = <<>>
    BY <1>2, NothingSound DEF GetExisting
  <1>3. CASE Same(s, p) = 0 /\ offline[p][Id[s]] # <<>>
    <2>1. PICK i : i = Id[s]
      OBVIOUS
    <2>2. r = Result(offline[p][i][1], GiveTo(s, online[p], offline[p][i][1]),
                     [offline[p] EXCEPT ![i] = Tail(@)], unused[p])
      BY <1>3, <2>1 DEF GetExisting
    <2>3. i \in Ids /\ online[p] \in [Ids -> Arrays(p)] /\ offline[p][i] # <<>>
      BY <1>3, <2>1, SessionFacts DEF Sound, PoolSound, PoolType
    <2> QED BY <2>2, <2>3, OfflineSound DEF TakesOffline
  <1> QED BY <1>1, <1>2, <1>3

\* get_new(): the next address of the pool, if there is one.
LEMMA GetNewSound ==
    ASSUME NEW s \in Sessions, NEW p \in Pools, Sound(p), NEW r \in GetNew(s, p)
    PROVE  OutcomeSound(s, p, r) /\ (r.offset = 0 => unused[p] = PoolSizes[p])
  <1>1. PICK n : n = unused[p]
    OBVIOUS
  <1>2. n \in Nat /\ n <= PoolSizes[p] /\ PoolSizes[p] \in Nat
    BY <1>1, PoolFacts DEF Sound, PoolSound, PoolType
  <1>3. CASE n < PoolSizes[p]
    <2>1. PICK o : o = n + 1
      OBVIOUS
    <2>2. r = Result(o, GiveTo(s, online[p], o), offline[p], o)
      BY <1>1, <1>3, <2>1 DEF GetNew
    <2>3. /\ r.offset = o /\ r.online = GiveTo(s, online[p], o) /\ r.offline = offline[p]
          /\ r.unused = o
      BY <2>2, ResultFields
    <2>4. o \in Offsets(p) /\ o # 0 /\ n <= o
      BY <1>2, <1>3, <2>1, PoolFacts
    <2>5. PICK l : l = OwnLease(s, o)
      OBVIOUS
    <2>6. l \in Leases(p) /\ l.offset = o
      BY <2>4, <2>5, OwnLeaseType
    <2>7. r.online = [online[p] EXCEPT ![Id[s]] = InsertLast(online[p][Id[s]], l)]
      BY <2>3, <2>5 DEF GiveTo
    <2>8. online[p] \in [Ids -> Arrays(p)] /\ Id[s] \in Ids
      BY SessionFacts DEF Sound, PoolSound, PoolType
    <2>9. /\ r.online \in [Ids -> Arrays(p)]
          /\ r.online[Id[s]].elems = Append(online[p][Id[s]].elems, l)
          /\ \A j \in Ids \ {Id[s]} : r.online[j] = online[p][j]
          /\ OnMore(online[p], r.online, Id[s], o)
      <3>1. PICK g, on, i : g = r.online /\ on = online[p] /\ i = Id[s]
        OBVIOUS
      <3>2. Inserts(p, on, i, l, g)
        BY <2>6, <2>7, <2>8, <3>1 DEF Inserts
      <3>3. /\ g \in [Ids -> Arrays(p)] /\ g[i].elems = Append(on[i].elems, l)
            /\ \A j \in Ids \ {i} : g[j] = on[j]
            /\ OnMore(on, g, i, l.offset)
        BY <3>2, InsertedOn
      <3> QED BY <2>6, <3>1, <3>3
    <2>10. PoolSound(p, r.online, offline[p], o)
      BY <1>1, <1>3, <2>1, <2>8, <2>9, SoundNew DEF Sound
    <2>11. \A j \in Ids : ~On(online[p], j, o)
      BY <1>1, <1>2, <2>1, <2>4 DEF Sound, PoolSound, HandedOut
    <2>12. Given(s, p, r)
      BY <2>3, <2>4, <2>5, <2>9, <2>11 DEF Given
    <2> QED BY <1>1, <2>3, <2>4, <2>10, <2>12 DEF OutcomeSound
  <1>4. CASE ~(n < PoolSizes[p])
    <2>1. r = Nothing(p)
      BY <1>1, <1>4 DEF GetNew
    <2> QED BY <1>1, <1>2, <1>4, <2>1, NothingSound
  <1> QED BY <1>3, <1>4

\* get_reassigned(): an offline lease of any identity.
LEMMA GetReassignedSound ==
    ASSUME NEW s \in Sessions, NEW p \in Pools, Sound(p), NEW r \in GetReassigned(s, p)
    PROVE  OutcomeSound(s, p, r) /\ (r.offset = 0 => \A i \in Ids : offline[p][i] = <<>>)
  <1>1. CASE \A i \in Ids : offline[p][i] = <<>>
    <2>1. r = Nothing(p)
      BY <1>1 DEF GetReassigned
    <2> QED BY <1>1, <2>1, NothingSound
  <1>2. CASE \E i \in Ids : offline[p][i] # <<>>
    <2>1. PICK i \in Ids :
              /\ offline[p][i] # <<>>
              /\ r = Result(offline[p][i][1], GiveTo(s, Vacated(p, i), offline[p][i][1]),
                            [offline[p] EXCEPT ![i] = Tail(@)], unused[p])
      BY <1>2 DEF GetReassigned
    <2>2. PICK on : on = Vacated(p, i)
      OBVIOUS
    <2>3. on \in [Ids -> Arrays(p)] /\ \A j \in Ids : on[j].elems = online[p][j].elems
      <3>1. online[p] \in [Ids -> Arrays(p)] /\ EmptyArray \in Arrays(p)
            /\ EmptyArray.elems = <<>>
        BY EmptyArrayType DEF Sound, PoolSound, PoolType
      <3> QED BY <2>2, <3>1 DEF Vacated
    <2> QED BY <2>1, <2>2, <2>3, OfflineSound DEF TakesOffline
  <1> QED BY <1>1, <1>2

\* Whatever a pool is asked for, and whether it is loaded or not.
LEMMA OutcomesSound ==
    ASSUME NEW s \in Sessions, NEW p \in Pools, Sound(p), sa[s].op \in {1, 2, 3},
           NEW r \in Outcomes(s, p),
           sa[s].op = 1 /\ Same(s, p) # 0 => ~Moves(online[p][Id[s]])
    PROVE  /\ OutcomeSound(s, p, r)
           /\ p \in loaded /\ sa[s].op = 2 /\ r.offset = 0 => unused[p] = PoolSizes[p]
           /\ p \in loaded /\ sa[s].op = 3 /\ r.offset = 0 => \A i \in Ids : offline[p][i] = <<>>
           /\ p \notin loaded => r = Nothing(p)
  <1>1. CASE p \notin loaded
    BY <1>1, NothingSound DEF Outcomes
  <1>2. CASE p \in loaded
    <2>1. r \in acquire_address(s, p)
      BY <1>2 DEF Outcomes
    <2>2. Ops[1] = "existing" /\ Ops[2] = "new" /\ Ops[3] = "reassign"
      BY DEF Ops
    <2>3. CASE sa[s].op = 1
      BY <1>2, <2>1, <2>2, <2>3, GetExistingSound DEF acquire_address
    <2>4. CASE sa[s].op = 2
      BY <1>2, <2>1, <2>2, <2>4, GetNewSound DEF acquire_address
    <2>5. CASE sa[s].op = 3
      BY <1>2, <2>1, <2>2, <2>5, GetReassignedSound DEF acquire_address
    <2> QED BY <2>3, <2>4, <2>5
  <1> QED BY <1>1, <1>2

\* A lease is released by an IKE_SA that has it.
Taken(s, p, r) ==
    LET a == online[p][Id[s]]
    IN /\ sa[s].addr[1] = p /\ r.offset = sa[s].addr[2]
       /\ \A j \in Ids \ {Id[s]} : r.online[j].elems = online[p][j].elems
       /\ \E k \in DOMAIN a.elems :
             /\ a.elems[k].offset = sa[s].addr[2]
             /\ r.online[Id[s]].elems = RemoveAt(a.elems, k)
ReleaseOutcome(s, p, r) ==
    /\ PoolSound(p, r.online, r.offline, r.unused) /\ r.unused = unused[p]
    /\ \/ /\ r = Nothing(p)
          /\ sa[s].addr[1] = p => ~On(online[p], Id[s], sa[s].addr[2])
       \/ Taken(s, p, r)

\* release_address(): the lease goes offline if it was the last of its address.
LEMMA ReleaseSound ==
    ASSUME NEW s \in Sessions, NEW p \in Pools, Sound(p), AddrSound(s),
           NEW r, r = release_address(s, p)
    PROVE  ReleaseOutcome(s, p, r)
  <1>1. PICK o, on, off, i : o = sa[s].addr[2] /\ on = online[p] /\ off = offline[p] /\ i = Id[s]
    OBVIOUS
  <1>2. PICK k : k = FirstOf(on[i].elems, o)
    OBVIOUS
  <1>3. /\ on \in [Ids -> Arrays(p)] /\ off \in [Ids -> Seq(Offsets(p))] /\ OffOnce(off)
        /\ i \in Ids /\ OnNotOff(p, on, off) /\ PoolSound(p, on, off, unused[p])
    BY <1>1, SessionFacts DEF Sound, PoolSound, PoolType
  <1>4. on[i].elems \in Seq(Leases(p))
    BY <1>3, ArrayFields
  <1>5. (k = 0 /\ At(on[i].elems, o) = {}) \/ (k # 0 /\ k \in At(on[i].elems, o))
    BY <1>2, <1>4, FirstAt
  <1>6. PICK g : g = [on EXCEPT ![i] = RemoveIndex(on[i], k)]
    OBVIOUS
  <1>7. PICK more \in BOOLEAN : more = \E l \in ToSet(RemoveIndex(on[i], k).elems) : l.offset = o
    BY Zenon
  <1>8. PICK h : h = IF more THEN off ELSE [off EXCEPT ![i] = Append(off[i], o)]
    OBVIOUS
  <1>9. r = IF sa[s].addr[1] # p \/ k = 0 THEN Nothing(p) ELSE Result(o, g, h, unused[p])
    <2>1. release_address(s, p) =
             LET x == sa[s].addr[2]
                 a == online[p][Id[s]]
                 n == FirstOf(a.elems, x)
                 rest == RemoveIndex(a, n)
             IN IF sa[s].addr[1] # p \/ n = 0 THEN Nothing(p)
                ELSE Result(x, [online[p] EXCEPT ![Id[s]] = rest],
                            IF \E l \in ToSet(rest.elems) : l.offset = x THEN offline[p]
                            ELSE [offline[p] EXCEPT ![Id[s]] = Append(offline[p][Id[s]], x)],
                            unused[p])
      BY ZenonT(30) DEF release_address, FirstOf
    <2> QED BY <1>1, <1>2, <1>6, <1>7, <1>8, <2>1
  <1>10. CASE sa[s].addr[1] # p \/ k = 0
    <2>1. r = Nothing(p)
      BY <1>9, <1>10
    <2>2. OutcomeSound(s, p, r) /\ r.unused = unused[p]
      BY <2>1, NothingSound, ResultFields DEF Nothing
    <2>3. sa[s].addr[1] = p => ~On(online[p], Id[s], sa[s].addr[2])
      BY <1>1, <1>5, <1>10 DEF On, At
    <2> QED BY <2>1, <2>2, <2>3 DEF OutcomeSound, ReleaseOutcome
  <1>11. CASE sa[s].addr[1] = p /\ k # 0
    <2>1. r.offset = o /\ r.online = g /\ r.offline = h /\ r.unused = unused[p]
      BY <1>9, <1>11, ResultFields
    <2>2. k \in DOMAIN on[i].elems /\ on[i].elems[k].offset = o
      BY <1>5, <1>11 DEF At
    <2>3. o \in Offsets(p)
      <3>1. sa[s].addr # None
        BY <1>11, PoolFacts DEF None
      <3> QED BY <1>1, <1>11, <3>1 DEF AddrSound
    <2>4. /\ g \in [Ids -> Arrays(p)]
          /\ g[i].elems = RemoveAt(on[i].elems, k)
          /\ \A j \in Ids \ {i} : g[j] = on[j]
          /\ OnWithout(on, g, i, o) /\ On(on, i, o)
      <3>1. Removes(p, on, i, k, o, g)
        BY <1>3, <1>6, <2>2 DEF Removes
      <3> QED BY <3>1, RemovedOn
    <2>5. more <=> On(g, i, o)
      <3>1. RemoveIndex(on[i], k).elems = g[i].elems
        BY <1>3, <1>6
      <3> QED BY <1>7, <3>1 DEF On, ToSet
    <2>6. PoolSound(p, g, h, unused[p])
      <3>1. CASE more
        <4>1. \A j \in Ids : \A x \in Offsets(p) : On(g, j, x) <=> On(on, j, x)
          BY <2>2, <2>4, <2>5, <3>1 DEF OnWithout
        <4> QED BY <1>3, <1>8, <2>4, <3>1, <4>1, SoundSame
      <3>2. CASE ~more
        <4>1. OnLess(on, g, i, o)
          BY <2>2, <2>4, <2>5, <3>2 DEF OnLess, OnWithout
        <4>2. On(on, i, o) /\ \A j \in Ids : ~Off(off, j, o)
          BY <1>3, <2>2, <2>3, <2>4 DEF OnNotOff
        <4>3. h = [off EXCEPT ![i] = Append(off[i], o)]
          BY <1>8, <3>2
        <4>4. h \in [Ids -> Seq(Offsets(p))] /\ OffOnce(h) /\ OffMore(off, h, i, o)
          BY <1>3, <2>3, <4>2, <4>3, AppendedOff
        <4> QED BY <1>3, <2>3, <2>4, <4>1, <4>2, <4>4, SoundOffline
      <3> QED BY <3>1, <3>2
    <2>7. Taken(s, p, r)
      BY <1>1, <1>11, <2>1, <2>2, <2>4 DEF Taken
    <2> QED BY <2>1, <2>6, <2>7 DEF ReleaseOutcome
  <1> QED BY <1>10, <1>11

-----------------------------------------------------------------------------
(* Steps keep the pools sound.                                             *)

\* The fields of an IKE_SA.
LEMMA SaFields ==
    ASSUME sa \in [Sessions -> SaRec], NEW s \in Sessions
    PROVE  /\ sa[s] \in SaRec /\ sa[s].state \in States /\ sa[s].op \in {1, 2, 3}
           /\ sa[s].pool \in Pools /\ sa[s].requested \in Requests \cup {None}
           /\ sa[s].addr \in Pools \X Nat \cup {None}
  BY DEF SaRec, Ops

\* An IKE_SA that starts to ask the pools,
LEMMA CallFields ==
    ASSUME sa \in [Sessions -> SaRec], NEW s \in Sessions, NEW st \in States,
           NEW f, f = Call(s, st)
    PROVE  /\ f \in [Sessions -> SaRec] /\ \A t \in Sessions \ {s} : f[t] = sa[t]
           /\ f[s].state = st /\ f[s].op = 1 /\ f[s].pool = 1
           /\ f[s].requested = sa[s].requested /\ f[s].addr = sa[s].addr
  <1>1. sa[s] \in SaRec /\ 1 \in Pools /\ 1 \in 1..Len(Ops)
    BY PoolFacts, SaFields DEF Ops
  <1>2. PICK x : x = [sa[s] EXCEPT !.state = st, !.op = 1, !.pool = 1]
    OBVIOUS
  <1>3. /\ x \in SaRec /\ x.state = st /\ x.op = 1 /\ x.pool = 1
        /\ x.requested = sa[s].requested /\ x.addr = sa[s].addr
    BY <1>1, <1>2 DEF SaRec
  <1>4. f[s] = x /\ DOMAIN f = Sessions /\ \A t \in Sessions \ {s} : f[t] = sa[t]
    BY <1>2 DEF Call
  <1>5. f = [t \in Sessions |-> f[t]]
    BY DEF Call
  <1> QED BY <1>3, <1>4, <1>5

\* one that has its answer,
LEMMA EndedFields ==
    ASSUME sa \in [Sessions -> SaRec], NEW s \in Sessions, NEW st \in States,
           NEW ad \in Pools \X Nat \cup {None}, NEW f, f = Ended(s, st, ad)
    PROVE  /\ f \in [Sessions -> SaRec] /\ \A t \in Sessions \ {s} : f[t] = sa[t]
           /\ f[s].state = st /\ f[s].op = 1 /\ f[s].pool = 1 /\ f[s].addr = ad
  <1>1. 1 \in Pools /\ 1 \in 1..Len(Ops)
    BY PoolFacts DEF Ops
  <1>2. PICK x : x = [state |-> st, op |-> 1, pool |-> 1, requested |-> None, addr |-> ad]
    OBVIOUS
  <1>3. /\ x \in SaRec /\ x.state = st /\ x.op = 1 /\ x.pool = 1 /\ x.addr = ad
    BY <1>1, <1>2 DEF SaRec
  <1>4. f = [sa EXCEPT ![s] = x]
    BY <1>2 DEF Ended
  <1> QED BY <1>3, <1>4

\* and one that asks the next pool, or the first again.
Asks(s, q, n, f) ==
    q \in Pools /\ n \in {1, 2, 3} /\ f = [sa EXCEPT ![s].pool = q, ![s].op = n]
LEMMA PoolFields ==
    ASSUME sa \in [Sessions -> SaRec], NEW s \in Sessions, NEW q, NEW n,
           NEW f, Asks(s, q, n, f)
    PROVE  /\ f \in [Sessions -> SaRec] /\ \A t \in Sessions \ {s} : f[t] = sa[t]
           /\ f[s].state = sa[s].state /\ f[s].op = n /\ f[s].pool = q /\ f[s].addr = sa[s].addr
  <1>1. sa[s] \in SaRec /\ n \in 1..Len(Ops)
    BY SaFields DEF Ops, Asks
  <1>2. PICK x : x = [sa[s] EXCEPT !.pool = q, !.op = n]
    OBVIOUS
  <1>3. /\ x \in SaRec /\ x.state = sa[s].state /\ x.op = n /\ x.pool = q /\ x.addr = sa[s].addr
    BY <1>1, <1>2 DEF SaRec, Asks
  <1>4. f[s] = x /\ DOMAIN f = Sessions /\ \A t \in Sessions \ {s} : f[t] = sa[t]
    BY <1>2 DEF Asks
  <1>5. f = [t \in Sessions |-> f[t]]
    BY DEF Asks
  <1> QED BY <1>3, <1>4, <1>5
LEMMA NextPoolFields ==
    ASSUME sa \in [Sessions -> SaRec], NEW s \in Sessions, NEW q \in Pools,
           NEW f, f = [sa EXCEPT ![s].pool = q]
    PROVE  /\ f \in [Sessions -> SaRec] /\ \A t \in Sessions \ {s} : f[t] = sa[t]
           /\ f[s].state = sa[s].state /\ f[s].op = sa[s].op /\ f[s].pool = q
           /\ f[s].addr = sa[s].addr
  <1>1. sa[s] \in SaRec
    BY SaFields
  <1>2. PICK x : x = [sa[s] EXCEPT !.pool = q]
    OBVIOUS
  <1>3. /\ x \in SaRec /\ x.state = sa[s].state /\ x.op = sa[s].op /\ x.pool = q
        /\ x.addr = sa[s].addr
    BY <1>1, <1>2 DEF SaRec
  <1>4. f = [sa EXCEPT ![s] = x]
    BY <1>2
  <1> QED BY <1>3, <1>4

\* What becomes of the pools when one of them answers.
PoolsKept ==
    /\ DOMAIN online = Pools /\ DOMAIN offline = Pools /\ unused \in [Pools -> Nat]
    /\ \A p \in Pools : Sound(p)
LEMMA BecomeKeeps ==
    ASSUME PoolsKept, NEW p \in Pools, NEW r, PoolSound(p, r.online, r.offline, r.unused),
           Become(p, r)
    PROVE  /\ PoolsKept' /\ loaded' = loaded
           /\ online'[p] = r.online /\ offline'[p] = r.offline /\ unused'[p] = r.unused
           /\ \A q \in Pools \ {p} : /\ online'[q] = online[q] /\ offline'[q] = offline[q]
                                     /\ unused'[q] = unused[q]
  <1>1. /\ online'[p] = r.online /\ offline'[p] = r.offline /\ unused'[p] = r.unused
        /\ loaded' = loaded /\ DOMAIN online' = Pools /\ DOMAIN offline' = Pools
        /\ \A q \in Pools \ {p} : /\ online'[q] = online[q] /\ offline'[q] = offline[q]
                                  /\ unused'[q] = unused[q]
    BY DEF PoolsKept, Become
  <1>2. r.unused \in Nat
    BY PoolFacts DEF PoolSound, PoolType
  <1>3. unused' \in [Pools -> Nat]
    BY <1>2 DEF PoolsKept, Become
  <1>4. ASSUME NEW q \in Pools PROVE Sound(q)'
    <2>1. CASE q = p
      BY <1>1, <2>1 DEF Sound
    <2>2. CASE q # p
      BY <1>1, <2>2 DEF Sound, PoolsKept
    <2> QED BY <2>1, <2>2
  <1> QED BY <1>1, <1>3, <1>4 DEF PoolsKept

\* What was exhausted stays so while no pool is loaded or unloaded.
LEMMA ExhaustedStays ==
    ASSUME PoolsKept, PoolsKept', loaded \subseteq Pools, loaded' = loaded,
           \A q \in Pools : unused[q] <= unused'[q],
           NEW t \in Sessions, Exhausted(t), AddrSound(t), sa'[t] = sa[t]
    PROVE  Exhausted(t)' /\ AddrSound(t)'
  <1>1. ASSUME NEW q \in Pools, unused[q] = PoolSizes[q] PROVE unused'[q] = PoolSizes[q]
    <2>1. PICK n, m, z : n = unused[q] /\ m = unused'[q] /\ z = PoolSizes[q]
      OBVIOUS
    <2>2. m \in 0..z /\ n \in 0..z /\ z \in Nat /\ n <= m /\ n = z
      BY <1>1, <2>1, PoolFacts DEF PoolsKept, Sound, PoolSound, PoolType
    <2> QED BY <2>1, <2>2
  <1>2. Exhausted(t)'
    BY <1>1 DEF Exhausted
  <1>3. AddrSound(t)'
    BY DEF AddrSound
  <1> QED BY <1>2, <1>3

\* The rest of the invariant after a step of an IKE_SA.
LEMMA SessionKeeps ==
    ASSUME KeptInv, NEW s \in Sessions, PoolsKept', loaded' = loaded,
           \A q \in Pools : unused[q] <= unused'[q],
           sa' \in [Sessions -> SaRec], \A t \in Sessions \ {s} : sa'[t] = sa[t],
           Exhausted(s)', AddrSound(s)'
    PROVE  KeptInv'
  <1>1. PoolsKept /\ loaded \subseteq Pools
    BY DEF KeptInv, PoolsKept
  <1>2. \A t \in Sessions \ {s} : Exhausted(t)' /\ AddrSound(t)'
    BY <1>1, ExhaustedStays DEF KeptInv
  <1> QED BY <1>1, <1>2 DEF KeptInv, PoolsKept

\* The pools do not change.
LEMMA UnchangedKeeps ==
    ASSUME PoolsKept, UNCHANGED <<loaded, unused, online, offline>>
    PROVE  PoolsKept' /\ loaded' = loaded /\ \A q \in Pools : unused[q] <= unused'[q]
  BY PoolFacts DEF PoolsKept, Sound, PoolSound, PoolType

\* Requests,
LEMMA RequestKeeps ==
    ASSUME KeptInv, NEW s \in Sessions, Request(s)
    PROVE  /\ KeptInv' /\ sa'[s].state = "acquire" /\ sa'[s].addr = sa[s].addr
           /\ \A t \in Sessions \ {s} : sa'[t] = sa[t]
  <1>1. sa \in [Sessions -> SaRec] /\ PoolsKept /\ AddrSound(s)
    BY DEF KeptInv, PoolsKept
  <1>2. PICK x \in Requests : sa' = [Call(s, "acquire") EXCEPT ![s].requested = x]
    BY DEF Request
  <1>3. PICK f : f = Call(s, "acquire")
    OBVIOUS
  <1>4. /\ f \in [Sessions -> SaRec] /\ \A t \in Sessions \ {s} : f[t] = sa[t]
        /\ f[s].state = "acquire" /\ f[s].op = 1 /\ f[s].pool = 1 /\ f[s].addr = sa[s].addr
    BY <1>1, <1>3, CallFields DEF States
  <1>5. PICK y : y = [f[s] EXCEPT !.requested = x]
    OBVIOUS
  <1>6. sa' = [f EXCEPT ![s] = y]
    BY <1>2, <1>3, <1>5
  <1>7. y \in SaRec /\ y.state = "acquire" /\ y.op = 1 /\ y.addr = sa[s].addr
    BY <1>4, <1>5 DEF SaRec
  <1>8. /\ sa' \in [Sessions -> SaRec] /\ (\A t \in Sessions \ {s} : sa'[t] = sa[t])
        /\ sa'[s] = y
    BY <1>4, <1>6, <1>7
  <1>9. Exhausted(s)' /\ AddrSound(s)'
    BY <1>1, <1>7, <1>8 DEF Exhausted, AddrSound
  <1>10. PoolsKept' /\ loaded' = loaded /\ \A q \in Pools : unused[q] <= unused'[q]
    BY <1>1, UnchangedKeeps DEF Request
  <1> QED BY <1>7, <1>8, <1>9, <1>10, SessionKeeps

\* the end of an IKE_SA,
LEMMA DestroyKeeps ==
    ASSUME KeptInv, NEW s \in Sessions, Destroy(s)
    PROVE  /\ KeptInv' /\ \A t \in Sessions \ {s} : sa'[t] = sa[t]
           /\ \/ /\ sa[s].state = "up" /\ sa'[s].state = "release" /\ sa'[s].pool = 1
                 /\ sa'[s].addr = sa[s].addr
              \/ sa[s].state = "failed" /\ sa'[s].state = "idle" /\ sa'[s].addr = None
  <1>1. sa \in [Sessions -> SaRec] /\ PoolsKept /\ AddrSound(s)
    BY DEF KeptInv, PoolsKept
  <1>2. PoolsKept' /\ loaded' = loaded /\ \A q \in Pools : unused[q] <= unused'[q]
    BY <1>1, UnchangedKeeps DEF Destroy
  <1>3. CASE sa[s].state = "up" /\ sa' = Call(s, "release")
    <2>1. /\ sa' \in [Sessions -> SaRec] /\ \A t \in Sessions \ {s} : sa'[t] = sa[t]
          /\ sa'[s].state = "release" /\ sa'[s].pool = 1 /\ sa'[s].addr = sa[s].addr
      BY <1>1, <1>3, CallFields DEF States
    <2>2. Exhausted(s)' /\ AddrSound(s)'
      BY <1>1, <2>1 DEF Exhausted, AddrSound
    <2> QED BY <1>2, <1>3, <2>1, <2>2, SessionKeeps
  <1>4. CASE sa[s].state = "failed" /\ sa' = Ended(s, "idle", None)
    <2>1. /\ sa' \in [Sessions -> SaRec] /\ \A t \in Sessions \ {s} : sa'[t] = sa[t]
          /\ sa'[s].state = "idle" /\ sa'[s].addr = None
      BY <1>1, <1>4, EndedFields DEF States
    <2>2. Exhausted(s)' /\ AddrSound(s)'
      BY <2>1 DEF Exhausted, AddrSound
    <2> QED BY <1>2, <1>4, <2>1, <2>2, SessionKeeps
  <1> QED BY <1>3, <1>4 DEF Destroy

\* The next question of an IKE_SA that was given nothing.
LEMMA NextTryKeeps ==
    ASSUME KeptInv, NEW s \in Sessions, sa[s].state = "acquire", sa' = NextTry(s),
           PoolsKept', loaded' = loaded, \A q \in Pools : unused[q] <= unused'[q],
           sa[s].pool \in loaded /\ sa[s].op = 2 =>
               unused'[sa[s].pool] = PoolSizes[sa[s].pool]
    PROVE  /\ KeptInv' /\ \A t \in Sessions \ {s} : sa'[t] = sa[t]
           /\ \/ sa'[s].state = "acquire" /\ sa'[s].addr = sa[s].addr
              \/ /\ sa'[s].state = "failed" /\ sa'[s].addr = None
                 /\ sa[s].op = 3 /\ sa[s].pool = Len(PoolSizes)
  <1>1. /\ sa \in [Sessions -> SaRec] /\ PoolsKept /\ AddrSound(s) /\ Exhausted(s)
        /\ loaded \subseteq Pools
    BY DEF KeptInv, PoolsKept
  <1>2. PICK p, n, z : p = sa[s].pool /\ n = sa[s].op /\ z = Len(PoolSizes)
    OBVIOUS
  <1>3. p \in Pools /\ p \in Nat /\ p <= z /\ n \in {1, 2, 3} /\ z \in Nat /\ z \in Pools
        /\ 1 \in Pools /\ Pools = 1..z
    BY <1>1, <1>2, SaFields, PoolFacts
  <1>4. \A q \in loaded : unused[q] = PoolSizes[q] => unused'[q] = PoolSizes[q]
    <2> SUFFICES ASSUME NEW q \in Pools, unused[q] = PoolSizes[q]
                 PROVE  unused'[q] = PoolSizes[q]
      BY <1>1
    <2>1. PICK a, b : a = unused'[q] /\ b = PoolSizes[q]
      OBVIOUS
    <2>2. a \in 0..b /\ b \in Nat /\ b <= a
      BY <2>1, PoolFacts DEF PoolsKept, Sound, PoolSound, PoolType
    <2> QED BY <2>1, <2>2
  <1>5. \A q \in loaded : n = 3 \/ (n = 2 /\ q <= p) => unused'[q] = PoolSizes[q]
    <2> SUFFICES ASSUME NEW q \in loaded, n = 3 \/ (n = 2 /\ q <= p)
                 PROVE  unused'[q] = PoolSizes[q]
      OBVIOUS
    <2>1. CASE n = 2 /\ q = p
      BY <1>2, <2>1
    <2>2. CASE n = 3 \/ (n = 2 /\ q < p)
      BY <1>1, <1>2, <1>4, <2>2 DEF Exhausted
    <2> QED BY <1>1, <1>3, <2>1, <2>2
  <1>6. CASE p < z
    <2>1. PICK q : q = p + 1
      OBVIOUS
    <2>2. q \in Pools /\ sa' = [sa EXCEPT ![s].pool = q]
      BY <1>2, <1>3, <1>6, <2>1 DEF NextTry
    <2>3. /\ sa' \in [Sessions -> SaRec] /\ \A t \in Sessions \ {s} : sa'[t] = sa[t]
          /\ sa'[s].state = "acquire" /\ sa'[s].op = n /\ sa'[s].pool = q
          /\ sa'[s].addr = sa[s].addr
      BY <1>1, <1>2, <2>2, NextPoolFields
    <2>4. \A x \in Pools : x < q <=> x <= p
      BY <1>3, <2>1
    <2>5. Exhausted(s)'
      BY <1>1, <1>5, <2>3, <2>4 DEF Exhausted
    <2>6. AddrSound(s)'
      BY <1>1, <2>3 DEF AddrSound
    <2> QED BY <2>3, <2>5, <2>6, SessionKeeps
  <1>7. CASE ~(p < z) /\ n < 3
    <2>1. PICK m : m = n + 1
      OBVIOUS
    <2>2. m \in {1, 2, 3} /\ m # 1 /\ sa' = [sa EXCEPT ![s].pool = 1, ![s].op = m]
      BY <1>2, <1>3, <1>7, <2>1 DEF NextTry, Ops
    <2>3. /\ sa' \in [Sessions -> SaRec] /\ \A t \in Sessions \ {s} : sa'[t] = sa[t]
          /\ sa'[s].state = "acquire" /\ sa'[s].op = m /\ sa'[s].pool = 1
          /\ sa'[s].addr = sa[s].addr
      <3>1. PICK q, f : q = 1 /\ f = sa'
        OBVIOUS
      <3>2. Asks(s, q, m, f)
        BY <1>3, <2>2, <3>1 DEF Asks
      <3>3. /\ f \in [Sessions -> SaRec] /\ \A t \in Sessions \ {s} : f[t] = sa[t]
            /\ f[s].state = sa[s].state /\ f[s].op = m /\ f[s].pool = q
            /\ f[s].addr = sa[s].addr
        BY <1>1, <3>2, PoolFields
      <3> QED BY <3>1, <3>3
    <2>4. \A x \in Pools : x <= p /\ ~(x < 1)
      BY <1>3, <1>7
    <2>5. Exhausted(s)'
      <3>1. m = 3 => n = 2
        BY <1>3, <2>1
      <3> QED BY <1>1, <1>5, <2>3, <2>4, <3>1 DEF Exhausted
    <2>6. AddrSound(s)'
      BY <1>1, <2>3 DEF AddrSound
    <2> QED BY <2>3, <2>5, <2>6, SessionKeeps
  <1>8. CASE ~(p < z) /\ ~(n < 3)
    <2>1. sa' = Ended(s, "failed", None)
      BY <1>2, <1>8 DEF NextTry, Ops
    <2>2. /\ sa' \in [Sessions -> SaRec] /\ \A t \in Sessions \ {s} : sa'[t] = sa[t]
          /\ sa'[s].state = "failed" /\ sa'[s].addr = None
      BY <1>1, <2>1, EndedFields DEF States
    <2>3. Exhausted(s)' /\ AddrSound(s)'
      BY <2>2 DEF Exhausted, AddrSound
    <2>4. n = 3 /\ p = z
      BY <1>3, <1>8
    <2> QED BY <1>2, <2>2, <2>3, <2>4, SessionKeeps
  <1> QED BY <1>6, <1>7, <1>8

\* an IKE_SA that asks a pool,
AcquireFacts(s) ==
    LET p == sa[s].pool
    IN \/ /\ sa'[s].state = "up"
          /\ \E r : /\ OutcomeSound(s, p, r) /\ Given(s, p, r) /\ online'[p] = r.online
                    /\ p \in loaded /\ sa'[s].addr = <<p, r.offset>>
       \/ /\ online'[p] = online[p]
          /\ \/ sa'[s].state = "acquire" /\ sa'[s].addr = sa[s].addr
             \/ /\ sa'[s].state = "failed" /\ sa'[s].addr = None
                /\ sa[s].op = 3 /\ p = Len(PoolSizes)
                /\ p \in loaded => \A i \in Ids : offline[p][i] = <<>>
LEMMA AcquireKeeps ==
    ASSUME KeptInv, NoneMoved, NEW s \in Sessions, Acquire(s)
    PROVE  /\ KeptInv' /\ loaded' = loaded /\ sa[s].state = "acquire" /\ sa[s].pool \in Pools
           /\ \A t \in Sessions \ {s} : sa'[t] = sa[t]
           /\ \A q \in Pools \ {sa[s].pool} : online'[q] = online[q]
           /\ AcquireFacts(s)
  <1>1. /\ sa \in [Sessions -> SaRec] /\ PoolsKept /\ loaded \subseteq Pools
    BY DEF KeptInv, PoolsKept
  <1>2. PICK p : p = sa[s].pool
    OBVIOUS
  <1>3. p \in Pools /\ sa[s].op \in {1, 2, 3} /\ Sound(p)
    BY <1>1, <1>2, SaFields DEF PoolsKept
  <1>4. PICK r \in Outcomes(s, p) :
            /\ Become(p, r)
            /\ sa' = IF r.offset # 0 THEN Ended(s, "up", <<p, r.offset>>) ELSE NextTry(s)
    BY <1>2 DEF Acquire
  <1>5. /\ OutcomeSound(s, p, r)
        /\ p \in loaded /\ sa[s].op = 2 /\ r.offset = 0 => unused[p] = PoolSizes[p]
        /\ p \in loaded /\ sa[s].op = 3 /\ r.offset = 0 => \A i \in Ids : offline[p][i] = <<>>
        /\ p \notin loaded => r = Nothing(p)
    <2>1. sa[s].op = 1 /\ Same(s, p) # 0 => ~Moves(online[p][Id[s]])
      BY <1>2 DEF NoneMoved, Acquire
    <2> QED BY <1>3, <2>1, OutcomesSound
  <1>6. PoolSound(p, r.online, r.offline, r.unused) /\ unused[p] <= r.unused
        /\ (r = Nothing(p) \/ Given(s, p, r))
    BY <1>5 DEF OutcomeSound
  <1>7. /\ PoolsKept' /\ loaded' = loaded
        /\ online'[p] = r.online /\ offline'[p] = r.offline /\ unused'[p] = r.unused
        /\ \A q \in Pools \ {p} : /\ online'[q] = online[q] /\ offline'[q] = offline[q]
                                  /\ unused'[q] = unused[q]
    BY <1>1, <1>3, <1>4, <1>6, BecomeKeeps
  <1>8. \A q \in Pools : unused[q] <= unused'[q]
    <2>1. \A q \in Pools : unused[q] \in Nat
      BY <1>1 DEF PoolsKept
    <2> QED BY <1>6, <1>7, <2>1
  <1>9. sa[s].state = "acquire"
    BY DEF Acquire
  <1>10. Given(s, p, r) => r.offset \in Offsets(p) /\ r.offset # 0 /\ r.offset \in Nat
    BY <1>3, PoolFacts DEF Given
  <1>11. Nothing(p).offset = 0 /\ Nothing(p).online = online[p] /\ Nothing(p).unused = unused[p]
    BY ResultFields DEF Nothing
  <1>12. CASE Given(s, p, r)
    <2>1. PICK ad : ad = <<p, r.offset>>
      OBVIOUS
    <2>2. ad \in Pools \X Nat \cup {None} /\ ad[1] = p /\ ad[2] = r.offset
      BY <1>3, <1>10, <1>12, <2>1
    <2>3. sa' = Ended(s, "up", ad)
      BY <1>4, <1>10, <1>12, <2>1
    <2>4. /\ sa' \in [Sessions -> SaRec] /\ \A t \in Sessions \ {s} : sa'[t] = sa[t]
          /\ sa'[s].state = "up" /\ sa'[s].addr = ad
      BY <1>1, <2>2, <2>3, EndedFields DEF States
    <2>5. Exhausted(s)' /\ AddrSound(s)'
      BY <1>3, <1>10, <1>12, <2>2, <2>4 DEF Exhausted, AddrSound
    <2>6. KeptInv'
      BY <1>7, <1>8, <2>4, <2>5, SessionKeeps
    <2>7. p \in loaded
      BY <1>5, <1>10, <1>11, <1>12
    <2>8. AcquireFacts(s)
      BY <1>2, <1>5, <1>7, <1>12, <2>1, <2>4, <2>7 DEF AcquireFacts
    <2> QED BY <1>2, <1>3, <1>7, <1>9, <2>4, <2>6, <2>8
  <1>13. CASE ~Given(s, p, r)
    <2>1. r = Nothing(p) /\ r.offset = 0
      BY <1>6, <1>11, <1>13
    <2>2. sa' = NextTry(s)
      BY <1>4, <2>1
    <2>3. p \in loaded /\ sa[s].op = 2 => unused'[p] = PoolSizes[p]
      BY <1>5, <1>7, <1>11, <2>1
    <2>4. /\ KeptInv' /\ \A t \in Sessions \ {s} : sa'[t] = sa[t]
          /\ \/ sa'[s].state = "acquire" /\ sa'[s].addr = sa[s].addr
             \/ /\ sa'[s].state = "failed" /\ sa'[s].addr = None
                /\ sa[s].op = 3 /\ sa[s].pool = Len(PoolSizes)
      BY <1>2, <1>7, <1>8, <1>9, <2>2, <2>3, NextTryKeeps
    <2>5. online'[p] = online[p]
      BY <1>7, <1>11, <2>1
    <2>6. AcquireFacts(s)
      BY <1>2, <1>5, <2>1, <2>4, <2>5 DEF AcquireFacts
    <2> QED BY <1>2, <1>3, <1>7, <1>9, <2>4, <2>6
  <1> QED BY <1>12, <1>13

\* one that releases its address,
ReleaseFacts(s) ==
    LET p == sa[s].pool
    IN \/ /\ sa'[s].state = "idle" /\ sa'[s].addr = None
          /\ \E r : Taken(s, p, r) /\ online'[p] = r.online
       \/ /\ online'[p] = online[p]
          /\ p \in loaded /\ sa[s].addr[1] = p => ~On(online[p], Id[s], sa[s].addr[2])
          /\ \/ /\ p < Len(PoolSizes) /\ sa'[s].state = "release" /\ sa'[s].addr = sa[s].addr
                /\ sa'[s].pool = p + 1
             \/ p = Len(PoolSizes) /\ sa'[s].state = "idle" /\ sa'[s].addr = None
LEMMA ReleaseKeeps ==
    ASSUME KeptInv, NEW s \in Sessions, Release(s)
    PROVE  /\ KeptInv' /\ loaded' = loaded /\ sa[s].state = "release" /\ sa[s].pool \in Pools
           /\ \A t \in Sessions \ {s} : sa'[t] = sa[t]
           /\ \A q \in Pools \ {sa[s].pool} : online'[q] = online[q]
           /\ ReleaseFacts(s)
  <1>1. /\ sa \in [Sessions -> SaRec] /\ PoolsKept /\ loaded \subseteq Pools /\ AddrSound(s)
    BY DEF KeptInv, PoolsKept
  <1>2. PICK p : p = sa[s].pool
    OBVIOUS
  <1>3. /\ p \in Pools /\ Sound(p) /\ p \in Nat /\ p <= Len(PoolSizes) /\ Len(PoolSizes) \in Nat
        /\ p < Len(PoolSizes) => p + 1 \in Pools
    BY <1>1, <1>2, SaFields, PoolFacts DEF PoolsKept
  <1>4. PICK r : r = IF p \in loaded THEN release_address(s, p) ELSE Nothing(p)
    OBVIOUS
  <1>5. /\ Become(p, r) /\ sa[s].state = "release"
        /\ sa' = IF r.offset = 0 /\ p < Len(PoolSizes) THEN [sa EXCEPT ![s].pool = p + 1]
                 ELSE Ended(s, "idle", None)
    BY <1>2, <1>4 DEF Release
  <1>6. Nothing(p).offset = 0 /\ Nothing(p).online = online[p] /\ Nothing(p).unused = unused[p]
        /\ Nothing(p).offline = offline[p]
    BY ResultFields DEF Nothing
  <1>7. /\ PoolSound(p, r.online, r.offline, r.unused) /\ r.unused = unused[p]
        /\ \/ /\ r = Nothing(p)
              /\ p \in loaded /\ sa[s].addr[1] = p => ~On(online[p], Id[s], sa[s].addr[2])
           \/ Taken(s, p, r)
    <2>1. CASE p \in loaded
      <3>1. ReleaseOutcome(s, p, r)
        BY <1>1, <1>3, <1>4, <2>1, ReleaseSound
      <3> QED BY <3>1 DEF ReleaseOutcome
    <2>2. CASE p \notin loaded
      BY <1>3, <1>4, <1>6, <2>2 DEF Sound
    <2> QED BY <2>1, <2>2
  <1>8. /\ PoolsKept' /\ loaded' = loaded
        /\ online'[p] = r.online /\ unused'[p] = r.unused
        /\ \A q \in Pools \ {p} : online'[q] = online[q] /\ unused'[q] = unused[q]
    BY <1>1, <1>3, <1>5, <1>7, BecomeKeeps
  <1>9. \A q \in Pools : unused[q] <= unused'[q]
    <2>1. \A q \in Pools : unused[q] \in Nat
      BY <1>1 DEF PoolsKept
    <2> QED BY <1>7, <1>8, <2>1
  <1>10. CASE r.offset = 0 /\ p < Len(PoolSizes)
    <2>1. PICK q : q = p + 1
      OBVIOUS
    <2>2. /\ sa' \in [Sessions -> SaRec] /\ \A t \in Sessions \ {s} : sa'[t] = sa[t]
          /\ sa'[s].state = "release" /\ sa'[s].pool = q /\ sa'[s].addr = sa[s].addr
      BY <1>1, <1>3, <1>5, <1>10, <2>1, NextPoolFields
    <2>3. Exhausted(s)' /\ AddrSound(s)'
      BY <1>1, <2>2 DEF Exhausted, AddrSound
    <2>4. KeptInv'
      BY <1>8, <1>9, <2>2, <2>3, SessionKeeps
    <2>5. r = Nothing(p)
      <3>1. ASSUME Taken(s, p, r) PROVE FALSE
        <4>1. sa[s].addr[1] = p /\ sa[s].addr[2] = 0
          BY <1>10, <3>1 DEF Taken
        <4>2. sa[s].addr # None
          BY <1>3, <4>1, PoolFacts DEF None
        <4> QED BY <1>1, <1>3, <4>1, <4>2, PoolFacts DEF AddrSound
      <3> QED BY <1>7, <3>1
    <2>6. online'[p] = online[p]
      BY <1>6, <1>8, <2>5
    <2>7. p \in loaded /\ sa[s].addr[1] = p => ~On(online[p], Id[s], sa[s].addr[2])
      <3>1. CASE Taken(s, p, r)
        <4>1. sa[s].addr[1] = p /\ sa[s].addr[2] = 0
          BY <1>10, <3>1 DEF Taken
        <4>2. sa[s].addr # None
          BY <1>3, <4>1, PoolFacts DEF None
        <4> QED BY <1>1, <1>3, <4>1, <4>2, PoolFacts DEF AddrSound
      <3> QED BY <1>7, <3>1
    <2>8. ReleaseFacts(s)
      BY <1>2, <1>10, <2>1, <2>2, <2>6, <2>7 DEF ReleaseFacts
    <2> QED BY <1>2, <1>3, <1>5, <1>8, <2>2, <2>4, <2>8
  <1>11. CASE ~(r.offset = 0 /\ p < Len(PoolSizes))
    <2>1. /\ sa' \in [Sessions -> SaRec] /\ \A t \in Sessions \ {s} : sa'[t] = sa[t]
          /\ sa'[s].state = "idle" /\ sa'[s].addr = None
      BY <1>1, <1>5, <1>11, EndedFields DEF States
    <2>2. Exhausted(s)' /\ AddrSound(s)'
      BY <2>1 DEF Exhausted, AddrSound
    <2>3. KeptInv'
      BY <1>8, <1>9, <2>1, <2>2, SessionKeeps
    <2>4. CASE Taken(s, p, r)
      <3>1. ReleaseFacts(s)
        BY <1>2, <1>8, <2>1, <2>4 DEF ReleaseFacts
      <3> QED BY <1>2, <1>3, <1>5, <1>8, <2>1, <2>3, <3>1
    <2>5. CASE ~Taken(s, p, r)
      <3>1. online'[p] = online[p]
        BY <1>6, <1>7, <1>8, <2>5
      <3>2. p = Len(PoolSizes)
        BY <1>3, <1>6, <1>7, <1>11, <2>5
      <3>3. ReleaseFacts(s)
        BY <1>2, <1>7, <2>1, <2>5, <3>1, <3>2 DEF ReleaseFacts
      <3> QED BY <1>2, <1>3, <1>5, <1>8, <2>1, <2>3, <3>3
    <2> QED BY <2>4, <2>5
  <1> QED BY <1>10, <1>11

\* and pools that are loaded and unloaded.
LEMMA FreshPool ==
    ASSUME NEW p \in Pools, NEW on, NEW off,
           on = [i \in Ids |-> EmptyArray], off = [i \in Ids |-> <<>>]
    PROVE  PoolSound(p, on, off, 0)
  <1>1. EmptyArray \in Arrays(p) /\ EmptyArray.elems = <<>>
    BY EmptyArrayType
  <1>2. \A i \in Ids : on[i].elems = <<>> /\ off[i] = <<>>
    BY <1>1
  <1>3. DOMAIN <<>> = {}
    OBVIOUS
  <1>4. PoolType(p, on, off, 0)
    BY <1>1, PoolFacts DEF PoolType
  <1>5. \A i \in Ids : \A x : ~On(on, i, x) /\ ~Off(off, i, x)
    BY <1>2, <1>3 DEF On, Off
  <1>6. OffOnce(off)
    BY <1>2, <1>3 DEF OffOnce
  <1>7. \A o \in Offsets(p) : ~(o <= 0)
    BY PoolFacts
  <1> QED BY <1>4, <1>5, <1>6, <1>7 DEF PoolSound, OnOnce, OnNotOff, HandedOut
LEMMA FreshKeeps ==
    ASSUME KeptInv, NEW p \in Pools, ~Locked, Fresh(p), loaded' \subseteq Pools
    PROVE  /\ KeptInv' /\ sa' = sa /\ \A i \in Ids : online'[p][i].elems = <<>>
           /\ \A q \in Pools \ {p} : online'[q] = online[q]
  <1>1. PICK on, off : on = [i \in Ids |-> EmptyArray] /\ off = [i \in Ids |-> <<>>]
    OBVIOUS
  <1>2. PoolSound(p, on, off, 0)
    BY <1>1, FreshPool
  <1>3. /\ online' = [online EXCEPT ![p] = on] /\ offline' = [offline EXCEPT ![p] = off]
        /\ unused' = [unused EXCEPT ![p] = 0] /\ sa' = sa
    BY <1>1 DEF Fresh
  <1>4. /\ online'[p] = on /\ offline'[p] = off /\ unused'[p] = 0 /\ unused' \in [Pools -> Nat]
        /\ DOMAIN online' = Pools /\ DOMAIN offline' = Pools
        /\ \A q \in Pools \ {p} : /\ online'[q] = online[q] /\ offline'[q] = offline[q]
                                  /\ unused'[q] = unused[q]
    BY <1>3 DEF KeptInv
  <1>5. \A q \in Pools : Sound(q)'
    BY <1>2, <1>4 DEF Sound, KeptInv
  <1>6. \A s \in Sessions : Exhausted(s)' /\ AddrSound(s)'
    BY <1>3 DEF Exhausted, AddrSound, Locked, KeptInv
  <1>7. KeptInv'
    BY <1>3, <1>4, <1>5, <1>6 DEF KeptInv
  <1>8. \A i \in Ids : online'[p][i].elems = <<>>
    BY <1>1, <1>4, EmptyArrayType
  <1> QED BY <1>3, <1>4, <1>7, <1>8

\* The invariant holds initially and is kept by every step.
LEMMA InitKept == Init => KeptInv
  <1> SUFFICES ASSUME Init PROVE KeptInv
    OBVIOUS
  <1>1. 1 \in Pools /\ 1 \in 1..Len(Ops) /\ "idle" \in States
    BY PoolFacts DEF Ops, States
  <1>2. PICK x : x = [state |-> "idle", op |-> 1, pool |-> 1, requested |-> None, addr |-> None]
    OBVIOUS
  <1>3. x \in SaRec /\ x.state = "idle" /\ x.addr = None
    BY <1>1, <1>2 DEF SaRec
  <1>4. sa = [s \in Sessions |-> x]
    BY <1>2 DEF Init
  <1>5. \A p \in Pools : Sound(p)
    <2> SUFFICES ASSUME NEW p \in Pools PROVE Sound(p)
      OBVIOUS
    <2>1. /\ online[p] = [i \in Ids |-> EmptyArray] /\ offline[p] = [i \in Ids |-> <<>>]
          /\ unused[p] = 0
      BY DEF Init
    <2> QED BY <2>1, FreshPool DEF Sound
  <1>6. \A s \in Sessions : Exhausted(s) /\ AddrSound(s)
    BY <1>3, <1>4 DEF Exhausted, AddrSound
  <1>7. /\ loaded \subseteq Pools /\ sa \in [Sessions -> SaRec]
        /\ DOMAIN online = Pools /\ DOMAIN offline = Pools /\ unused \in [Pools -> Nat]
    BY <1>3, <1>4 DEF Init
  <1> QED BY <1>5, <1>6, <1>7 DEF KeptInv
LEMMA NextKept == KeptInv /\ NoneMoved /\ [Next]_vars => KeptInv'
  <1> SUFFICES ASSUME KeptInv, NoneMoved, [Next]_vars PROVE KeptInv'
    OBVIOUS
  <1>1. ASSUME NEW s \in Sessions, Request(s) \/ Acquire(s) \/ Destroy(s) \/ Release(s)
        PROVE  KeptInv'
    BY <1>1, RequestKeeps, AcquireKeeps, DestroyKeeps, ReleaseKeeps
  <1>2. ASSUME NEW p \in Pools, LoadPool(p) \/ UnloadPool(p) PROVE KeptInv'
    <2>1. ~Locked /\ Fresh(p) /\ loaded' \subseteq Pools
      BY <1>2 DEF LoadPool, UnloadPool, KeptInv
    <2> QED BY <2>1, FreshKeeps
  <1>3. CASE UNCHANGED vars
    BY <1>3 DEF vars, KeptInv, Sound, Exhausted, AddrSound
  <1> QED BY <1>1, <1>2, <1>3 DEF Next
LEMMA KeptCorrect == Spec /\ []NoneMoved => []KeptInv
  BY InitKept, NextKept, PTL DEF Spec

\* A peer goes without an address only if all addresses of the last pool are in use
\* (vici acquire_address(): every pool is asked for an existing lease, then every pool for
\* a new one, then for one to reassign), however the IKE_SAs of identities and peers
\* interleave and however elements are shifted, as long as none is copied from where an
\* array was before realloc() moved it.
THEOREM FailsWhenFullCorrect == Spec /\ []NoneMoved => FailsWhenFull
  <1> DEFINE Fails == \A s \in Sessions :
                 sa[s].state = "acquire" /\ sa'[s].state = "failed" =>
                     LET p == Len(PoolSizes)
                     IN p \in loaded => \A o \in Offsets(p) : \E i \in Ids : OnlineAt(i, p, o) # {}
  <1>1. KeptInv /\ NoneMoved /\ [Next]_vars => [Fails]_vars
    <2> SUFFICES ASSUME KeptInv, NoneMoved, Next, NEW s \in Sessions, sa[s].state = "acquire",
                        sa'[s].state = "failed", Len(PoolSizes) \in loaded,
                        NEW o \in Offsets(Len(PoolSizes))
                 PROVE  \E i \in Ids : OnlineAt(i, Len(PoolSizes), o) # {}
      BY DEF vars
    <2>1. PICK p : p = Len(PoolSizes)
      OBVIOUS
    <2>2. p \in Pools /\ Sound(p) /\ o \in Offsets(p) /\ p \in loaded
      BY <2>1, PoolFacts DEF KeptInv
    <2>3. Acquire(s)
      <3>1. \A t \in Sessions : Request(t) => sa'[s].state # "failed"
        BY RequestKeeps
      <3>2. \A t \in Sessions \ {s} : Acquire(t) => sa'[s].state # "failed"
        BY AcquireKeeps
      <3>3. \A t \in Sessions : Destroy(t) => sa'[s].state # "failed"
        BY DestroyKeeps
      <3>4. \A t \in Sessions : Release(t) => t # s /\ sa'[s].state # "failed"
        BY ReleaseKeeps
      <3>5. \A q \in Pools : LoadPool(q) \/ UnloadPool(q) => sa'[s].state # "failed"
        BY DEF LoadPool, UnloadPool, Fresh
      <3> QED BY <3>1, <3>2, <3>3, <3>4, <3>5 DEF Next
    <2>4. AcquireFacts(s) /\ Exhausted(s)
      BY <2>3, AcquireKeeps DEF KeptInv
    <2>5. sa[s].op = 3 /\ \A i \in Ids : offline[p][i] = <<>>
      BY <2>1, <2>2, <2>4 DEF AcquireFacts
    <2>6. unused[p] = PoolSizes[p] /\ o <= unused[p]
      BY <2>2, <2>4, <2>5, PoolFacts DEF Exhausted
    <2>7. PICK i \in Ids : On(online[p], i, o) \/ Off(offline[p], i, o)
      BY <2>2, <2>6 DEF Sound, PoolSound, HandedOut
    <2>8. ~Off(offline[p], i, o)
      BY <2>5 DEF Off
    <2> QED BY <2>1, <2>7, <2>8 DEF On, OnlineAt
  <1> QED BY <1>1, KeptCorrect, PTL DEF Spec, FailsWhenFull

\* What the invariant says of types,
LEMMA KeptTypes == KeptInv => TypeOK
  <1> SUFFICES ASSUME KeptInv PROVE TypeOK
    OBVIOUS
  <1>1. /\ loaded \subseteq Pools /\ unused \in [Pools -> Nat]
        /\ sa \in [Sessions -> [state : States, op : 1..Len(Ops), pool : Pools,
                                requested : Requests \cup {None},
                                addr : Pools \X Nat \cup {None}]]
    BY DEF KeptInv, SaRec
  <1>2. ASSUME NEW p \in Pools PROVE unused[p] <= PoolSizes[p]
    BY PoolFacts DEF KeptInv, Sound, PoolSound, PoolType
  <1>3. ASSUME NEW p \in Pools, NEW i \in Ids
        PROVE  /\ online[p][i].elems \in Seq(Lease)
               /\ online[p][i].head + online[p][i].tail <= MaxUnused
               /\ offline[p][i] \in Seq(Offsets(p))
    <2>1. online[p][i] \in Arrays(p) /\ offline[p][i] \in Seq(Offsets(p))
      BY DEF KeptInv, Sound, PoolSound, PoolType
    <2>2. PICK e : e = online[p][i].elems
      OBVIOUS
    <2>3. e \in Seq(Leases(p)) /\ online[p][i].head + online[p][i].tail <= MaxUnused
      BY <2>1, <2>2, ArrayFields
    <2>4. Leases(p) \subseteq Lease
      BY DEF Leases
    <2>5. e \in Seq(Lease)
      BY <2>3, <2>4
    <2> QED BY <2>1, <2>2, <2>3, <2>5
  <1> QED BY <1>1, <1>2, <1>3 DEF TypeOK

\* and of who keeps a lease.
LEMMA KeptOneKeeper == KeptInv => OneKeeper
  <1> SUFFICES ASSUME KeptInv, NEW p \in Pools, NEW o \in Offsets(p)
               PROVE  LET on == {i \in Ids : OnlineAt(i, p, o) # {}}
                          off == {e \in Ids \X Offsets(p) :
                                     e[2] <= Len(offline[p][e[1]]) /\ offline[p][e[1]][e[2]] = o}
                      IN Cardinality(on) + Cardinality(off) = IF o <= unused[p] THEN 1 ELSE 0
    BY DEF OneKeeper
  <1>1. PICK on : on = {i \in Ids : OnlineAt(i, p, o) # {}}
    OBVIOUS
  <1>2. PICK off : off = {e \in Ids \X Offsets(p) :
                             e[2] <= Len(offline[p][e[1]]) /\ offline[p][e[1]][e[2]] = o}
    OBVIOUS
  <1>3. Sound(p)
    BY DEF KeptInv
  <1>4. \A i \in Ids : i \in on <=> On(online[p], i, o)
    BY <1>1 DEF On, OnlineAt
  <1>5. \A i \in Ids : /\ offline[p][i] \in Seq(Offsets(p))
                       /\ DOMAIN offline[p][i] = 1..Len(offline[p][i])
                       /\ Len(offline[p][i]) \in Nat
    BY <1>3 DEF Sound, PoolSound, PoolType
  <1>6. \A e \in off : /\ e[1] \in Ids /\ e[2] \in DOMAIN offline[p][e[1]]
                       /\ offline[p][e[1]][e[2]] = o /\ e = <<e[1], e[2]>>
    BY <1>2, <1>5, PoolFacts
  <1>7. ASSUME NEW i \in Ids, NEW k \in DOMAIN offline[p][i], offline[p][i][k] = o
        PROVE  <<i, k>> \in off
    <2>1. PICK f, n, z : f = offline[p][i] /\ n = Len(offline[p][i]) /\ z = PoolSizes[p]
      OBVIOUS
    <2>2. n \in Nat /\ z \in Nat /\ f \in [1..n -> 1..z] /\ k \in 1..n
      <3>1. z \in Nat /\ Offsets(p) = 1..z
        BY <2>1, PoolFacts DEF Offsets
      <3>2. f \in Seq(Offsets(p)) /\ DOMAIN f = 1..n /\ n \in Nat
        BY <1>5, <2>1
      <3>3. f \in [1..n -> Offsets(p)]
        BY <2>1, <3>2
      <3> QED BY <2>1, <3>1, <3>2, <3>3
    <2>3. \A a, b \in 1..n : f[a] = f[b] => a = b
      BY <1>3, <1>5, <2>1 DEF Sound, PoolSound, OffOnce
    <2>4. n <= z
      <3>1. /\ IsFiniteSet(1..n) /\ Cardinality(1..n) = n
            /\ IsFiniteSet(1..z) /\ Cardinality(1..z) = z
        BY <2>2, FS_Interval
      <3>2. ~(z < n)
        BY <2>2, <2>3, <3>1, FS_PigeonHole
      <3> QED BY <2>2, <3>2
    <2>5. k \in Offsets(p) /\ k <= Len(offline[p][i])
      BY <2>1, <2>2, <2>4 DEF Offsets
    <2> QED BY <1>2, <1>7, <2>5
  <1>8. Cardinality(on) + Cardinality(off) = IF o <= unused[p] THEN 1 ELSE 0
    <2>0. /\ Cardinality({}) = 0 /\ \A x : Cardinality({x}) = 1
      BY FS_EmptySet, FS_Singleton
    <2>1. CASE ~(o <= unused[p])
      <3>1. \A i \in Ids : ~On(online[p], i, o) /\ ~Off(offline[p], i, o)
        BY <1>3, <2>1 DEF Sound, PoolSound, HandedOut
      <3>2. on = {} /\ off = {}
        BY <1>1, <1>4, <1>6, <3>1 DEF Off
      <3> QED BY <2>0, <2>1, <3>2
    <2>2. CASE o <= unused[p] /\ \E i \in Ids : On(online[p], i, o)
      <3>1. PICK i \in Ids : On(online[p], i, o)
        BY <2>2
      <3>2. on = {i}
        BY <1>1, <1>3, <1>4, <3>1 DEF Sound, PoolSound, OnOnce
      <3>3. \A j \in Ids : ~Off(offline[p], j, o)
        BY <1>3, <3>1 DEF Sound, PoolSound, OnNotOff
      <3>4. off = {}
        BY <1>6, <3>3 DEF Off
      <3>5. Cardinality(on) = 1
        BY <2>0, <3>2, Zenon
      <3>6. Cardinality(off) = 0
        BY <2>0, <3>4, Zenon
      <3> QED BY <2>2, <3>5, <3>6
    <2>3. CASE o <= unused[p] /\ ~\E i \in Ids : On(online[p], i, o)
      <3>1. PICK i \in Ids : Off(offline[p], i, o)
        BY <1>3, <2>3 DEF Sound, PoolSound, HandedOut
      <3>2. PICK k \in DOMAIN offline[p][i] : offline[p][i][k] = o
        BY <3>1 DEF Off
      <3>3. on = {}
        BY <1>1, <1>4, <2>3
      <3>4. <<i, k>> \in off
        BY <1>7, <3>2
      <3>5. \A e \in off : e = <<i, k>>
        BY <1>3, <1>6, <3>2 DEF Sound, PoolSound, OffOnce
      <3>6. off = {<<i, k>>}
        BY <3>4, <3>5
      <3>7. Cardinality(on) = 0
        BY <2>0, <3>3, Zenon
      <3>8. Cardinality(off) = 1
        BY <2>0, <3>6, Zenon
      <3> QED BY <2>3, <3>7, <3>8
    <2> QED BY <2>1, <2>2, <2>3
  <1> QED BY <1>1, <1>2, <1>8

\* Every address a pool has handed out is kept for exactly one identity, online or once
\* offline (mem_pool_t): none is lost and none is in the lists of two identities, as long as
\* no lease is copied from where an array was before realloc() moved it.  That a copy is of
\* the next lease, as elements are shifted, does no harm here.
THEOREM OneKeeperCorrect == Spec /\ []NoneMoved => [](TypeOK /\ OneKeeper)
  BY KeptCorrect, KeptTypes, KeptOneKeeper, PTL

-----------------------------------------------------------------------------
(* What is online is held.                                                 *)

\* The IKE_SAs of an identity that have an address, and their number.
HoldersOf(f, i, p, o) == {t \in Sessions : Id[t] = i /\ f[t].addr = <<p, o>>}
Held(on, f) ==
    \A p \in Pools, i \in Ids : \A o \in Offsets(p) :
        Cardinality(At(on[p][i].elems, o)) = Cardinality(HoldersOf(f, i, p, o))
LEMMA HeldIs ==
    /\ OnlineIsHeld <=> Held(online, sa)
    /\ OnlineIsHeld' <=> Held(online', sa')
  <1>1. \A i, p, o : OnlineAt(i, p, o) = At(online[p][i].elems, o)
                     /\ Holders(i, p, o) = HoldersOf(sa, i, p, o)
    BY DEF OnlineAt, At, Holders, HoldersOf
  <1>2. \A i, p, o : OnlineAt(i, p, o)' = At(online'[p][i].elems, o)
                     /\ Holders(i, p, o)' = HoldersOf(sa', i, p, o)
    BY DEF OnlineAt, At, Holders, HoldersOf
  <1> QED BY <1>1, <1>2 DEF OnlineIsHeld, Held

\* There are finitely many IKE_SAs.
LEMMA HoldersFinite ==
    ASSUME NEW f, NEW i, NEW p, NEW o
    PROVE  /\ IsFiniteSet(HoldersOf(f, i, p, o))
           /\ Cardinality(HoldersOf(f, i, p, o)) \in Nat
  <1>1. HoldersOf(f, i, p, o) \in SUBSET Sessions
    BY DEF HoldersOf
  <1> QED BY <1>1, SessionsAssumption, FS_Subset, FS_CardinalityType

\* An address of a pool is one.
LEMMA NotNone ==
    ASSUME NEW p \in Pools, NEW o
    PROVE  <<p, o>> # None
  <1>1. p # 0
    BY PoolFacts
  <1> QED BY <1>1 DEF None

\* Two different elements count twice.
LEMMA AtMostOne ==
    ASSUME NEW S, IsFiniteSet(S), Cardinality(S) <= 1
    PROVE  \A a, b \in S : a = b
  <1>1. SUFFICES ASSUME NEW a \in S, NEW b \in S, a # b PROVE FALSE
    OBVIOUS
  <1>2. PICK T : T = S \ {a}
    OBVIOUS
  <1>3. IsFiniteSet(T) /\ Cardinality(T) = Cardinality(S) - 1 /\ Cardinality(S) \in Nat
    BY <1>1, <1>2, FS_RemoveElement, FS_CardinalityType
  <1>4. T # {} /\ Cardinality(T) \in Nat
    BY <1>1, <1>2, <1>3, FS_CardinalityType
  <1>5. Cardinality(T) # 0
    BY <1>3, <1>4, FS_EmptySet
  <1> QED BY <1>3, <1>4, <1>5

\* One element, or none, is counted at most once.
LEMMA CountOne ==
    ASSUME NEW S, IsFiniteSet(S), \A a, b \in S : a = b
    PROVE  Cardinality(S) <= 1
  <1>1. CASE S = {}
    BY <1>1, FS_EmptySet
  <1>2. CASE S # {}
    <2>1. PICK a : S = {a}
      BY <1>2
    <2> QED BY <2>1, FS_Singleton
  <1> QED BY <1>1, <1>2

\* The lease of an address is online if and only if an IKE_SA of the identity has it.
LEMMA HeldOn ==
    ASSUME PoolsKept, OnlineIsHeld, NEW p \in Pools, NEW i \in Ids, NEW o \in Offsets(p)
    PROVE  On(online[p], i, o) <=> \E t \in Sessions : Id[t] = i /\ sa[t].addr = <<p, o>>
  <1>1. PICK A, H : A = At(online[p][i].elems, o) /\ H = HoldersOf(sa, i, p, o)
    OBVIOUS
  <1>2. Cardinality(A) = Cardinality(H)
    BY <1>1, HeldIs DEF Held
  <1>3. online[p][i] \in Arrays(p)
    BY DEF PoolsKept, Sound, PoolSound, PoolType
  <1>4. IsFiniteSet(A) /\ IsFiniteSet(H)
    BY <1>1, <1>3, ArrayFields, AtFinite, HoldersFinite
  <1>5. A = {} <=> H = {}
    BY <1>2, <1>4, FS_EmptySet
  <1>6. On(online[p], i, o) <=> A # {}
    BY <1>1 DEF On, At
  <1>7. H # {} <=> \E t \in Sessions : Id[t] = i /\ sa[t].addr = <<p, o>>
    BY <1>1 DEF HoldersOf
  <1> QED BY <1>5, <1>6, <1>7

\* An IKE_SA that gets an address is one holder of it more.
Gets(f, g, s, p, o) ==
    /\ s \in Sessions /\ p \in Pools /\ f[s].addr = None /\ g[s].addr = <<p, o>>
    /\ \A t \in Sessions \ {s} : g[t].addr = f[t].addr
LEMMA GetsHolder ==
    ASSUME NEW f, NEW g, NEW s, NEW p, NEW o, Gets(f, g, s, p, o),
           NEW i, NEW q \in Pools, NEW x
    PROVE  Cardinality(HoldersOf(g, i, q, x)) =
               Cardinality(HoldersOf(f, i, q, x)) +
                   IF i = Id[s] /\ q = p /\ x = o THEN 1 ELSE 0
  <1>1. PICK F, G : F = HoldersOf(f, i, q, x) /\ G = HoldersOf(g, i, q, x)
    OBVIOUS
  <1>2. IsFiniteSet(F) /\ Cardinality(F) \in Nat
    BY <1>1, HoldersFinite
  <1>3. <<q, x>> # None /\ s \in Sessions
    BY NotNone DEF Gets
  <1>4. \A t \in Sessions \ {s} : t \in F <=> t \in G
    BY <1>1 DEF Gets, HoldersOf
  <1>5. s \notin F
    BY <1>1, <1>3 DEF Gets, HoldersOf
  <1>6. F \subseteq Sessions /\ G \subseteq Sessions
    BY <1>1 DEF HoldersOf
  <1>7. CASE i = Id[s] /\ q = p /\ x = o
    <2>1. s \in G
      BY <1>1, <1>3, <1>7 DEF Gets, HoldersOf
    <2>2. G = F \cup {s}
      BY <1>3, <1>4, <1>6, <2>1
    <2>3. Cardinality(G) = Cardinality(F) + 1
      BY <1>2, <1>5, <2>2, FS_AddElement
    <2> QED BY <1>1, <1>7, <2>3
  <1>8. CASE ~(i = Id[s] /\ q = p /\ x = o)
    <2>1. Id[s] = i /\ g[s].addr = <<q, x>> => FALSE
      BY <1>8 DEF Gets
    <2>2. s \notin G
      BY <1>1, <2>1 DEF HoldersOf
    <2>3. G = F
      BY <1>4, <1>5, <1>6, <2>2
    <2> QED BY <1>1, <1>2, <1>8, <2>3
  <1> QED BY <1>7, <1>8

\* What is online and who holds it does not change.
LEMMA SameHeld ==
    ASSUME HeldInv, \A q \in Pools, i \in Ids : online'[q][i].elems = online[q][i].elems,
           \A t \in Sessions : sa'[t].addr = sa[t].addr,
           \A t \in Sessions : HoldsSound(t)'
    PROVE  HeldInv'
  <1>1. \A i, q, x : HoldersOf(sa', i, q, x) = HoldersOf(sa, i, q, x)
    BY DEF HoldersOf
  <1>2. OnlineIsHeld'
    BY <1>1, HeldIs DEF HeldInv, Held
  <1>3. SUFFICES ASSUME NEW p \in Pools, NEW i \in Ids, Distinct(i)
                 PROVE  PeersOwn(online'[p][i].elems, sa', p, i) /\ AddrsOwn(sa', i)
    BY <1>2 DEF HeldInv, DistinctSound
  <1>4. PeersOwn(online[p][i].elems, sa, p, i) /\ AddrsOwn(sa, i)
    BY <1>3 DEF HeldInv, DistinctSound
  <1>5. PeersOwn(online'[p][i].elems, sa', p, i)
    BY <1>4 DEF PeersOwn
  <1>6. AddrsOwn(sa', i)
    BY <1>4 DEF AddrsOwn
  <1> QED BY <1>5, <1>6

\* An IKE_SA gets an address, which goes online under its identity and its peer.
ElsewhereSame(s, p) ==
    /\ \A t \in Sessions \ {s} : sa'[t] = sa[t]
    /\ \A q \in Pools, i \in Ids :
          ~(q = p /\ i = Id[s]) => online'[q][i].elems = online[q][i].elems
Gains(s, p, o) ==
    /\ s \in Sessions /\ p \in Pools /\ o \in Offsets(p)
    /\ sa[s].addr = None /\ sa'[s].addr = <<p, o>>
    /\ ElsewhereSame(s, p)
    /\ online'[p][Id[s]].elems = Append(online[p][Id[s]].elems, OwnLease(s, o))
    /\ Distinct(Id[s]) => \A t \in Sessions : ~(Id[t] = Id[s] /\ sa[t].addr = <<p, o>>)

\* Then one lease more is online, and one IKE_SA more holds it.
LEMMA GainsHeld ==
    ASSUME PoolsKept, HeldInv, NEW s, NEW p, NEW o, Gains(s, p, o)
    PROVE  OnlineIsHeld'
  <1>1. Gets(sa, sa', s, p, o)
    BY DEF Gains, ElsewhereSame, Gets
  <1>2. SUFFICES ASSUME NEW q \in Pools, NEW i \in Ids, NEW x \in Offsets(q)
                 PROVE  Cardinality(At(online'[q][i].elems, x)) =
                            Cardinality(HoldersOf(sa', i, q, x))
    BY HeldIs DEF Held
  <1>3. PICK e, f, h, g : /\ e = online[q][i].elems /\ f = online'[q][i].elems
                          /\ h = Cardinality(HoldersOf(sa, i, q, x))
                          /\ g = Cardinality(HoldersOf(sa', i, q, x))
    OBVIOUS
  <1>4. Cardinality(At(e, x)) = h
    BY <1>3, HeldIs DEF HeldInv, Held
  <1>5. g = h + IF i = Id[s] /\ q = p /\ x = o THEN 1 ELSE 0
    <2>1. PICK a, b : a = sa /\ b = sa'
      OBVIOUS
    <2>2. Gets(a, b, s, p, o)
      BY <1>1, <2>1
    <2> QED BY <1>3, <2>1, <2>2, GetsHolder
  <1>6. h \in Nat
    BY <1>3, HoldersFinite
  <1>7. CASE i = Id[s] /\ q = p
    <2>1. PICK l : l = OwnLease(s, o)
      OBVIOUS
    <2>2. l \in Leases(p) /\ l.offset = o
      BY <2>1, OwnLeaseType DEF Gains
    <2>3. online[p][i] \in Arrays(p)
      BY <1>7 DEF PoolsKept, Sound, PoolSound, PoolType
    <2>4. e \in Seq(Leases(p)) /\ f = Append(e, l)
      BY <1>3, <1>7, <2>1, <2>3, ArrayFields DEF Gains
    <2>5. Cardinality(At(f, x)) = Cardinality(At(e, x)) + IF l.offset = x THEN 1 ELSE 0
      BY <2>2, <2>4, AtAppend
    <2> QED BY <1>3, <1>4, <1>5, <1>6, <1>7, <2>2, <2>5
  <1>8. CASE ~(i = Id[s] /\ q = p)
    <2>1. f = e
      BY <1>3, <1>8 DEF Gains, ElsewhereSame
    <2>2. g = h
      BY <1>5, <1>6, <1>8
    <2> QED BY <1>3, <1>4, <2>1, <2>2
  <1> QED BY <1>7, <1>8

\* The peer of the new lease is that of its holder.
LEMMA GainsDistinct ==
    ASSUME PoolsKept, HeldInv, NEW s, NEW p, NEW o, Gains(s, p, o)
    PROVE  DistinctSound'
  <1>0. PICK e, f : e = online[p][Id[s]].elems /\ f = online'[p][Id[s]].elems
    OBVIOUS
  <1>1. /\ s \in Sessions /\ p \in Pools /\ o \in Offsets(p) /\ Id[s] \in Ids
        /\ sa[s].addr = None /\ sa'[s].addr = <<p, o>>
        /\ \A t \in Sessions \ {s} : sa'[t].addr = sa[t].addr
    BY SessionFacts DEF Gains, ElsewhereSame
  <1>2. PICK l : l = OwnLease(s, o)
    OBVIOUS
  <1>3. l \in Leases(p) /\ l.offset = o /\ l.hash = Peer[s]
    BY <1>1, <1>2, OwnLeaseType
  <1>4. online[p][Id[s]] \in Arrays(p)
    BY <1>1 DEF PoolsKept, Sound, PoolSound, PoolType
  <1>5. e \in Seq(Leases(p)) /\ f = Append(e, l)
    BY <1>0, <1>1, <1>2, <1>4, ArrayFields DEF Gains
  <1>6. /\ DOMAIN e = 1..Len(e) /\ DOMAIN f = 1..(Len(e) + 1) /\ Len(e) \in Nat
        /\ (\A k \in 1..Len(e) : f[k] = e[k]) /\ f[Len(e) + 1] = l
    BY <1>3, <1>5, AppendFacts
  <1>7. \A k \in DOMAIN f : (k \in DOMAIN e /\ f[k] = e[k]) \/ f[k] = l
    BY <1>6
  <1>8. \A q \in Pools, i \in Ids :
           ~(q = p /\ i = Id[s]) => online'[q][i].elems = online[q][i].elems
    BY DEF Gains, ElsewhereSame
  <1>9. DistinctSound'
    <2>1. SUFFICES ASSUME NEW q \in Pools, NEW i \in Ids, Distinct(i)
                   PROVE  PeersOwn(online'[q][i].elems, sa', q, i) /\ AddrsOwn(sa', i)
      BY DEF DistinctSound
    <2>2. PeersOwn(online[q][i].elems, sa, q, i) /\ AddrsOwn(sa, i)
      BY <2>1 DEF HeldInv, DistinctSound
    <2>3. \A t \in Sessions : \A x : sa[t].addr = <<q, x>> => sa'[t].addr = <<q, x>>
      <3>1. \A x : <<q, x>> # None
        BY NotNone
      <3> QED BY <1>1, <3>1
    <2>4. PeersOwn(online[q][i].elems, sa', q, i)
      BY <2>2, <2>3 DEF PeersOwn
    <2>5. PeersOwn(online'[q][i].elems, sa', q, i)
      <3>1. CASE ~(q = p /\ i = Id[s])
        BY <1>8, <2>4, <3>1
      <3>2. CASE q = p /\ i = Id[s]
        <4>1. PeersOwn(e, sa', q, i)
          BY <1>0, <2>4, <3>2
        <4>2. PeersOwn(f, sa', q, i)
          BY <1>1, <1>3, <1>7, <3>2, <4>1 DEF PeersOwn
        <4> QED BY <1>0, <3>2, <4>2
      <3> QED BY <3>1, <3>2
    <2>6. ASSUME NEW t \in Sessions, NEW u \in Sessions, Id[t] = i, Id[u] = i,
                 sa'[t].addr = sa'[u].addr, sa'[t].addr # None
          PROVE  t = u
      <3>1. Distinct(Id[s]) => \A v \in Sessions : ~(Id[v] = Id[s] /\ sa[v].addr = <<p, o>>)
        BY DEF Gains
      <3>2. CASE t # s /\ u # s
        BY <1>1, <2>2, <2>6, <3>2 DEF AddrsOwn
      <3>3. CASE t = s /\ u # s
        BY <1>1, <2>1, <2>6, <3>1, <3>3
      <3>4. CASE t # s /\ u = s
        BY <1>1, <2>1, <2>6, <3>1, <3>4
      <3> QED BY <3>2, <3>3, <3>4
    <2> QED BY <2>5, <2>6 DEF AddrsOwn
  <1> QED BY <1>9

\* An IKE_SA gives its address up, and one lease of it is removed.
Loses(s, p, o, k) ==
    /\ s \in Sessions /\ p \in Pools /\ o \in Offsets(p)
    /\ sa[s].addr = <<p, o>> /\ sa'[s].addr = None
    /\ ElsewhereSame(s, p)
    /\ k \in DOMAIN online[p][Id[s]].elems /\ online[p][Id[s]].elems[k].offset = o
    /\ online'[p][Id[s]].elems = RemoveAt(online[p][Id[s]].elems, k)

\* Then one lease less is online, and one IKE_SA less holds it.
LEMMA LosesHeld ==
    ASSUME PoolsKept, HeldInv, NEW s, NEW p, NEW o, NEW k, Loses(s, p, o, k)
    PROVE  OnlineIsHeld'
  <1>1. Gets(sa', sa, s, p, o)
    BY DEF Loses, ElsewhereSame, Gets
  <1>2. SUFFICES ASSUME NEW q \in Pools, NEW i \in Ids, NEW x \in Offsets(q)
                 PROVE  Cardinality(At(online'[q][i].elems, x)) =
                            Cardinality(HoldersOf(sa', i, q, x))
    BY HeldIs DEF Held
  <1>3. PICK e, f, h, g : /\ e = online[q][i].elems /\ f = online'[q][i].elems
                          /\ h = Cardinality(HoldersOf(sa, i, q, x))
                          /\ g = Cardinality(HoldersOf(sa', i, q, x))
    OBVIOUS
  <1>4. Cardinality(At(e, x)) = h
    BY <1>3, HeldIs DEF HeldInv, Held
  <1>5. h = g + IF i = Id[s] /\ q = p /\ x = o THEN 1 ELSE 0
    <2>1. PICK a, b : a = sa' /\ b = sa
      OBVIOUS
    <2>2. Gets(a, b, s, p, o)
      BY <1>1, <2>1
    <2> QED BY <1>3, <2>1, <2>2, GetsHolder
  <1>6. h \in Nat /\ g \in Nat
    BY <1>3, HoldersFinite
  <1>7. CASE i = Id[s] /\ q = p
    <2>1. online[p][i] \in Arrays(p)
      BY <1>7 DEF PoolsKept, Sound, PoolSound, PoolType
    <2>2. /\ e \in Seq(Leases(p)) /\ f = RemoveAt(e, k)
          /\ k \in DOMAIN e /\ e[k].offset = o
      BY <1>3, <1>7, <2>1, ArrayFields DEF Loses
    <2>3. Cardinality(At(f, x)) = Cardinality(At(e, x)) - IF e[k].offset = x THEN 1 ELSE 0
      BY <2>2, AtRemove
    <2> QED BY <1>3, <1>4, <1>5, <1>6, <1>7, <2>2, <2>3
  <1>8. CASE ~(i = Id[s] /\ q = p)
    <2>1. f = e
      BY <1>3, <1>8 DEF Loses, ElsewhereSame
    <2>2. g = h
      BY <1>5, <1>6, <1>8
    <2> QED BY <1>3, <1>4, <2>1, <2>2
  <1> QED BY <1>7, <1>8

\* If the IKE_SAs of the identity have peers of their own, no other lease of it was online.
LEMMA LosesDistinct ==
    ASSUME PoolsKept, HeldInv, NEW s, NEW p, NEW o, NEW k, Loses(s, p, o, k)
    PROVE  DistinctSound'
  <1>0. PICK e, f : e = online[p][Id[s]].elems /\ f = online'[p][Id[s]].elems
    OBVIOUS
  <1>1. /\ s \in Sessions /\ p \in Pools /\ o \in Offsets(p) /\ Id[s] \in Ids
        /\ sa[s].addr = <<p, o>> /\ sa'[s].addr = None
        /\ \A t \in Sessions \ {s} : sa'[t].addr = sa[t].addr
    BY SessionFacts DEF Loses, ElsewhereSame
  <1>2. k \in DOMAIN e /\ e[k].offset = o /\ f = RemoveAt(e, k)
    BY <1>0 DEF Loses
  <1>3. online[p][Id[s]] \in Arrays(p)
    BY <1>1 DEF PoolsKept, Sound, PoolSound, PoolType
  <1>4. e \in Seq(Leases(p))
    BY <1>0, <1>1, <1>3, ArrayFields
  <1>5. \A j \in DOMAIN f : Old(k, j) \in DOMAIN e \ {k} /\ f[j] = e[Old(k, j)]
    BY <1>2, <1>4, RemoveAtFacts
  <1>6. \A j \in DOMAIN f : \E m \in DOMAIN e \ {k} : f[j] = e[m]
    BY <1>5
  <1>7. \A q \in Pools, i \in Ids :
           ~(q = p /\ i = Id[s]) => online'[q][i].elems = online[q][i].elems
    BY DEF Loses, ElsewhereSame
  <1>8. SUFFICES ASSUME NEW q \in Pools, NEW i \in Ids, Distinct(i)
                 PROVE  PeersOwn(online'[q][i].elems, sa', q, i) /\ AddrsOwn(sa', i)
    BY DEF DistinctSound
  <1>9. PeersOwn(online[q][i].elems, sa, q, i) /\ AddrsOwn(sa, i)
    BY <1>8 DEF HeldInv, DistinctSound
  <1>10. AddrsOwn(sa', i)
    BY <1>1, <1>9 DEF AddrsOwn
  <1>11. CASE q = p /\ i = Id[s]
    <2>1. PICK A, H : A = At(e, o) /\ H = HoldersOf(sa, i, p, o)
      OBVIOUS
    <2>2. \A t, u \in H : t = u
      <3>1. \A t \in H : t \in Sessions /\ Id[t] = i /\ sa[t].addr = <<p, o>>
        BY <2>1 DEF HoldersOf
      <3>2. <<p, o>> # None
        BY <1>1, NotNone
      <3> QED BY <1>9, <3>1, <3>2 DEF AddrsOwn
    <2>3. IsFiniteSet(A) /\ IsFiniteSet(H)
      BY <1>4, <2>1, AtFinite, HoldersFinite
    <2>4. Cardinality(A) = Cardinality(H)
      BY <1>0, <1>1, <1>11, <2>1, HeldIs DEF HeldInv, Held
    <2>5. \A a, b \in A : a = b
      BY <2>2, <2>3, <2>4, CountOne, AtMostOne
    <2>6. \A m \in DOMAIN e \ {k} : e[m].offset # o
      BY <1>2, <2>1, <2>5 DEF At
    <2>7. PeersOwn(e, sa, p, i)
      BY <1>0, <1>9, <1>11
    <2>8. ASSUME NEW m \in DOMAIN e \ {k}
          PROVE  \E t \in Sessions : /\ Id[t] = i /\ Peer[t] = e[m].hash
                                     /\ sa'[t].addr = <<p, e[m].offset>>
      <3>1. PICK t \in Sessions : /\ Id[t] = i /\ Peer[t] = e[m].hash
                                  /\ sa[t].addr = <<p, e[m].offset>>
        BY <2>7 DEF PeersOwn
      <3>2. t # s
        BY <1>1, <2>6, <3>1
      <3> QED BY <1>1, <3>1, <3>2
    <2>9. PeersOwn(f, sa', p, i)
      <3>1. SUFFICES ASSUME NEW j \in DOMAIN f
                     PROVE  \E t \in Sessions : /\ Id[t] = i /\ Peer[t] = f[j].hash
                                                /\ sa'[t].addr = <<p, f[j].offset>>
        BY DEF PeersOwn
      <3>2. PICK m \in DOMAIN e \ {k} : f[j] = e[m]
        BY <1>6, <3>1
      <3> QED BY <2>8, <3>2
    <2> QED BY <1>0, <1>10, <1>11, <2>9
  <1>12. CASE ~(q = p /\ i = Id[s])
    <2>1. \A t \in Sessions : \A x : Id[t] = i /\ sa[t].addr = <<q, x>> => t # s
      BY <1>1, <1>12
    <2>2. PeersOwn(online[q][i].elems, sa', q, i)
      BY <1>1, <1>9, <2>1 DEF PeersOwn
    <2> QED BY <1>7, <1>10, <1>12, <2>2
  <1> QED BY <1>11, <1>12

\* A lease of the peer of an IKE_SA without an address is the only one of the identity.
LEMMA OnlyLease ==
    ASSUME CopiesHarmless, PoolsKept, HeldInv, NEW s \in Sessions, NEW p \in Pools,
           sa[s].addr = None, NEW k \in DOMAIN online[p][Id[s]].elems,
           online[p][Id[s]].elems[k].hash = Peer[s]
    PROVE  /\ ~Distinct(Id[s]) /\ k = 1 /\ Len(online[p][Id[s]].elems) = 1
           /\ ~Moves(online[p][Id[s]])
           /\ Aliased(online[p][Id[s]], k) = {online[p][Id[s]].elems[k]}
  <1>1. PICK i, a, e : i = Id[s] /\ a = online[p][i] /\ e = a.elems
    OBVIOUS
  <1>2. i \in Ids
    BY <1>1, SessionFacts
  <1>3. a \in Arrays(p)
    BY <1>1, <1>2 DEF PoolsKept, Sound, PoolSound, PoolType
  <1>4. /\ e \in Seq(Leases(p)) /\ DOMAIN e = 1..Len(e) /\ Len(e) \in Nat
        /\ a.head \in Nat /\ a.tail \in Nat
        /\ \A m \in DOMAIN e : e[m] \in Leases(p) /\ e[m].offset \in Offsets(p)
    BY <1>1, <1>3, ArrayFields
  <1>5. \A x \in Offsets(p) :
           On(online[p], i, x) <=> \E t \in Sessions : Id[t] = i /\ sa[t].addr = <<p, x>>
    BY <1>2, HeldOn DEF HeldInv
  <1>6. ~Distinct(i)
    <2>1. SUFFICES ASSUME Distinct(i) PROVE FALSE
      OBVIOUS
    <2>2. PeersOwn(e, sa, p, i)
      BY <1>1, <1>2, <2>1 DEF HeldInv, DistinctSound
    <2>3. PICK t \in Sessions : /\ Id[t] = i /\ Peer[t] = e[k].hash
                                /\ sa[t].addr = <<p, e[k].offset>>
      BY <1>1, <2>2 DEF PeersOwn
    <2>4. t = s
      BY <1>1, <2>1, <2>3 DEF Distinct
    <2> QED BY <2>3, <2>4, NotNone
  <1>7. PICK T : T = {t \in Sessions : Id[t] = i}
    OBVIOUS
  <1>8. InPlace >= 2 /\ Cardinality(T) <= 2 /\ InPlace \in Nat
    BY <1>2, <1>6, <1>7, ArraysAssumption DEF CopiesHarmless
  <1>9. \A t, u \in T \ {s} : t = u
    <2>1. T \in SUBSET Sessions /\ s \in T
      BY <1>1, <1>7
    <2>2. IsFiniteSet(T) /\ Cardinality(T) \in Nat
      BY <2>1, SessionsAssumption, FS_Subset, FS_CardinalityType
    <2>3. PICK U : U = T \ {s}
      OBVIOUS
    <2>4. IsFiniteSet(U) /\ Cardinality(U) = Cardinality(T) - 1
      BY <2>1, <2>2, <2>3, FS_RemoveElement
    <2>5. Cardinality(U) <= 1
      BY <1>8, <2>2, <2>4
    <2> QED BY <2>3, <2>4, <2>5, AtMostOne
  <1>10. \A x : \A t \in HoldersOf(sa, i, p, x) : t \in T \ {s} /\ sa[t].addr = <<p, x>>
    BY <1>7, NotNone DEF HoldersOf
  <1>11. \A m, n \in DOMAIN e : m = n
    <2>1. SUFFICES ASSUME NEW m \in DOMAIN e, NEW n \in DOMAIN e PROVE m = n
      OBVIOUS
    <2>2. PICK x, y : x = e[m].offset /\ y = e[n].offset
      OBVIOUS
    <2>3. x \in Offsets(p) /\ y \in Offsets(p)
      BY <1>4, <2>1, <2>2
    <2>4. On(online[p], i, x) /\ On(online[p], i, y)
      BY <1>1, <2>1, <2>2 DEF On
    <2>5. PICK t \in Sessions : Id[t] = i /\ sa[t].addr = <<p, x>>
      BY <1>5, <2>3, <2>4
    <2>6. PICK u \in Sessions : Id[u] = i /\ sa[u].addr = <<p, y>>
      BY <1>5, <2>3, <2>4
    <2>7. t = u
      BY <1>9, <1>10, <2>5, <2>6 DEF HoldersOf
    <2>8. x = y
      BY <2>5, <2>6, <2>7
    <2>9. PICK A, H : A = At(e, x) /\ H = HoldersOf(sa, i, p, x)
      OBVIOUS
    <2>10. IsFiniteSet(A) /\ IsFiniteSet(H)
      BY <1>4, <2>9, AtFinite, HoldersFinite
    <2>11. \A v, w \in H : v = w
      BY <1>9, <1>10, <2>9
    <2>12. Cardinality(A) = Cardinality(H)
      BY <1>1, <1>2, <2>3, <2>9, HeldIs DEF HeldInv, Held
    <2>13. \A v, w \in A : v = w
      BY <2>10, <2>11, <2>12, CountOne, AtMostOne
    <2>14. m \in A /\ n \in A
      BY <2>2, <2>8, <2>9 DEF At
    <2> QED BY <2>13, <2>14
  <1>12. Len(e) = 1 /\ k = 1
    <2>1. k \in 1..Len(e) /\ 1 \in DOMAIN e /\ Len(e) \in DOMAIN e
      BY <1>1, <1>4
    <2> QED BY <1>1, <1>11, <2>1
  <1>13. ~Moves(a)
    <2>1. ~UsesHead(a) /\ a.tail = 0 => a.head = 0
      BY <1>4 DEF UsesHead
    <2> QED BY <1>1, <1>4, <1>8, <1>12, <2>1 DEF Moves
  <1>14. Aliased(a, k) = {a.elems[k]}
    <2>1. ~(k < Len(a.elems))
      BY <1>1, <1>12
    <2> QED BY <1>13, <2>1 DEF Aliased
  <1> QED BY <1>1, <1>6, <1>12, <1>13, <1>14

\* So nothing is copied from where an array was,
LEMMA HarmlessNoneMoved ==
    ASSUME CopiesHarmless, KeptInv, HeldInv
    PROVE  NoneMoved
  <1>1. SUFFICES ASSUME NEW s \in Sessions, NEW p, p = sa[s].pool, sa[s].state = "acquire",
                        Same(s, p) # 0
                 PROVE  ~Moves(online[p][Id[s]])
    BY DEF NoneMoved
  <1>2. p \in Pools /\ Sound(p) /\ PoolsKept
    BY <1>1, SaFields DEF KeptInv, PoolsKept
  <1>3. PICK k : k = Same(s, p)
    OBVIOUS
  <1>4. k \in DOMAIN online[p][Id[s]].elems /\ online[p][Id[s]].elems[k].hash = Peer[s]
    BY <1>1, <1>2, <1>3, SameFacts
  <1>5. sa[s].addr = None
    BY <1>1 DEF HeldInv, HoldsSound
  <1> QED BY <1>2, <1>4, <1>5, OnlyLease

\* and what an IKE_SA without an address is given goes online as its own lease.
LEMMA GivenOwn ==
    ASSUME CopiesHarmless, PoolsKept, HeldInv, NEW s \in Sessions, NEW p \in Pools,
           sa[s].addr = None, NEW r, Given(s, p, r)
    PROVE  /\ r.online[Id[s]].elems = Append(online[p][Id[s]].elems, OwnLease(s, r.offset))
           /\ Distinct(Id[s]) =>
                 \A t \in Sessions : ~(Id[t] = Id[s] /\ sa[t].addr = <<p, r.offset>>)
  <1>1. PICK i, a, e, o : /\ i = Id[s] /\ a = online[p][i] /\ e = a.elems /\ o = r.offset
    OBVIOUS
  <1>2. i \in Ids /\ o \in Offsets(p)
    BY <1>1, SessionFacts DEF Given
  <1>3. a \in Arrays(p)
    BY <1>1, <1>2 DEF PoolsKept, Sound, PoolSound, PoolType
  <1>4. \A k \in DOMAIN e : e[k] \in Leases(p)
    BY <1>1, <1>3, ArrayFields
  <1>5. \A x \in Offsets(p) :
           On(online[p], i, x) <=> \E t \in Sessions : Id[t] = i /\ sa[t].addr = <<p, x>>
    BY <1>2, HeldOn DEF HeldInv
  <1>6. CASE /\ r.online[Id[s]].elems = Append(a.elems, OwnLease(s, r.offset))
             /\ \A j \in Ids : ~On(online[p], j, r.offset)
    BY <1>1, <1>2, <1>5, <1>6
  <1>7. ASSUME NEW k \in DOMAIN e, NEW l \in Aliased(a, k),
               e[k].hash = Peer[s], o = e[k].offset, r.online[i].elems = Append(e, l)
        PROVE  r.online[i].elems = Append(e, OwnLease(s, o)) /\ ~Distinct(i)
    <2>1. ~Distinct(i) /\ l = e[k]
      BY <1>1, <1>7, OnlyLease
    <2>2. l = OwnLease(s, o)
      <3>1. e[k] \in Lease
        BY <1>4 DEF Leases
      <3> QED BY <1>7, <2>1, <3>1 DEF Lease, OwnLease
    <2> QED BY <1>7, <2>1, <2>2
  <1>8. CASE \E k \in DOMAIN a.elems : \E l \in Aliased(a, k) :
                /\ a.elems[k].hash = Peer[s] /\ r.offset = a.elems[k].offset
                /\ r.online[Id[s]].elems = Append(a.elems, l)
    BY <1>1, <1>7, <1>8
  <1> QED BY <1>1, <1>6, <1>8 DEF Given

\* A request changes neither leases nor addresses.
LEMMA RequestHeld ==
    ASSUME KeptInv, HeldInv, NEW s \in Sessions, Request(s)
    PROVE  HeldInv'
  <1>1. /\ sa[s].state = "idle" /\ sa'[s].state = "acquire" /\ sa'[s].addr = sa[s].addr
        /\ loaded' = loaded /\ online' = online
        /\ \A t \in Sessions \ {s} : sa'[t] = sa[t]
    BY RequestKeeps DEF Request
  <1>2. \A t \in Sessions : HoldsSound(t)'
    BY <1>1 DEF HeldInv, HoldsSound
  <1> QED BY <1>1, <1>2, SameHeld

\* Destroying an IKE_SA starts the release of its address.
LEMMA DestroyHeld ==
    ASSUME KeptInv, HeldInv, NEW s \in Sessions, Destroy(s)
    PROVE  HeldInv'
  <1>1. /\ loaded' = loaded /\ online' = online
        /\ \A t \in Sessions \ {s} : sa'[t] = sa[t]
        /\ \/ /\ sa[s].state = "up" /\ sa'[s].state = "release" /\ sa'[s].pool = 1
              /\ sa'[s].addr = sa[s].addr
           \/ sa[s].state = "failed" /\ sa'[s].state = "idle" /\ sa'[s].addr = None
    BY DestroyKeeps DEF Destroy
  <1>2. HoldsSound(s)
    BY DEF HeldInv
  <1>3. HoldsSound(s)' /\ sa'[s].addr = sa[s].addr
    <2>1. CASE /\ sa[s].state = "up" /\ sa'[s].state = "release" /\ sa'[s].pool = 1
               /\ sa'[s].addr = sa[s].addr
      <3>1. sa[s].addr # None /\ sa[s].addr[1] \in loaded
        BY <1>2, <2>1 DEF HoldsSound
      <3>2. sa[s].addr[1] \in Pools
        BY <3>1 DEF KeptInv
      <3>3. 1 <= sa[s].addr[1]
        BY <3>2, PoolFacts
      <3> QED BY <1>1, <2>1, <3>1, <3>3 DEF HoldsSound
    <2>2. CASE sa[s].state = "failed" /\ sa'[s].state = "idle" /\ sa'[s].addr = None
      BY <1>2, <2>2 DEF HoldsSound
    <2> QED BY <1>1, <2>1, <2>2
  <1>4. \A t \in Sessions : HoldsSound(t)'
    BY <1>1, <1>3 DEF HeldInv, HoldsSound
  <1> QED BY <1>1, <1>3, <1>4, SameHeld

\* An acquired address goes online for its IKE_SA.
LEMMA AcquireHeld ==
    ASSUME CopiesHarmless, KeptInv, HeldInv, NEW s \in Sessions, Acquire(s)
    PROVE  HeldInv'
  <1>1. PICK p : p = sa[s].pool
    OBVIOUS
  <1>2. /\ loaded' = loaded /\ sa[s].state = "acquire" /\ p \in Pools
        /\ \A t \in Sessions \ {s} : sa'[t] = sa[t]
        /\ \A q \in Pools \ {p} : online'[q] = online[q]
        /\ AcquireFacts(s)
    BY <1>1, AcquireKeeps, HarmlessNoneMoved
  <1>3. sa[s].addr = None /\ PoolsKept
    BY <1>2 DEF HeldInv, HoldsSound, KeptInv, PoolsKept
  <1>4. ASSUME HoldsSound(s)' PROVE \A t \in Sessions : HoldsSound(t)'
    BY <1>2, <1>4 DEF HeldInv, HoldsSound
  <1>5. ASSUME NEW r, Given(s, p, r), online'[p] = r.online, p \in loaded,
               sa'[s].addr = <<p, r.offset>>, sa'[s].state = "up"
        PROVE  HeldInv'
    <2>1. PICK o : o = r.offset
      OBVIOUS
    <2>2. /\ o \in Offsets(p)
          /\ \A j \in Ids \ {Id[s]} : r.online[j].elems = online[p][j].elems
      BY <1>5, <2>1 DEF Given
    <2>3. /\ r.online[Id[s]].elems = Append(online[p][Id[s]].elems, OwnLease(s, o))
          /\ Distinct(Id[s]) =>
                \A t \in Sessions : ~(Id[t] = Id[s] /\ sa[t].addr = <<p, o>>)
      BY <1>2, <1>3, <1>5, <2>1, GivenOwn
    <2>4. ElsewhereSame(s, p)
      BY <1>2, <1>5, <2>2 DEF ElsewhereSame
    <2>5. Gains(s, p, o)
      BY <1>2, <1>3, <1>5, <2>1, <2>2, <2>3, <2>4 DEF Gains
    <2>6. HoldsSound(s)'
      <3>1. <<p, o>> # None
        BY <1>2, NotNone
      <3> QED BY <1>2, <1>5, <2>1, <3>1 DEF HoldsSound
    <2> QED BY <1>3, <1>4, <2>5, <2>6, GainsHeld, GainsDistinct DEF HeldInv
  <1>6. ASSUME online'[p] = online[p], sa'[s].state \in {"acquire", "failed"}, sa'[s].addr = None
        PROVE  HeldInv'
    <2>1. HoldsSound(s)'
      BY <1>6 DEF HoldsSound
    <2>2. \A q \in Pools, i \in Ids : online'[q][i].elems = online[q][i].elems
      BY <1>2, <1>6
    <2>3. \A t \in Sessions : sa'[t].addr = sa[t].addr
      BY <1>2, <1>3, <1>6
    <2> QED BY <1>4, <2>1, <2>2, <2>3, SameHeld
  <1> QED BY <1>1, <1>2, <1>3, <1>5, <1>6 DEF AcquireFacts

\* A released address is found in the pool it is from.
LEMMA ReleaseHeld ==
    ASSUME KeptInv, HeldInv, NEW s \in Sessions, Release(s)
    PROVE  HeldInv'
  <1>1. PICK p : p = sa[s].pool
    OBVIOUS
  <1>2. /\ loaded' = loaded /\ sa[s].state = "release" /\ p \in Pools
        /\ \A t \in Sessions \ {s} : sa'[t] = sa[t]
        /\ \A q \in Pools \ {p} : online'[q] = online[q]
        /\ ReleaseFacts(s)
    BY <1>1, ReleaseKeeps
  <1>3. /\ sa[s].addr # None /\ sa[s].addr[1] \in loaded /\ p <= sa[s].addr[1]
        /\ PoolsKept /\ OnlineIsHeld
    BY <1>1, <1>2 DEF HeldInv, HoldsSound, KeptInv, PoolsKept
  <1>4. PICK m, o : sa[s].addr = <<m, o>> /\ m \in Pools /\ o \in Offsets(m)
    <2>1. sa[s].addr[1] \in Pools /\ sa[s].addr[2] \in Offsets(sa[s].addr[1])
      BY <1>3 DEF KeptInv, AddrSound
    <2>2. sa[s].addr \in Pools \X Nat
      BY <1>3, SaFields DEF KeptInv
    <2>3. sa[s].addr = <<sa[s].addr[1], sa[s].addr[2]>>
      BY <2>2
    <2> QED BY <2>1, <2>3
  <1>5. sa[s].addr[1] = m /\ sa[s].addr[2] = o
    BY <1>4
  <1>6. ASSUME HoldsSound(s)' PROVE \A t \in Sessions : HoldsSound(t)'
    BY <1>2, <1>6 DEF HeldInv, HoldsSound
  <1>7. ASSUME sa'[s].state = "idle", sa'[s].addr = None, NEW r, Taken(s, p, r),
               online'[p] = r.online
        PROVE  HeldInv'
    <2>1. /\ m = p
          /\ \A j \in Ids \ {Id[s]} : r.online[j].elems = online[p][j].elems
          /\ \E k \in DOMAIN online[p][Id[s]].elems :
                /\ online[p][Id[s]].elems[k].offset = o
                /\ r.online[Id[s]].elems = RemoveAt(online[p][Id[s]].elems, k)
      BY <1>5, <1>7 DEF Taken
    <2>2. PICK k \in DOMAIN online[p][Id[s]].elems :
                /\ online[p][Id[s]].elems[k].offset = o
                /\ r.online[Id[s]].elems = RemoveAt(online[p][Id[s]].elems, k)
      BY <2>1
    <2>3. ElsewhereSame(s, p)
      BY <1>2, <1>7, <2>1 DEF ElsewhereSame
    <2>4. Loses(s, p, o, k)
      BY <1>2, <1>4, <1>7, <2>1, <2>2, <2>3 DEF Loses
    <2>5. HoldsSound(s)'
      BY <1>7 DEF HoldsSound
    <2> QED BY <1>3, <1>6, <2>4, <2>5, LosesHeld, LosesDistinct DEF HeldInv
  <1>8. ASSUME online'[p] = online[p],
               p \in loaded /\ sa[s].addr[1] = p => ~On(online[p], Id[s], sa[s].addr[2])
        PROVE  p < m
    <2>1. On(online[m], Id[s], o)
      BY <1>3, <1>4, SessionFacts, HeldOn
    <2>2. p # m
      BY <1>3, <1>5, <1>8, <2>1
    <2> QED BY <1>2, <1>3, <1>4, <1>5, <2>2, PoolFacts
  <1>9. ASSUME online'[p] = online[p], p < m, sa'[s].state = "release",
               sa'[s].addr = sa[s].addr, sa'[s].pool = p + 1
        PROVE  HeldInv'
    <2>1. p + 1 <= m
      BY <1>2, <1>4, <1>9, PoolFacts
    <2>2. HoldsSound(s)'
      BY <1>2, <1>3, <1>5, <1>9, <2>1 DEF HoldsSound
    <2>3. \A q \in Pools, i \in Ids : online'[q][i].elems = online[q][i].elems
      BY <1>2, <1>9
    <2>4. \A t \in Sessions : sa'[t].addr = sa[t].addr
      BY <1>2, <1>9
    <2> QED BY <1>6, <2>2, <2>3, <2>4, SameHeld
  <1>10. ~(m > Len(PoolSizes))
    BY <1>4, PoolFacts
  <1>11. ASSUME p = Len(PoolSizes), p < m PROVE FALSE
    BY <1>4, <1>10, <1>11, PoolFacts
  <1> QED BY <1>1, <1>2, <1>7, <1>8, <1>9, <1>11 DEF ReleaseFacts

\* A pool is only replaced or removed when no IKE_SA has an address of it.
LEMMA FreshHeld ==
    ASSUME KeptInv, HeldInv, NEW p \in Pools, ~Locked, Fresh(p),
           loaded' \subseteq Pools, loaded \ {p} \subseteq loaded',
           p \in loaded => NoneOnline(p)
    PROVE  HeldInv'
  <1>1. /\ sa' = sa /\ \A i \in Ids : online'[p][i].elems = <<>>
        /\ \A q \in Pools \ {p} : online'[q] = online[q]
    BY FreshKeeps
  <1>2. PoolsKept /\ OnlineIsHeld /\ \A t \in Sessions : HoldsSound(t)
    BY DEF KeptInv, HeldInv, PoolsKept
  <1>3. ASSUME NEW t \in Sessions, NEW o \in Offsets(p), sa[t].addr = <<p, o>>
        PROVE  FALSE
    <2>1. sa[t].addr # None /\ sa[t].addr[1] = p
      BY <1>3, NotNone
    <2>2. sa[t].state \in States
      BY SaFields DEF KeptInv
    <2>3. p \in loaded
      BY <1>2, <2>1, <2>2 DEF HoldsSound, States
    <2>4. On(online[p], Id[t], o)
      BY <1>2, <1>3, SessionFacts, HeldOn
    <2>5. online[p][Id[t]].elems = <<>>
      BY <2>3, SessionFacts DEF NoneOnline
    <2> QED BY <2>4, <2>5 DEF On
  <1>4. OnlineIsHeld'
    <2>1. SUFFICES ASSUME NEW q \in Pools, NEW i \in Ids, NEW o \in Offsets(q)
                   PROVE  Cardinality(At(online'[q][i].elems, o)) =
                              Cardinality(HoldersOf(sa', i, q, o))
      BY HeldIs DEF Held
    <2>2. CASE q # p
      BY <1>1, <1>2, <2>1, <2>2, HeldIs DEF Held
    <2>3. CASE q = p
      <3>1. At(online'[q][i].elems, o) = {}
        BY <1>1, <2>3 DEF At
      <3>2. HoldersOf(sa', i, q, o) = {}
        BY <1>1, <1>3, <2>3 DEF HoldersOf
      <3> QED BY <3>1, <3>2
    <2> QED BY <2>2, <2>3
  <1>5. DistinctSound'
    <2>1. SUFFICES ASSUME NEW q \in Pools, NEW i \in Ids, Distinct(i)
                   PROVE  PeersOwn(online'[q][i].elems, sa', q, i) /\ AddrsOwn(sa', i)
      BY DEF DistinctSound
    <2>2. PeersOwn(online[q][i].elems, sa, q, i) /\ AddrsOwn(sa, i)
      BY <2>1 DEF HeldInv, DistinctSound
    <2>3. CASE q # p
      BY <1>1, <2>2, <2>3
    <2>4. CASE q = p
      <3>1. online'[q][i].elems = <<>>
        BY <1>1, <2>4
      <3>2. PeersOwn(<<>>, sa', q, i)
        BY DEF PeersOwn
      <3> QED BY <1>1, <2>2, <3>1, <3>2
    <2> QED BY <2>3, <2>4
  <1>6. ASSUME NEW t \in Sessions PROVE HoldsSound(t)'
    <2>1. sa[t].addr # None => sa[t].addr[1] # p
      <3>1. SUFFICES ASSUME sa[t].addr # None, sa[t].addr[1] = p PROVE FALSE
        OBVIOUS
      <3>2. sa[t].addr[2] \in Offsets(p) /\ sa[t].addr \in Pools \X Nat
        BY <3>1, SaFields DEF KeptInv, AddrSound
      <3>3. PICK o : o = sa[t].addr[2]
        OBVIOUS
      <3>4. sa[t].addr = <<p, o>>
        BY <3>1, <3>2, <3>3
      <3> QED BY <1>3, <3>2, <3>3, <3>4
    <2> QED BY <1>1, <1>2, <2>1 DEF HoldsSound
  <1> QED BY <1>4, <1>5, <1>6 DEF HeldInv

\* At the start nothing is online and nobody has an address.
LEMMA InitHeld == Init => HeldInv
  <1>1. SUFFICES ASSUME Init PROVE HeldInv
    OBVIOUS
  <1>2. /\ \A p \in Pools, i \in Ids : online[p][i].elems = <<>>
        /\ \A t \in Sessions : sa[t].addr = None /\ sa[t].state = "idle"
    BY <1>1 DEF Init, EmptyArray
  <1>3. OnlineIsHeld
    <2>1. SUFFICES ASSUME NEW p \in Pools, NEW i \in Ids, NEW o \in Offsets(p)
                   PROVE  Cardinality(At(online[p][i].elems, o)) =
                              Cardinality(HoldersOf(sa, i, p, o))
      BY HeldIs DEF Held
    <2>2. At(online[p][i].elems, o) = {}
      BY <1>2 DEF At
    <2>3. HoldersOf(sa, i, p, o) = {}
      BY <1>2, NotNone DEF HoldersOf
    <2> QED BY <2>2, <2>3
  <1>4. DistinctSound
    BY <1>2 DEF DistinctSound, PeersOwn, AddrsOwn
  <1>5. \A t \in Sessions : HoldsSound(t)
    BY <1>2 DEF HoldsSound
  <1> QED BY <1>3, <1>4, <1>5 DEF HeldInv

\* Every step keeps what is online and who holds it together.
LEMMA NextHeld ==
    ASSUME CopiesHarmless, KeptInv, HeldInv, [Next]_vars
    PROVE  HeldInv'
  <1>1. ASSUME NEW s \in Sessions, Request(s) PROVE HeldInv'
    BY <1>1, RequestHeld
  <1>2. ASSUME NEW s \in Sessions, Acquire(s) PROVE HeldInv'
    BY <1>2, AcquireHeld
  <1>3. ASSUME NEW s \in Sessions, Destroy(s) PROVE HeldInv'
    BY <1>3, DestroyHeld
  <1>4. ASSUME NEW s \in Sessions, Release(s) PROVE HeldInv'
    BY <1>4, ReleaseHeld
  <1>5. loaded \subseteq Pools
    BY DEF KeptInv
  <1>6. ASSUME NEW p \in Pools, LoadPool(p) PROVE HeldInv'
    BY <1>5, <1>6, FreshHeld DEF LoadPool
  <1>7. ASSUME NEW p \in Pools, UnloadPool(p) PROVE HeldInv'
    BY <1>5, <1>7, FreshHeld DEF UnloadPool
  <1>8. CASE UNCHANGED vars
    <2>1. online' = online /\ sa' = sa /\ loaded' = loaded
      BY <1>8 DEF vars
    <2>2. \A t \in Sessions : HoldsSound(t)'
      BY <2>1 DEF HeldInv, HoldsSound
    <2> QED BY <2>1, <2>2, SameHeld
  <1> QED BY <1>1, <1>2, <1>3, <1>4, <1>6, <1>7, <1>8 DEF Next

\* The invariants hold, and nothing is copied from where an array was.
LEMMA HeldCorrect ==
    ASSUME CopiesHarmless
    PROVE  Spec => [](KeptInv /\ HeldInv /\ NoneMoved)
  <1>1. Init => KeptInv /\ HeldInv
    BY InitKept, InitHeld
  <1>2. KeptInv /\ HeldInv /\ [Next]_vars => KeptInv' /\ HeldInv'
    BY NextKept, NextHeld, HarmlessNoneMoved
  <1>3. KeptInv /\ HeldInv => NoneMoved
    BY HarmlessNoneMoved
  <1> QED BY <1>1, <1>2, <1>3, PTL DEF Spec

\* If reassigning an online lease copies what it should, then however IKE_SAs request,
\* renew and release, an identity has as many online leases of an address as IKE_SAs that
\* use it, and no address is lost or kept for two identities (mem_pool_t).
THEOREM LeasesSoundCorrect ==
    ASSUME CopiesHarmless
    PROVE  Spec => []LeasesSound
  <1>1. KeptInv /\ HeldInv => LeasesSound
    BY KeptTypes, KeptOneKeeper DEF HeldInv, LeasesSound
  <1> QED BY <1>1, HeldCorrect, PTL
=============================================================================
