---- MODULE MemPool ----
(***************************************************************************)
(* Virtual IP addresses: the in-memory pools (libcharon/attributes/         *)
(* mem_pool.c), kept in arrays (libstrongswan/collections/array.c), the      *)
(* provider that tries the pools of a connection in turn (plugins/vici/      *)
(* vici_attribute.c), and the IKE_SAs that hold the addresses.  Each call of *)
(* a pool is one step under its mutex; the provider's lock is shared by the  *)
(* callers that acquire or release and excludes loading and unloading.       *)
(***************************************************************************)
EXTENDS Integers, Sequences, FiniteSets, SequencesExt

CONSTANTS
    Sessions,       \* IKE_SAs, reused after they are destroyed
    Id, Peer,       \* remote identity, and address and port, of each
    PoolSizes,      \* the pools in the order the connections list them
    NoPeer,         \* no hash of an address is equal to it
    MaxUnused,      \* ARRAY_MAX_UNUSED
    InPlace,        \* elements up to which realloc() never moves an array
    Requests        \* addresses that peers may request, None for any

None == <<0, 0>>
Pools == 1..Len(PoolSizes)
Ids == {Id[s] : s \in Sessions}
Peers == {Peer[s] : s \in Sessions}
Offsets(p) == 1..PoolSizes[p]

ASSUME PoolsAssumption ==
    PoolSizes \in Seq(Nat \ {0}) /\ PoolSizes # <<>> /\ NoPeer \notin Peers
ASSUME SessionsAssumption == IsFiniteSet(Sessions)
ASSUME ArraysAssumption == MaxUnused \in Nat /\ InPlace \in Nat
ASSUME RequestsAssumption ==
    Requests \subseteq {None} \cup {a \in Pools \X Nat : a[2] \in Offsets(a[1])}

VARIABLES
    loaded,         \* the pools that are configured
    unused,         \* leases handed out so far, by pool
    online,         \* the array of online leases, by pool and identity
    offline,        \* the offline leases, by pool and identity
    sa              \* what each IKE_SA is doing and the address it has

vars == <<loaded, unused, online, offline, sa>>

Lease == [offset : Nat, hash : Peers \cup {NoPeer}]
Ops == <<"existing", "new", "reassign">>
States == {"idle", "acquire", "up", "release", "failed"}

TypeOK ==
    /\ loaded \subseteq Pools
    /\ unused \in [Pools -> Nat] /\ \A p \in Pools : unused[p] <= PoolSizes[p]
    /\ \A p \in Pools, i \in Ids :
          /\ online[p][i].elems \in Seq(Lease)
          /\ online[p][i].head + online[p][i].tail <= MaxUnused
          /\ offline[p][i] \in Seq(Offsets(p))
    /\ sa \in [Sessions -> [state : States, op : 1..Len(Ops), pool : Pools,
                            requested : Requests \cup {None}, addr : Pools \X Nat \cup {None}]]

---------------------------------------------------------------------------
(* array.c: elements with unused room at both ends                          *)

EmptyArray == [head |-> 0, tail |-> 0, elems |-> <<>>]

\* An element inserted at the tail goes to the room at the head if that is the
\* only one, all others moving down.
UsesHead(a) ==
    \/ a.head > 0 /\ a.tail = 0
    \/ a.elems = <<>> /\ ~(a.tail > 0 /\ a.head = 0)

Less(n) == IF n > 0 THEN n - 1 ELSE 0

InsertLast(a, x) ==
    [elems |-> Append(a.elems, x),
     head |-> IF UsesHead(a) THEN Less(a.head) ELSE a.head,
     tail |-> IF UsesHead(a) THEN a.tail ELSE Less(a.tail)]

RemoveIndex(a, k) ==
    LET atTail == k - 1 > Len(a.elems) \div 2
        head == IF atTail THEN a.head ELSE a.head + 1
        tail == IF atTail THEN a.tail + 1 ELSE a.tail
        compress == head + tail > MaxUnused
    IN [elems |-> RemoveAt(a.elems, k),
        head |-> IF compress THEN 0 ELSE head,
        tail |-> IF compress THEN 0 ELSE tail]

\* realloc() takes the array elsewhere to make room at the tail.
Moves(a) == ~UsesHead(a) /\ a.tail = 0 /\ Len(a.elems) + a.head + 1 > InPlace

\* What the memory may hold that realloc() has freed: no lease, or one of anybody.
AnyLease ==
    [offset : {0} \cup UNION {Offsets(p) : p \in Pools}, hash : Peers \cup {NoPeer}]

\* What is copied when the k-th element is passed to be inserted by its address:
\* the next one if the elements were moved down; anything if realloc() moved them.
Aliased(a, k) ==
    LET x == a.elems[k]
    IN CASE UsesHead(a) -> {IF k < Len(a.elems) THEN a.elems[k + 1] ELSE x}
         [] Moves(a) -> {x} \cup AnyLease
         [] OTHER -> {x}

---------------------------------------------------------------------------
(* mem_pool.c: each operation gives the offset it assigns, 0 for none, and    *)
(* the possible successors of online, offline and unused of the pool         *)

Result(o, on, off, n) == [offset |-> o, online |-> on, offline |-> off, unused |-> n]
Nothing(p) == Result(0, online[p], offline[p], unused[p])
OwnLease(s, o) == [offset |-> o, hash |-> Peer[s]]
GiveTo(s, on, o) == [on EXCEPT ![Id[s]] = InsertLast(@, OwnLease(s, o))]

\* the online lease of the same peer to reassign when it reauthenticates
Same(s, p) ==
    LET r == sa[s].requested
    IN SelectInSeq(online[p][Id[s]].elems,
                   LAMBDA l : l.hash = Peer[s] /\ (r = None \/ r = <<p, l.offset>>))

ReassignOnline(s, p) ==
    LET a == online[p][Id[s]]
        k == Same(s, p)
    IN {Result(a.elems[k].offset, [online[p] EXCEPT ![Id[s]] = InsertLast(a, x)],
               offline[p], unused[p]) : x \in Aliased(a, k)}

GetExisting(s, p) ==
    IF Same(s, p) # 0 THEN ReassignOnline(s, p)
    ELSE LET off == offline[p][Id[s]]
         IN {IF off = <<>> THEN Nothing(p)
             ELSE Result(off[1], GiveTo(s, online[p], off[1]),
                         [offline[p] EXCEPT ![Id[s]] = Tail(@)], unused[p])}

GetNew(s, p) ==
    {IF unused[p] < PoolSizes[p]
     THEN Result(unused[p] + 1, GiveTo(s, online[p], unused[p] + 1), offline[p], unused[p] + 1)
     ELSE Nothing(p)}

\* The owner is the first in the hash table that has an offline lease; its entry
\* is destroyed with its last lease.
Vacated(p, i) ==
    [online[p] EXCEPT ![i] = IF Len(offline[p][i]) = 1 /\ @.elems = <<>> THEN EmptyArray ELSE @]

\* Mutant: takes only leases of the same identity
GetReassignedOwn(s, p) ==
    LET off == offline[p][Id[s]]
    IN {IF off = <<>> THEN Nothing(p)
        ELSE Result(off[1], GiveTo(s, Vacated(p, Id[s]), off[1]),
                    [offline[p] EXCEPT ![Id[s]] = Tail(@)], unused[p])}

GetReassigned(s, p) ==
    LET owners == {i \in Ids : offline[p][i] # <<>>}
    IN IF owners = {} THEN {Nothing(p)}
       ELSE {LET o == offline[p][i][1]
             IN Result(o, GiveTo(s, Vacated(p, i), o),
                       [offline[p] EXCEPT ![i] = Tail(@)], unused[p]) : i \in owners}

acquire_address(s, p) ==
    CASE Ops[sa[s].op] = "existing" -> GetExisting(s, p)
      [] Ops[sa[s].op] = "new" -> GetNew(s, p)
      [] Ops[sa[s].op] = "reassign" -> GetReassigned(s, p)

\* Mutant: goes offline without a look at the other IKE_SAs that use the lease
ReleaseFirst(s, p) ==
    LET o == sa[s].addr[2]
        a == online[p][Id[s]]
        k == SelectInSeq(a.elems, LAMBDA l : l.offset = o)
    IN IF sa[s].addr[1] # p \/ k = 0 THEN Nothing(p)
       ELSE Result(o, [online[p] EXCEPT ![Id[s]] = RemoveIndex(a, k)],
                   [offline[p] EXCEPT ![Id[s]] = Append(@, o)], unused[p])

release_address(s, p) ==
    LET o == sa[s].addr[2]
        a == online[p][Id[s]]
        k == SelectInSeq(a.elems, LAMBDA l : l.offset = o)
        rest == RemoveIndex(a, k)
        more == \E l \in ToSet(rest.elems) : l.offset = o
    IN IF sa[s].addr[1] # p \/ k = 0 THEN Nothing(p)
       ELSE Result(o, [online[p] EXCEPT ![Id[s]] = rest],
                   IF more THEN offline[p]
                   ELSE [offline[p] EXCEPT ![Id[s]] = Append(@, o)],
                   unused[p])

Become(p, r) ==
    /\ online' = [online EXCEPT ![p] = r.online]
    /\ offline' = [offline EXCEPT ![p] = r.offline]
    /\ unused' = [unused EXCEPT ![p] = r.unused]
    /\ UNCHANGED loaded

---------------------------------------------------------------------------
(* vici_attribute.c: all pools are asked for an existing lease, then all for  *)
(* a new one, then all for one to reassign                                   *)

Locked == \E s \in Sessions : sa[s].state \in {"acquire", "release"}

Call(s, state) ==
    [sa EXCEPT ![s].state = state, ![s].op = 1, ![s].pool = 1]

Ended(s, state, addr) ==
    [sa EXCEPT ![s] = [state |-> state, op |-> 1, pool |-> 1, requested |-> None,
                       addr |-> addr]]

\* ike_config build_r() of the responder
Request(s) ==
    /\ sa[s].state = "idle"
    /\ \E r \in Requests : sa' = [Call(s, "acquire") EXCEPT ![s].requested = r]
    /\ UNCHANGED <<loaded, unused, online, offline>>

NextTry(s) ==
    IF sa[s].pool < Len(PoolSizes) THEN [sa EXCEPT ![s].pool = @ + 1]
    ELSE IF sa[s].op < Len(Ops) THEN [sa EXCEPT ![s].pool = 1, ![s].op = @ + 1]
    ELSE Ended(s, "failed", None)

Outcomes(s, p) == IF p \in loaded THEN acquire_address(s, p) ELSE {Nothing(p)}

Acquire(s) ==
    LET p == sa[s].pool
    IN /\ sa[s].state = "acquire"
       /\ \E r \in Outcomes(s, p) :
             /\ Become(p, r)
             /\ sa' = IF r.offset # 0 THEN Ended(s, "up", <<p, r.offset>>) ELSE NextTry(s)

\* ike_sa destroy(): releases the address, whether it is found or not
Destroy(s) ==
    /\ sa[s].state \in {"up", "failed"}
    /\ sa' = IF sa[s].state = "up" THEN Call(s, "release") ELSE Ended(s, "idle", None)
    /\ UNCHANGED <<loaded, unused, online, offline>>

Release(s) ==
    LET p == sa[s].pool
        r == IF p \in loaded THEN release_address(s, p) ELSE Nothing(p)
    IN /\ sa[s].state = "release"
       /\ Become(p, r)
       /\ sa' = IF r.offset = 0 /\ p < Len(PoolSizes) THEN [sa EXCEPT ![s].pool = @ + 1]
                ELSE Ended(s, "idle", None)

Fresh(p) ==
    /\ online' = [online EXCEPT ![p] = [i \in Ids |-> EmptyArray]]
    /\ offline' = [offline EXCEPT ![p] = [i \in Ids |-> <<>>]]
    /\ unused' = [unused EXCEPT ![p] = 0]
    /\ UNCHANGED sa

NoneOnline(p) == \A i \in Ids : online[p][i].elems = <<>>

\* merge_pool(): a pool that is new, or that replaces one with another range
LoadPool(p) ==
    /\ ~Locked
    /\ p \in loaded => NoneOnline(p)
    /\ loaded' = loaded \cup {p}
    /\ Fresh(p)

UnloadPool(p) ==
    /\ ~Locked
    /\ p \in loaded /\ NoneOnline(p)
    /\ loaded' = loaded \ {p}
    /\ Fresh(p)

Init ==
    /\ loaded = {}
    /\ unused = [p \in Pools |-> 0]
    /\ online = [p \in Pools |-> [i \in Ids |-> EmptyArray]]
    /\ offline = [p \in Pools |-> [i \in Ids |-> <<>>]]
    /\ sa = [s \in Sessions |-> [state |-> "idle", op |-> 1, pool |-> 1, requested |-> None,
                                 addr |-> None]]

Next ==
    \/ \E s \in Sessions : Request(s) \/ Acquire(s) \/ Destroy(s) \/ Release(s)
    \/ \E p \in Pools : LoadPool(p) \/ UnloadPool(p)

Spec == Init /\ [][Next]_vars

---------------------------------------------------------------------------
(* Properties                                                               *)

Holders(i, p, o) == {s \in Sessions : Id[s] = i /\ sa[s].addr = <<p, o>>}
OnlineAt(i, p, o) ==
    {k \in DOMAIN online[p][i].elems : online[p][i].elems[k].offset = o}

\* The online leases of an identity count the IKE_SAs that hold them: one that is
\* reassigned to a reauthenticating peer is released twice before it goes offline.
OnlineIsHeld ==
    \A p \in Pools, i \in Ids : \A o \in Offsets(p) :
        Cardinality(OnlineAt(i, p, o)) = Cardinality(Holders(i, p, o))

\* Every lease handed out by a pool is kept for one identity, online or once
\* offline, so that no address is lost and none is assigned to two peers.
OneKeeper ==
    \A p \in Pools : \A o \in Offsets(p) :
        LET on == {i \in Ids : OnlineAt(i, p, o) # {}}
            off == {e \in Ids \X Offsets(p) :
                       e[2] <= Len(offline[p][e[1]]) /\ offline[p][e[1]][e[2]] = o}
        IN Cardinality(on) + Cardinality(off) = IF o <= unused[p] THEN 1 ELSE 0

\* A lease goes offline when no tunnel is online anymore that uses its address.
OfflineIsUnheld ==
    \A p \in Pools, i \in Ids : \A o \in ToSet(offline[p][i]) :
        \A s \in Sessions : sa[s].addr # <<p, o>>

\* A peer goes without an address only if, when the last pool was asked, all the
\* addresses of that pool were in use or it was not loaded.
FailsWhenFull ==
    [][\A s \in Sessions : sa[s].state = "acquire" /\ sa'[s].state = "failed" =>
          LET p == Len(PoolSizes)
          IN p \in loaded => \A o \in Offsets(p) : \E i \in Ids : OnlineAt(i, p, o) # {}]_vars

\* No lease is copied from where an array was before realloc() moved it.
NoneMoved ==
    \A s \in Sessions : LET p == sa[s].pool IN
        sa[s].state = "acquire" /\ sa[s].op = 1 /\ Same(s, p) # 0 => ~Moves(online[p][Id[s]])

\* However IKE_SAs of one identity request, renew and release, what is online is
\* in use and no address is given to two peers.
LeasesSound == TypeOK /\ OnlineIsHeld /\ OneKeeper
====
