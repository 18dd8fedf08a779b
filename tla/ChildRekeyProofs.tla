-------------------------- MODULE ChildRekeyProofs --------------------------
(***************************************************************************)
(* No task and no link of ChildRekey refers to a CHILD_SA that was         *)
(* destroyed, for any number of rekeyings, deletes and failures.           *)
(***************************************************************************)
EXTENDS ChildRekey, FiniteSetTheorems, TLAPS

-----------------------------------------------------------------------------
(* The inductive invariant.  Its parts are predicates on what a peer has,  *)
(* the table S of its CHILD_SAs, its task t, its request m and the         *)
(* response r to it, and on what the other one has: V, u, n and k.         *)

Stages == {"INSTALLED", "REKEYING", "REKEYED"}
SaRec ==
    {Absent} \cup [state : Stages \cup {"DELETING", "DELETED"},
                   out : {"NONE", "REGISTERED", "INSTALLED"}, link : SAs \cup {NoSA}]
Tables == [SAs -> SaRec]

Used(c, s) == s = Old \/ s[2] <= c[s[1]]
RekeysOf(t, s) == t.kind = "rekey" /\ t.sa = s
Adopted(t) == t.collision # NoSA
Listed(m, s) == m.type = "delete" /\ \E i \in DOMAIN m.list : m.list[i] = s
Over(S, s) == S[s].state \in {"NONE", "DELETED"}
Gone(S, s) == S[s].state \in {"NONE", "DELETED", "DELETING"}

\* The CHILD_SAs that a rekeying refers to are in the state its flags say.
RekeySound(S, t) ==
    t.kind = "rekey" =>
      /\ S[t.sa].state \in IF OldDeleted(t) THEN {"DELETING", "DELETED"}
                           ELSE IF Adopted(t) /\ ~OtherDeleted(t) THEN {"REKEYED"} ELSE {"REKEYING"}
      /\ t.adopted <=> Adopted(t)
      /\ OtherDeleted(t) => Adopted(t)
      /\ S[t.sa].link \in {NoSA, t.collision}
      /\ ~Exists(S, t.new)
      /\ Adopted(t) =>
            /\ S[t.collision].state = IF OtherDeleted(t) THEN "DELETING" ELSE "INSTALLED"
            /\ t.collision # t.sa
            /\ S[t.collision].link \in {NoSA, t.sa}
            /\ ~OldDeleted(t) /\ ~OtherDeleted(t) => S[t.sa].link = t.collision

\* A CHILD_SA that is being deleted is so by the active task.
DeleteSound(S, t) ==
    /\ t.kind = "delete" => S[t.sa].state = "DELETING"
    /\ \A s \in SAs : S[s].state = "DELETING" =>
          \/ t.kind = "delete" /\ t.sa = s
          \/ t.kind = "rekey" /\ s \in {t.sa, t.collision}

\* A link is one of a CHILD_SA that was rekeyed and the one that replaces it.
Linked(S, o, s) ==
    /\ o \in SAs /\ s \in SAs /\ S[o].link = s /\ S[s].link = o
    /\ S[o].state = "REKEYED" /\ S[s].state = "INSTALLED"
LinksSound(S) ==
    \A s \in SAs : S[s].link # NoSA => Linked(S, s, S[s].link) \/ Linked(S, S[s].link, s)

Local(S, t) == RekeySound(S, t) /\ DeleteSound(S, t) /\ LinksSound(S)

\* A request is on its way, or its response is.
Failing == {"CHILD_SA_NOT_FOUND", "TEMPORARY_FAILURE", "NO_PROPOSAL_CHOSEN", "INVALID_KE_PAYLOAD"}
Sent(t, m) ==
    \/ t.kind = "rekey" /\ m = RekeyRequest(t.sa, t.new)
    \/ t.kind = "delete" /\ m = DeleteRequest(<<t.sa>>)
    \/ t.kind = "untended" /\ m.type = "delete"
OneOrTwo(L) == (\E x \in SAs : L = <<x>>) \/ (\E x, y \in SAs : x # y /\ L = <<x, y>>)
Exchange(t, m, r) ==
    /\ m.type = "delete" => OneOrTwo(m.list)
    /\ \/ t.kind = "idle" /\ m.type = "none" /\ r.type = "none"
       \/ Sent(t, m) /\ r.type = "none"
       \/ t.kind = "rekey" /\ m.type = "none" /\ r.type \in Failing \cup {"CREATED"}
       \/ t.kind \in {"delete", "untended"} /\ m.type = "none" /\ r.type = "DELETED"

\* Names are used once: until its rekeying is answered no peer has a CHILD_SA.
Fresh(p, q, c, S, t, m, r, V, u, k) ==
    /\ \A s \in SAs : Exists(S, s) => Used(c, s)
    /\ t.kind = "rekey" =>
          /\ t.new[1] = p /\ Used(c, t.new)
          /\ r.type # "CREATED" => ~Exists(V, t.new)
          /\ Adopted(t) => t.collision[1] = q
    /\ \A s \in SAs : Listed(m, s) =>
          /\ Gone(S, s) /\ Used(c, s)
          /\ u.kind = "rekey" /\ k.type # "CREATED" => s # u.new

\* A link stays until the peer that made the new CHILD_SA deletes one of the two.
LinkCause(q, S, u, n, k) ==
    \A o, s \in SAs : Linked(S, o, s) =>
          /\ s[1] = q
          /\ \/ RekeysOf(u, o) /\ u.new = s /\ k.type = "CREATED"
             \/ Listed(n, o) \/ Listed(n, s)

\* How the rekeyings of the peers collide; f gives the ranks of the nonces.
Collides(f, t, r, V, u, n, k) ==
    t.kind = "rekey" =>
       /\ OldDeleted(t) => Gone(V, t.sa) /\ ~RekeysOf(u, t.sa)
       /\ r.type = "CHILD_SA_NOT_FOUND" => Over(V, t.sa)
       /\ u.kind = "rekey" => u.sa # t.new
       /\ Adopted(t) =>
             /\ \/ RekeysOf(u, t.sa) /\ u.new = t.collision /\ k.type = "CREATED"
                \/ ~RekeysOf(u, t.sa) /\ V[t.sa].state # "INSTALLED"
             /\ OtherDeleted(t) \/ Listed(n, t.collision) =>
                   r.type = "CREATED" /\ f[t.collision] < f[t.new]
             /\ u.kind = "rekey" /\ u.new = t.collision => u.sa = t.sa
             /\ ~RekeysOf(u, t.collision)
             /\ ~OldDeleted(t) /\ r.type # "CREATED" =>
                   /\ r.type # "CHILD_SA_NOT_FOUND"
                   /\ \/ RekeysOf(u, t.sa) /\ ~Adopted(u)
                      \/ (u.kind = "delete" /\ u.sa = t.sa) /\ n.type = "delete"

Side(p, q, c, f, S, t, m, r, V, u, n, k) ==
    /\ S \in Tables /\ t \in Tasks /\ m \in Messages
    /\ Local(S, t) /\ Exchange(t, m, r)
    /\ Fresh(p, q, c, S, t, m, r, V, u, k)
    /\ LinkCause(q, S, u, n, k)
    /\ Collides(f, t, r, V, u, n, k)

SideOf(p, q) ==
    Side(p, q, count.rekeys, nonce, sas[p], task[p], request[p], response[p],
         sas[q], task[q], request[q], response[q])

Counts == [rekeys : [Peers -> Nat], deletes : Nat, failures : Nat]

\* There is one value for each peer.
PerPeer(g) == g = [x \in Peers |-> g[x]]

RekeyInv ==
    /\ count \in Counts
    /\ nonce \in [Created -> Nat] /\ recreate \subseteq Peers
    /\ PerPeer(sas) /\ PerPeer(task) /\ PerPeer(request) /\ PerPeer(response)
    /\ \A p \in Peers : SideOf(p, Peer(p))
-----------------------------------------------------------------------------
(* Names, tasks and tables.                                                *)

LEMMA NamesApart ==
    /\ NoSA \notin SAs /\ NoSA \notin Created /\ Created \subseteq SAs /\ Old \in SAs
    /\ \A s \in Created : s[1] \in Rekeyers /\ s[2] \in Nat /\ s # Old
  <1>1. \A s \in Created : s[1] \in Rekeyers /\ s[2] \in 1..MaxRekeys
    BY DEF Created
  <1>2. \A s \in Created : s[2] # 0
    BY <1>1, BoundsAssumption
  <1>3. Old[2] = 0 /\ NoSA[2] = 0 /\ Old # NoSA
    BY DEF Old, NoSA
  <1>4. Old \notin Created /\ NoSA \notin Created
    BY <1>2, <1>3
  <1> QED BY <1>1, <1>3, <1>4, BoundsAssumption DEF SAs

LEMMA TwoPeers ==
    \A p \in Peers : Peer(p) \in Peers /\ Peer(p) # p /\ Peer(Peer(p)) = p /\ Peers = {p, Peer(p)}
  <1>1. PICK a, b \in Peers : a # b /\ Peers = {a, b}
    <2>1. Peers # {}
      BY FS_EmptySet, PeersAssumption
    <2>2. PICK a \in Peers : TRUE
      BY <2>1
    <2>3. IsFiniteSet(Peers \ {a}) /\ Cardinality(Peers \ {a}) = 1
      BY <2>2, FS_RemoveElement, PeersAssumption
    <2>4. PICK b : Peers \ {a} = {b}
      BY <2>3, FS_Singleton
    <2> QED BY <2>2, <2>4
  <1>2. ASSUME NEW p \in Peers PROVE Peer(p) \in Peers /\ Peer(p) # p
    <2>1. \E q \in Peers : q # p
      BY <1>1
    <2> QED BY <2>1 DEF Peer
  <1> QED BY <1>1, <1>2

LEMMA TaskFields ==
    ASSUME NEW t \in Tasks
    PROVE  /\ t.kind \in {"idle", "untended", "delete", "rekey"}
           /\ t.kind = "delete" => t.sa \in SAs /\ t.orig \in Stages
           /\ t.kind = "rekey" =>
                /\ t.sa \in SAs /\ t.new \in Created /\ t.new \in SAs
                /\ t.collision \in Created \cup {NoSA}
                /\ Adopted(t) => t.collision \in SAs
                /\ t.adopted \in BOOLEAN
                /\ t.deleted \subseteq SAs
                /\ t.flags \subseteq {"OLD_SA_DELETED", "OTHER_DELETED"}
  BY NamesApart DEF Tasks, Idle, Untended, Stages, Adopted

LEMMA SimpleTasks ==
    /\ Idle \in Tasks /\ Idle.kind = "idle"
    /\ Untended \in Tasks /\ Untended.kind = "untended"
    /\ \A s \in SAs, o \in Stages :
          /\ Deleting(s, o) \in Tasks
          /\ Deleting(s, o).kind = "delete" /\ Deleting(s, o).sa = s /\ Deleting(s, o).orig = o
    /\ \A s \in SAs, n \in Created :
          LET t == Rekeying(s, n) IN
          /\ t \in Tasks /\ t.kind = "rekey" /\ t.sa = s /\ t.new = n /\ t.collision = NoSA
          /\ t.adopted = FALSE /\ t.flags = {}
  BY DEF Tasks, Idle, Untended, Deleting, Rekeying, Stages

LEMMA Fields ==
    ASSUME NEW S \in Tables, NEW x \in SAs
    PROVE  /\ S[x].state \in Stages \cup {"NONE", "DELETING", "DELETED"}
           /\ S[x].link \in SAs \cup {NoSA}
           /\ S[x].state = "NONE" => S[x] = Absent /\ S[x].link = NoSA
  BY DEF Tables, SaRec, Absent, Stages

LEMMA SetStateTable ==
    ASSUME NEW S \in Tables, NEW s \in SAs, NEW st \in Stages \cup {"DELETING", "DELETED"}
    PROVE  /\ SetState(S, s, st) \in Tables
           /\ \A x \in SAs : /\ SetState(S, s, st)[x].state = IF x = s THEN st ELSE S[x].state
                             /\ SetState(S, s, st)[x].link = S[x].link
  BY DEF Tables, SaRec, Absent, SetState, Stages

LEMMA RemoveOutTable ==
    ASSUME NEW S \in Tables, NEW s \in SAs
    PROVE  /\ remove_outbound(S, s) \in Tables
           /\ \A x \in SAs : /\ remove_outbound(S, s)[x].state = S[x].state
                             /\ remove_outbound(S, s)[x].link = S[x].link
  BY DEF Tables, SaRec, Absent, remove_outbound, Stages

LEMMA InstallOutTable ==
    ASSUME NEW S \in Tables, NEW s \in SAs, Exists(S, s)
    PROVE  /\ install_outbound(S, s) \in Tables
           /\ \A x \in SAs : /\ install_outbound(S, s)[x].state = S[x].state
                             /\ install_outbound(S, s)[x].link = S[x].link
  BY DEF Tables, SaRec, Absent, install_outbound, Stages, Exists

LEMMA InstallTable ==
    ASSUME NEW S \in Tables, NEW s \in SAs
    PROVE  /\ Install(S, s) \in Tables
           /\ \A x \in SAs : /\ Install(S, s)[x].state = IF x = s THEN "INSTALLED" ELSE S[x].state
                             /\ Install(S, s)[x].link = IF x = s THEN NoSA ELSE S[x].link
  BY DEF Tables, SaRec, Absent, Install, Stages

LEMMA DestroyTable ==
    ASSUME NEW S \in Tables, NEW s \in SAs
    PROVE  /\ destroy_child_sa(S, s) \in Tables
           /\ \A x \in SAs : /\ destroy_child_sa(S, s)[x].state = IF x = s THEN "NONE" ELSE S[x].state
                             /\ destroy_child_sa(S, s)[x].link = IF x = s THEN NoSA ELSE S[x].link
  BY DEF Tables, SaRec, Absent, destroy_child_sa, Stages

LEMMA LinkTable ==
    ASSUME NEW S \in Tables, NEW o \in SAs, NEW s \in SAs, o # s, Exists(S, o), Exists(S, s)
    PROVE  /\ Link(S, o, s) \in Tables
           /\ \A x \in SAs : /\ Link(S, o, s)[x].state = S[x].state
                             /\ Link(S, o, s)[x].link = IF x = o THEN s ELSE IF x = s THEN o ELSE S[x].link
  BY DEF Tables, SaRec, Absent, Link, Stages, Exists

LEMMA UnlinkTable ==
    ASSUME NEW S \in Tables, NEW o \in SAs, NEW s \in SAs
    PROVE  /\ Unlink(S, o, s) \in Tables
           /\ \A x \in SAs : /\ Unlink(S, o, s)[x].state = S[x].state
                             /\ Unlink(S, o, s)[x].link = IF x \in {o, s} THEN NoSA ELSE S[x].link
  BY DEF Tables, SaRec, Absent, Unlink, Stages

LEMMA DestroyRekeyedTable ==
    ASSUME NEW S \in Tables, NEW s \in SAs, S[s].link = NoSA
    PROVE  LET T == destroy_rekeyed(S, s) IN
           /\ T \in Tables /\ T[s].state \in {"NONE", "DELETED"}
           /\ \A x \in SAs : (x # s => T[x].state = S[x].state) /\ T[x].link = S[x].link
  <1>1. CASE DelayDestroy
    <2> DEFINE R == remove_outbound(S, s)
    <2>1. R \in Tables /\ \A x \in SAs : R[x].state = S[x].state /\ R[x].link = S[x].link
      BY RemoveOutTable
    <2>2. destroy_rekeyed(S, s) = SetState(R, s, "DELETED")
      BY <1>1 DEF destroy_rekeyed
    <2> HIDE DEF R
    <2> QED BY <2>1, <2>2, SetStateTable
  <1>2. CASE ~DelayDestroy
    BY <1>2, DestroyTable DEF destroy_rekeyed
  <1> QED BY <1>1, <1>2

LEMMA ConcludeTable ==
    ASSUME NEW S \in Tables, NEW old \in SAs, NEW new \in SAs, Exists(S, new)
    PROVE  LET T == child_rekey_conclude_rekeying(S, old, new) IN
           /\ T \in Tables
           /\ \A x \in SAs : T[x].state = S[x].state /\ T[x].link = S[x].link
  <1> DEFINE I == install_outbound(S, new)
  <1>1. I \in Tables /\ \A x \in SAs : I[x].state = S[x].state /\ I[x].link = S[x].link
    BY InstallOutTable
  <1>2. child_rekey_conclude_rekeying(S, old, new) = remove_outbound(I, old)
    BY DEF child_rekey_conclude_rekeying
  <1> HIDE DEF I
  <1>3. /\ remove_outbound(I, old) \in Tables
        /\ \A x \in SAs : /\ remove_outbound(I, old)[x].state = I[x].state
                          /\ remove_outbound(I, old)[x].link = I[x].link
    BY <1>1, RemoveOutTable
  <1> QED BY <1>1, <1>2, <1>3

LEMMA ConcludeLinkedTable ==
    ASSUME NEW S \in Tables, NEW old \in SAs, S[old].link \in SAs, Exists(S, S[old].link)
    PROVE  LET T == conclude_rekeying(S, old) IN
           /\ T \in Tables
           /\ \A x \in SAs : /\ T[x].state = S[x].state
                             /\ T[x].link = IF x \in {old, S[old].link} THEN NoSA ELSE S[x].link
  <1> DEFINE new == S[old].link
             U == Unlink(S, old, new)
  <1>0. new \in SAs /\ S[old].link = new /\ Exists(S, new)
    OBVIOUS
  <1> HIDE DEF new
  <1>1. U \in Tables /\ \A x \in SAs : /\ U[x].state = S[x].state
                                       /\ U[x].link = IF x \in {old, new} THEN NoSA ELSE S[x].link
    BY <1>0, UnlinkTable
  <1>2. conclude_rekeying(S, old) = child_rekey_conclude_rekeying(U, old, new)
    BY <1>0 DEF conclude_rekeying
  <1>3. Exists(U, new)
    BY <1>0, <1>1 DEF Exists
  <1> HIDE DEF U
  <1> QED BY <1>0, <1>1, <1>2, <1>3, ConcludeTable

\* What build_i() of child_delete for s makes of the table T: S2, the task t2
\* and the request m2.
Built(T, s, S2, t2, m2) ==
    /\ S2 \in Tables
    /\ \A x \in SAs : /\ x # s => S2[x].state = T[x].state
                      /\ S2[x].link = IF x = s \/ x = T[s].link THEN NoSA ELSE T[x].link
    /\ \/ /\ S2[s].state = "NONE" /\ t2 = Idle /\ m2 = None
          /\ T[s].state = "DELETED" \/ T[s].link # NoSA
       \/ /\ S2[s].state = "DELETING" /\ t2 = Deleting(s, T[s].state) /\ m2 = DeleteRequest(<<s>>)
          /\ T[s].state \in Stages

LEMMA BuildDeleteBuilds ==
    ASSUME NEW p \in Peers, NEW T \in Tables, NEW s \in SAs,
           T[s].state \in Stages \cup {"DELETED"},
           T[s].link # NoSA => Linked(T, s, T[s].link) \/ Linked(T, T[s].link, s),
           BuildDelete(p, T, s)
    PROVE  \E S2, t2, m2 : Built(T, s, S2, t2, m2) /\ Become(p, S2, t2, m2)
  <1> DEFINE S == ConcludeFirst(T, s)
             o == T[s].link
  <1>0. o \in SAs \cup {NoSA} /\ NoSA \notin SAs
    BY Fields, NamesApart
  <1>1. /\ S \in Tables
        /\ \A x \in SAs : /\ x # s => S[x].state = T[x].state
                          /\ S[x].link = IF x = o \/ (o # NoSA /\ x = s) THEN NoSA ELSE T[x].link
        /\ S[s].state = IF o # NoSA /\ T[s].state = "REKEYED" THEN "DELETED" ELSE T[s].state
    <2>1. CASE o = NoSA
      BY <1>0, <2>1 DEF ConcludeFirst
    <2>2. CASE o # NoSA /\ T[s].state = "REKEYED"
      <3> DEFINE D == SetState(T, s, "DELETED")
      <3>1. D \in Tables /\ \A x \in SAs : /\ D[x].state = IF x = s THEN "DELETED" ELSE T[x].state
                                           /\ D[x].link = T[x].link
        BY SetStateTable
      <3>2. S = conclude_rekeying(D, s)
        BY <2>2 DEF ConcludeFirst
      <3>3. Linked(T, s, o)
        BY <2>2 DEF Linked
      <3> HIDE DEF D
      <3>4. D[s].link = o /\ o \in SAs /\ Exists(D, o)
        BY <3>1, <3>3 DEF Linked, Exists
      <3> HIDE DEF S
      <3> QED BY <2>2, <3>1, <3>2, <3>4, ConcludeLinkedTable
    <2>3. CASE o # NoSA /\ T[s].state # "REKEYED"
      <3>1. S = conclude_rekeying(T, o)
        BY <2>3 DEF ConcludeFirst
      <3>2. Linked(T, o, s)
        BY <2>3 DEF Linked
      <3>3. o \in SAs /\ T[o].link = s /\ Exists(T, s)
        BY <3>2 DEF Linked, Exists
      <3> HIDE DEF S, o
      <3> QED BY <2>3, <3>1, <3>3, ConcludeLinkedTable
    <2> QED BY <2>1, <2>2, <2>3
  <1>2. BuildDelete(p, T, s) =
          IF S[s].state = "DELETED"
          THEN Become(p, destroy_child_sa(S, s), Idle, None)
          ELSE Become(p, SetState(S, s, "DELETING"), Deleting(s, S[s].state), DeleteRequest(<<s>>))
    BY DEF BuildDelete
  <1> HIDE DEF S
  <1>3. CASE S[s].state = "DELETED"
    <2> DEFINE S2 == destroy_child_sa(S, s)
    <2>1. S2 \in Tables /\ \A x \in SAs : /\ S2[x].state = IF x = s THEN "NONE" ELSE S[x].state
                                          /\ S2[x].link = IF x = s THEN NoSA ELSE S[x].link
      BY <1>1, DestroyTable
    <2>2. Become(p, S2, Idle, None)
      BY <1>2, <1>3
    <2> HIDE DEF S2
    <2>3. Built(T, s, S2, Idle, None)
      BY <1>0, <1>1, <1>3, <2>1 DEF Built
    <2> QED BY <2>2, <2>3
  <1>4. CASE S[s].state # "DELETED"
    <2> DEFINE S2 == SetState(S, s, "DELETING")
    <2>1. S2 \in Tables /\ \A x \in SAs : /\ S2[x].state = IF x = s THEN "DELETING" ELSE S[x].state
                                          /\ S2[x].link = S[x].link
      BY <1>1, SetStateTable
    <2>2. S[s].state = T[s].state /\ T[s].state \in Stages
      BY <1>1, <1>4
    <2>3. Become(p, S2, Deleting(s, T[s].state), DeleteRequest(<<s>>))
      BY <1>2, <1>4, <2>2
    <2> HIDE DEF S2
    <2>4. Built(T, s, S2, Deleting(s, T[s].state), DeleteRequest(<<s>>))
      BY <1>0, <1>1, <1>4, <2>1, <2>2 DEF Built
    <2> QED BY <2>3, <2>4
  <1> QED BY <1>3, <1>4
-----------------------------------------------------------------------------
(* A peer that has ended its rekeying, or had none.                        *)

Both(p, q, c, f, S, t, m, r, V, u, n, k) ==
    /\ c \in [Peers -> Nat] /\ f \in [Created -> Nat]
    /\ Side(p, q, c, f, S, t, m, r, V, u, n, k)
    /\ Side(q, p, c, f, V, u, n, k, S, t, m, r)

\* The names that were in use or that task t made so.
Known(S, t, s) == Exists(S, s) \/ (t.kind = "rekey" /\ s = t.new)

\* What suffices for a step of a peer whose table, task, request and response
\* become S2, t2, m2 and r2, with no rekeying under way.
Settles(f, S, t, V, u, k, S2, t2, m2, r2) ==
    /\ S2 \in Tables /\ t2 \in Tasks /\ m2 \in Messages
    /\ t2.kind # "rekey" /\ DeleteSound(S2, t2) /\ LinksSound(S2) /\ Exchange(t2, m2, r2)
    /\ \A s \in SAs : /\ Exists(S2, s) => Known(S, t, s)
                      /\ Listed(m2, s) => Gone(S2, s) /\ Known(S, t, s)
    /\ \A o, s \in SAs : Linked(S2, o, s) => Linked(S, o, s)
    /\ \A o, s \in SAs : Linked(V, o, s) => Listed(m2, o) \/ Listed(m2, s)
    /\ u.kind = "rekey" =>
          /\ Gone(S, u.sa) => Gone(S2, u.sa)
          /\ Over(S, u.sa) => Over(S2, u.sa)
          /\ Adopted(u) =>
                /\ S2[u.sa].state # "INSTALLED"
                /\ Listed(m2, u.collision) => k.type = "CREATED" /\ f[u.collision] < f[u.new]
                /\ ~OldDeleted(u) /\ k.type # "CREATED" =>
                      t2.kind = "delete" /\ t2.sa = u.sa /\ m2.type = "delete"

LEMMA SettlesBoth ==
    ASSUME NEW p \in Peers, NEW q \in Peers, p # q, NEW c, NEW f,
           NEW S, NEW t, NEW m, NEW r, NEW V, NEW u, NEW n, NEW k,
           Both(p, q, c, f, S, t, m, r, V, u, n, k),
           NEW S2, NEW t2, NEW m2, NEW r2,
           Settles(f, S, t, V, u, k, S2, t2, m2, r2)
    PROVE  Both(p, q, c, f, S2, t2, m2, r2, V, u, n, k)
  <1>0. Side(p, q, c, f, S, t, m, r, V, u, n, k) /\ Side(q, p, c, f, V, u, n, k, S, t, m, r)
    BY DEF Both
  <1>1. S \in Tables /\ t \in Tasks /\ V \in Tables /\ u \in Tasks
    BY <1>0 DEF Side
  <1>2. Local(S2, t2) /\ Exchange(t2, m2, r2) /\ S2 \in Tables /\ t2 \in Tasks /\ m2 \in Messages
    BY DEF Settles, Local, RekeySound
  <1>3. \A s \in SAs : Known(S, t, s) =>
           /\ Used(c, s)
           /\ u.kind = "rekey" /\ k.type # "CREATED" => s # u.new
    <2>1. ASSUME NEW s \in SAs, Exists(S, s)
          PROVE  Used(c, s) /\ (u.kind = "rekey" /\ k.type # "CREATED" => s # u.new)
      BY <1>0, <2>1 DEF Side, Fresh
    <2>2. ASSUME t.kind = "rekey"
          PROVE  Used(c, t.new) /\ (u.kind = "rekey" => t.new # u.new)
      BY <1>0, <2>2 DEF Side, Fresh
    <2> QED BY <2>1, <2>2 DEF Known
  <1>4. Fresh(p, q, c, S2, t2, m2, r2, V, u, k)
    BY <1>3 DEF Settles, Fresh
  <1>5. Fresh(q, p, c, V, u, n, k, S2, t2, r2)
    <2>1. u.kind = "rekey" /\ k.type # "CREATED" => ~Exists(S2, u.new)
      BY <1>1, <1>3, TaskFields DEF Settles
    <2>2. t2.kind # "rekey"
      BY DEF Settles
    <2> QED BY <1>0, <2>1, <2>2 DEF Side, Fresh
  <1>6. LinkCause(q, S2, u, n, k)
    BY <1>0 DEF Side, LinkCause, Settles
  <1>7. LinkCause(p, V, t2, m2, r2)
    BY <1>0 DEF Side, LinkCause, Settles
  <1>8. Collides(f, t2, r2, V, u, n, k)
    BY DEF Collides, Settles
  <1>9. Collides(f, u, k, S2, t2, m2, r2)
    <2>1. SUFFICES ASSUME u.kind = "rekey"
                   PROVE  Collides(f, u, k, S2, t2, m2, r2)
      BY DEF Collides
    <2>2. Collides(f, u, k, S, t, m, r)
      BY <1>0 DEF Side
    <2>3. t2.kind # "rekey" /\ \A s : ~RekeysOf(t2, s)
      BY DEF Settles, RekeysOf
    <2> QED BY <2>1, <2>2, <2>3 DEF Collides, Settles
  <1> QED BY <1>0, <1>2, <1>4, <1>5, <1>6, <1>7, <1>8, <1>9 DEF Both, Side

StateOf(p, q) ==
    Both(p, q, count.rekeys, nonce, sas[p], task[p], request[p], response[p],
         sas[q], task[q], request[q], response[q])

LEMMA InvBoth ==
    ASSUME RekeyInv, NEW p \in Peers
    PROVE  StateOf(p, Peer(p))
  BY TwoPeers DEF RekeyInv, SideOf, StateOf, Both, Counts

\* The variables after a step of p: only what p has changes, and of the other
\* peer the request that p answers.
LEMMA BothInv ==
    ASSUME RekeyInv, NEW p \in Peers, recreate' \subseteq Peers, nonce' = nonce,
           count' \in Counts,
           PerPeer(sas)', PerPeer(task)', PerPeer(request)', PerPeer(response)',
           StateOf(p, Peer(p))'
    PROVE  RekeyInv'
  <1>1. p' = p /\ Peer(p)' = Peer(p)
    BY DEF Peer
  <1>2. Both(p, Peer(p), count'.rekeys, nonce', sas'[p], task'[p], request'[p], response'[p],
             sas'[Peer(p)], task'[Peer(p)], request'[Peer(p)], response'[Peer(p)])
    BY DEF StateOf
  <1>3. SideOf(p, Peer(p))' /\ SideOf(Peer(p), p)'
    BY <1>2 DEF SideOf, Both
  <1>4. \A x \in Peers : SideOf(x, Peer(x))'
    BY <1>3, TwoPeers
  <1>5. nonce' \in [Created -> Nat]
    BY <1>2 DEF Both
  <1> QED BY <1>4, <1>5 DEF RekeyInv

LEMMA PerPeerKept ==
    ASSUME NEW g, PerPeer(g)
    PROVE  /\ DOMAIN g = Peers
           /\ \A p \in Peers : \A v : PerPeer([g EXCEPT ![p] = v])
  BY DEF PerPeer

\* The step of p whose table, task, request and response become S2, t2, m2 and r2.
LEMMA OwnStep ==
    ASSUME RekeyInv, NEW p \in Peers, NEW S2, NEW t2, NEW m2, NEW r2,
           Both(p, Peer(p), count'.rekeys, nonce, S2, t2, m2, r2,
                sas[Peer(p)], task[Peer(p)], request[Peer(p)], response[Peer(p)]),
           Become(p, S2, t2, m2),
           response' = [response EXCEPT ![p] = r2] \/ (UNCHANGED response /\ r2 = response[p]),
           count' \in Counts, nonce' = nonce, recreate' \subseteq Peers
    PROVE  RekeyInv'
  <1> DEFINE q == Peer(p)
  <1>1. q \in Peers /\ q # p
    BY TwoPeers
  <1>2. /\ PerPeer(sas) /\ PerPeer(task) /\ PerPeer(request) /\ PerPeer(response)
        /\ DOMAIN sas = Peers /\ DOMAIN task = Peers /\ DOMAIN request = Peers
        /\ DOMAIN response = Peers
    BY PerPeerKept DEF RekeyInv
  <1>3. /\ sas'[p] = S2 /\ task'[p] = t2 /\ request'[p] = m2 /\ response'[p] = r2
        /\ sas'[q] = sas[q] /\ task'[q] = task[q] /\ request'[q] = request[q]
        /\ response'[q] = response[q]
    BY <1>1, <1>2 DEF Become
  <1>5. PerPeer(sas)' /\ PerPeer(task)' /\ PerPeer(request)' /\ PerPeer(response)'
    <2>1. PerPeer(sas') /\ PerPeer(task') /\ PerPeer(request')
      BY <1>2, PerPeerKept DEF Become
    <2>2. PerPeer(response')
      BY <1>2, PerPeerKept
    <2> QED BY <2>1, <2>2 DEF PerPeer
  <1> HIDE DEF q
  <1>4. StateOf(p, q)'
    BY <1>3 DEF StateOf, q
  <1> QED BY <1>4, <1>5, BothInv DEF q

LEMMA SettledStep ==
    ASSUME RekeyInv, NEW p \in Peers, NEW S2, NEW t2, NEW m2, NEW r2,
           Settles(nonce, sas[p], task[p], sas[Peer(p)], task[Peer(p)], response[Peer(p)],
                   S2, t2, m2, r2),
           Become(p, S2, t2, m2), response' = [response EXCEPT ![p] = r2] \/ (UNCHANGED response /\ r2 = response[p]),
           count' \in Counts, count'.rekeys = count.rekeys, nonce' = nonce, recreate' \subseteq Peers
    PROVE  RekeyInv'
  <1>1. Both(p, Peer(p), count.rekeys, nonce, sas[p], task[p], request[p], response[p],
             sas[Peer(p)], task[Peer(p)], request[Peer(p)], response[Peer(p)])
    BY InvBoth DEF StateOf
  <1>2. Both(p, Peer(p), count.rekeys, nonce, S2, t2, m2, r2,
             sas[Peer(p)], task[Peer(p)], request[Peer(p)], response[Peer(p)])
    BY <1>1, TwoPeers, SettlesBoth
  <1> QED BY <1>2, OwnStep

LEMMA MessageFacts ==
    /\ None \in Messages /\ None.type = "none"
    /\ \A s \in SAs :
          LET m == DeleteRequest(<<s>>) IN
          /\ m \in Messages /\ m.type = "delete" /\ OneOrTwo(m.list) /\ m.list = <<s>>
          /\ \A x : Listed(m, x) <=> x = s
    /\ \A s, y \in SAs :
          LET m == DeleteRequest(<<s, y>>) IN
          s # y => /\ m \in Messages /\ m.type = "delete" /\ OneOrTwo(m.list)
                   /\ \A x : Listed(m, x) <=> x \in {s, y}
    /\ \A s \in SAs, n \in Created :
          LET m == RekeyRequest(s, n) IN
          m \in Messages /\ m.type = "rekey" /\ m.sa = s /\ m.new = n
    /\ \A w : Response(w).type = w
    /\ \A m, x : m.type # "delete" => ~Listed(m, x)
  <1>1. \A s \in SAs : <<s>> \in BoundedSeq(SAs, 2)
    <2>1. SUFFICES ASSUME NEW s \in SAs PROVE <<s>> \in BoundedSeq(SAs, 2)
      OBVIOUS
    <2>2. <<s>> \in [1..1 -> SAs] /\ 1 \in 0..2
      OBVIOUS
    <2> QED BY <2>2 DEF BoundedSeq, SeqOf
  <1>2. \A s, y \in SAs : <<s, y>> \in BoundedSeq(SAs, 2)
    <2>1. SUFFICES ASSUME NEW s \in SAs, NEW y \in SAs PROVE <<s, y>> \in BoundedSeq(SAs, 2)
      OBVIOUS
    <2>2. <<s, y>> \in [1..2 -> SAs] /\ 2 \in 0..2
      OBVIOUS
    <2> QED BY <2>2 DEF BoundedSeq, SeqOf
  <1>3. ASSUME NEW L \in BoundedSeq(SAs, 2)
        PROVE  DeleteRequest(L) \in Messages /\ DeleteRequest(L).type = "delete" /\ DeleteRequest(L).list = L
    BY DEF DeleteRequest, Messages
  <1>4. ASSUME NEW s \in SAs
        PROVE  LET m == DeleteRequest(<<s>>) IN
               /\ m \in Messages /\ m.type = "delete" /\ OneOrTwo(m.list) /\ m.list = <<s>>
               /\ \A x : Listed(m, x) <=> x = s
    <2>1. \A x : (\E i \in DOMAIN <<s>> : <<s>>[i] = x) <=> x = s
      OBVIOUS
    <2> QED BY <1>1, <1>3, <2>1 DEF OneOrTwo, Listed
  <1>5. ASSUME NEW s \in SAs, NEW y \in SAs, s # y
        PROVE  LET m == DeleteRequest(<<s, y>>) IN
               /\ m \in Messages /\ m.type = "delete" /\ OneOrTwo(m.list)
               /\ \A x : Listed(m, x) <=> x \in {s, y}
    <2>1. \A x : (\E i \in DOMAIN <<s, y>> : <<s, y>>[i] = x) <=> x \in {s, y}
      OBVIOUS
    <2> QED BY <1>2, <1>3, <1>5, <2>1 DEF OneOrTwo, Listed
  <1>6. None \in Messages /\ None.type = "none"
    BY DEF Messages, None
  <1>7. ASSUME NEW s \in SAs, NEW n \in Created
        PROVE  LET m == RekeyRequest(s, n) IN
               m \in Messages /\ m.type = "rekey" /\ m.sa = s /\ m.new = n
    BY DEF Messages, RekeyRequest
  <1>8. \A w : Response(w).type = w
    BY DEF Response
  <1>9. \A m, x : m.type # "delete" => ~Listed(m, x)
    BY DEF Listed
  <1> QED BY <1>4, <1>5, <1>6, <1>7, <1>8, <1>9

\* Links are only removed, both ends of each.
LEMMA LinksLess ==
    ASSUME NEW S \in Tables, NEW T \in Tables, LinksSound(S), NEW D,
           \A x \in SAs : IF x \in D THEN T[x].link = NoSA /\ S[x].link \in D \cup {NoSA}
                          ELSE T[x].link = S[x].link /\ T[x].state = S[x].state
    PROVE  LinksSound(T) /\ \A o, s \in SAs : Linked(T, o, s) => Linked(S, o, s)
  <1>1. ASSUME NEW x \in SAs, T[x].link # NoSA
        PROVE  /\ T[x].link = S[x].link /\ T[x].state = S[x].state
               /\ S[x].link \in SAs
               /\ T[S[x].link].link = S[S[x].link].link /\ T[S[x].link].state = S[S[x].link].state
    <2>1. x \notin D /\ T[x].link = S[x].link /\ T[x].state = S[x].state
      BY <1>1
    <2>2. S[x].link \in SAs /\ S[S[x].link].link = x
      BY <1>1, <2>1 DEF LinksSound, Linked
    <2>3. x # NoSA
      BY NamesApart
    <2>4. S[x].link \notin D
      BY <2>1, <2>2, <2>3
    <2> QED BY <2>1, <2>2, <2>4
  <1>2. LinksSound(T)
    <2>1. SUFFICES ASSUME NEW x \in SAs, T[x].link # NoSA
                   PROVE  Linked(T, x, T[x].link) \/ Linked(T, T[x].link, x)
      BY DEF LinksSound
    <2>2. S[x].link # NoSA
      BY <1>1, <2>1
    <2>3. Linked(S, x, S[x].link) \/ Linked(S, S[x].link, x)
      BY <2>2 DEF LinksSound
    <2> QED BY <1>1, <2>1, <2>3 DEF Linked
  <1>3. ASSUME NEW o \in SAs, NEW s \in SAs, Linked(T, o, s)
        PROVE  Linked(S, o, s)
    BY <1>1, <1>3, NamesApart DEF Linked
  <1> QED BY <1>2, <1>3

\* Of a CHILD_SA that is not linked no other one is, and only a CHILD_SA that
\* was rekeyed or replaces one is.
LEMMA LinkStates ==
    ASSUME NEW S \in Tables, LinksSound(S), NEW x \in SAs
    PROVE  /\ S[x].link # NoSA => /\ S[x].state \in {"REKEYED", "INSTALLED"}
                                  /\ S[x].link \in SAs /\ S[S[x].link].link = x
                                  /\ S[S[x].link].state \in {"REKEYED", "INSTALLED"}
                                  /\ S[S[x].link].state # S[x].state
  BY DEF LinksSound, Linked

\* The peer has linked nothing if the other one neither waits with a created
\* CHILD_SA nor deletes one.
LEMMA NoOtherLinks ==
    ASSUME NEW q, NEW S, NEW u, NEW n, NEW k, LinkCause(q, S, u, n, k),
           n.type # "delete", u.kind = "rekey" => k.type # "CREATED"
    PROVE  \A o, s \in SAs : ~Linked(S, o, s)
  BY DEF LinkCause, Listed, RekeysOf
-----------------------------------------------------------------------------
(* The deletes, and the responses to the rekeyings.                        *)

LEMMA BuildSettles ==
    ASSUME NEW p \in Peers, NEW q \in Peers, p # q, NEW c, NEW f,
           NEW S, NEW t, NEW m, NEW r, NEW V, NEW u, NEW n, NEW k,
           Both(p, q, c, f, S, t, m, r, V, u, n, k), t.kind = "idle",
           NEW s \in SAs, S[s].state \in Stages \cup {"DELETED"},
           S[s].state # "DELETED" => ~(u.kind = "rekey" /\ u.collision = s),
           NEW S2, NEW t2, NEW m2, Built(S, s, S2, t2, m2)
    PROVE  Settles(f, S, t, V, u, k, S2, t2, m2, r)
  <1>0. /\ S \in Tables /\ t \in Tasks /\ u \in Tasks /\ Local(S, t) /\ Exchange(t, m, r)
        /\ LinkCause(p, V, t, m, r) /\ Collides(f, u, k, S, t, m, r) /\ S2 \in Tables
    BY DEF Both, Side, Built
  <1>1. m.type = "none" /\ r.type = "none"
    BY <1>0 DEF Exchange, Sent
  <1>2. \A x \in SAs : S[x].state # "DELETING"
    BY <1>0 DEF Local, DeleteSound
  <1>5. S[s].link # NoSA => S[s].link \in SAs /\ S[S[s].link].link = s
    BY <1>0, LinkStates DEF Local
  <1>3. CASE S2[s].state = "NONE" /\ t2 = Idle /\ m2 = None
    <2>1. t2 \in Tasks /\ t2.kind = "idle" /\ m2 \in Messages /\ m2.type = "none"
      BY <1>3, SimpleTasks, MessageFacts
    <2>2. DeleteSound(S2, t2)
      BY <1>2, <1>3, <2>1 DEF DeleteSound, Built
    <2>3. LinksSound(S2) /\ \A o, x \in SAs : Linked(S2, o, x) => Linked(S, o, x)
      <3>1. \A x \in SAs : IF x \in {s, S[s].link} THEN S2[x].link = NoSA /\ S[x].link \in {s, S[s].link, NoSA}
                           ELSE S2[x].link = S[x].link /\ S2[x].state = S[x].state
        BY <1>5, NamesApart DEF Built
      <3> QED BY <1>0, <3>1, LinksLess DEF Local
    <2>4. Exchange(t2, m2, r)
      BY <1>1, <2>1 DEF Exchange
    <2>5. \A x \in SAs : (Exists(S2, x) => Exists(S, x)) /\ ~Listed(m2, x)
      BY <1>3, <2>1, MessageFacts DEF Exists, Built
    <2>6. \A o, x \in SAs : ~Linked(V, o, x)
      BY <1>0, <1>1, NoOtherLinks
    <2>7. ASSUME u.kind = "rekey"
          PROVE  /\ Gone(S, u.sa) => Gone(S2, u.sa)
                 /\ Over(S, u.sa) => Over(S2, u.sa)
                 /\ Adopted(u) => /\ S2[u.sa].state # "INSTALLED"
                                  /\ ~Listed(m2, u.collision)
                                  /\ OldDeleted(u) \/ k.type = "CREATED"
      <3>1. u.sa \in SAs
        BY <1>0, <2>7, TaskFields
      <3>2. S2[u.sa].state \in {"NONE", S[u.sa].state}
        BY <1>3, <3>1 DEF Built
      <3>3. Adopted(u) => S[u.sa].state # "INSTALLED" /\ (OldDeleted(u) \/ k.type = "CREATED")
        BY <1>0, <1>1, <2>7 DEF Collides, RekeysOf
      <3> QED BY <2>1, <3>2, <3>3, MessageFacts DEF Gone, Over
    <2> QED BY <1>0, <2>1, <2>2, <2>3, <2>4, <2>5, <2>6, <2>7 DEF Settles, Known
  <1>4. CASE /\ S2[s].state = "DELETING" /\ t2 = Deleting(s, S[s].state)
             /\ m2 = DeleteRequest(<<s>>) /\ S[s].state \in Stages
    <2>1. /\ t2 \in Tasks /\ t2.kind = "delete" /\ t2.sa = s
          /\ m2 \in Messages /\ m2.type = "delete" /\ \A x : Listed(m2, x) <=> x = s
          /\ OneOrTwo(m2.list)
      BY <1>4, SimpleTasks, MessageFacts
    <2>2. DeleteSound(S2, t2)
      BY <1>2, <1>4, <2>1 DEF DeleteSound, Built
    <2>3. LinksSound(S2) /\ \A o, x \in SAs : Linked(S2, o, x) => Linked(S, o, x)
      <3>1. \A x \in SAs : IF x \in {s, S[s].link} THEN S2[x].link = NoSA /\ S[x].link \in {s, S[s].link, NoSA}
                           ELSE S2[x].link = S[x].link /\ S2[x].state = S[x].state
        BY <1>5, NamesApart DEF Built
      <3> QED BY <1>0, <3>1, LinksLess DEF Local
    <2>4. Exchange(t2, m2, r)
      BY <1>1, <1>4, <2>1 DEF Exchange, Sent
    <2>5. \A x \in SAs : /\ Exists(S2, x) => Exists(S, x)
                         /\ Listed(m2, x) => Gone(S2, x) /\ Exists(S, x)
      BY <1>4, <2>1 DEF Exists, Built, Gone, Stages
    <2>6. \A o, x \in SAs : ~Linked(V, o, x)
      BY <1>0, <1>1, NoOtherLinks
    <2>7. ASSUME u.kind = "rekey"
          PROVE  /\ Gone(S, u.sa) => Gone(S2, u.sa)
                 /\ Over(S, u.sa) => Over(S2, u.sa)
                 /\ Adopted(u) => /\ S2[u.sa].state # "INSTALLED"
                                  /\ ~Listed(m2, u.collision)
                                  /\ OldDeleted(u) \/ k.type = "CREATED"
      <3>1. u.sa \in SAs
        BY <1>0, <2>7, TaskFields
      <3>2. IF u.sa = s THEN S2[u.sa].state = "DELETING" ELSE S2[u.sa].state = S[u.sa].state
        BY <1>4, <3>1 DEF Built
      <3>3. Adopted(u) => S[u.sa].state # "INSTALLED" /\ (OldDeleted(u) \/ k.type = "CREATED")
        BY <1>0, <1>1, <2>7 DEF Collides, RekeysOf
      <3>4. u.collision # s
        BY <1>4, <2>7 DEF Stages
      <3> QED BY <1>4, <2>1, <3>2, <3>3, <3>4 DEF Gone, Over, Stages
    <2> QED BY <1>0, <2>1, <2>2, <2>3, <2>4, <2>5, <2>6, <2>7 DEF Settles, Known
  <1> QED BY <1>3, <1>4 DEF Built

\* A step that ends the task of p and sends nothing: each CHILD_SA keeps its
\* state or is destroyed.
LEMMA EndsSettles ==
    ASSUME NEW p \in Peers, NEW q \in Peers, p # q, NEW c, NEW f,
           NEW S, NEW t, NEW m, NEW r, NEW V, NEW u, NEW n, NEW k,
           Both(p, q, c, f, S, t, m, r, V, u, n, k),
           r.type \notin {"none", "CREATED"},
           NEW S2 \in Tables, NEW s \in SAs,
           \A x \in SAs : S2[x].link = S[x].link /\ (x # s => S2[x].state = S[x].state),
           \/ S2[s].state = S[s].state
           \/ /\ S[s].link = NoSA /\ Exists(S, s)
              /\ Over(S2, s) \/ (S2[s].state = "INSTALLED" /\ RekeysOf(t, s) /\ ~OldDeleted(t)),
           \A x \in SAs : S2[x].state # "DELETING"
    PROVE  Settles(f, S, t, V, u, k, S2, Idle, None, None)
  <1>0. /\ S \in Tables /\ t \in Tasks /\ u \in Tasks /\ Local(S, t) /\ Exchange(t, m, r)
        /\ LinkCause(p, V, t, m, r) /\ Collides(f, u, k, S, t, m, r)
    BY DEF Both, Side
  <1>1. m.type = "none"
    BY <1>0 DEF Exchange, Sent
  <1>2. DeleteSound(S2, Idle)
    BY SimpleTasks DEF DeleteSound
  <1>3. LinksSound(S2) /\ \A o, x \in SAs : Linked(S2, o, x) => Linked(S, o, x)
    <2> DEFINE D == IF S2[s].state = S[s].state THEN {} ELSE {s}
    <2>1. \A x \in SAs : IF x \in D THEN S2[x].link = NoSA /\ S[x].link \in D \cup {NoSA}
                         ELSE S2[x].link = S[x].link /\ S2[x].state = S[x].state
      OBVIOUS
    <2> HIDE DEF D
    <2> QED BY <1>0, <2>1, LinksLess DEF Local
  <1>4. Exchange(Idle, None, None)
    BY SimpleTasks, MessageFacts DEF Exchange
  <1>5. \A x \in SAs : ~Listed(None, x)
    BY MessageFacts
  <1>6. \A o, x \in SAs : ~Linked(V, o, x)
    BY <1>0, <1>1, NoOtherLinks
  <1>7. RekeysOf(t, s) /\ ~OldDeleted(t) => ~Gone(S, s)
    BY <1>0 DEF Local, RekeySound, RekeysOf, Gone
  <1>8. \A x \in SAs : Exists(S2, x) => Exists(S, x)
    BY DEF Exists, Over
  <1>9. ASSUME u.kind = "rekey"
        PROVE  /\ Gone(S, u.sa) => Gone(S2, u.sa)
               /\ Over(S, u.sa) => Over(S2, u.sa)
               /\ Adopted(u) => /\ S2[u.sa].state # "INSTALLED"
                                /\ ~Listed(None, u.collision)
                                /\ OldDeleted(u) \/ k.type = "CREATED"
    <2>1. u.sa \in SAs
      BY <1>0, <1>9, TaskFields
    <2>2. Adopted(u) => /\ ~RekeysOf(t, u.sa) /\ S[u.sa].state # "INSTALLED"
                        /\ OldDeleted(u) \/ k.type = "CREATED"
      BY <1>0, <1>1, <1>9 DEF Collides
    <2>3. Adopted(u) => S2[u.sa].state # "INSTALLED"
      BY <2>1, <2>2 DEF Over
    <2>4. (Gone(S, u.sa) => Gone(S2, u.sa)) /\ (Over(S, u.sa) => Over(S2, u.sa))
      BY <1>7, <2>1 DEF Gone, Over
    <2> QED BY <2>2, <2>3, <2>4, MessageFacts
  <1> QED BY <1>2, <1>3, <1>4, <1>5, <1>6, <1>8, <1>9, SimpleTasks, MessageFacts
           DEF Settles, Known

LEMMA CountSteps ==
    ASSUME RekeyInv
    PROVE  /\ UNCHANGED count => count' \in Counts /\ count'.rekeys = count.rekeys
           /\ count' = [count EXCEPT !.deletes = @ + 1] => count' \in Counts /\ count'.rekeys = count.rekeys
           /\ Failed => count' \in Counts /\ count'.rekeys = count.rekeys
  BY DEF RekeyInv, Counts, Failed

LEMMA InitDeleteStep ==
    ASSUME Early = {}, RekeyInv, NEW p \in Peers, NEW s \in SAs,
           InitDelete(p, s) \/ InitDestroy(p, s)
    PROVE  RekeyInv'
  <1> DEFINE q == Peer(p)
             S == sas[p]
  <1>0. q \in Peers /\ q # p
    BY TwoPeers
  <1>1. Both(p, q, count.rekeys, nonce, sas[p], task[p], request[p], response[p],
             sas[q], task[q], request[q], response[q])
    BY InvBoth DEF StateOf
  <1>2. S \in Tables /\ Local(S, task[p])
    BY <1>1 DEF Both, Side
  <1>3. /\ task[p].kind = "idle" /\ S[s].state # "NONE" /\ BuildDelete(p, S, s)
        /\ UNCHANGED <<response, nonce, recreate>> /\ count' \in Counts /\ count'.rekeys = count.rekeys
        /\ S[s].state # "DELETED" => ~Collided(p, s)
    BY CountSteps DEF InitDelete, InitDestroy
  <1>4. S[s].state \in Stages \cup {"DELETED"}
    BY <1>2, <1>3, Fields DEF Local, DeleteSound
  <1>5. S[s].link # NoSA => Linked(S, s, S[s].link) \/ Linked(S, S[s].link, s)
    BY <1>2 DEF Local, LinksSound
  <1> HIDE DEF S
  <1>6. PICK S2, t2, m2 : Built(S, s, S2, t2, m2) /\ Become(p, S2, t2, m2)
    BY <1>2, <1>3, <1>4, <1>5, BuildDeleteBuilds
  <1>7. S[s].state # "DELETED" => ~(task[q].kind = "rekey" /\ task[q].collision = s)
    BY <1>3 DEF Collided
  <1> HIDE DEF q
  <1>8. Settles(nonce, S, task[p], sas[q], task[q], response[q], S2, t2, m2, response[p])
    BY <1>0, <1>1, <1>3, <1>4, <1>6, <1>7, BuildSettles DEF S
  <1>9. recreate' \subseteq Peers
    BY <1>3 DEF RekeyInv
  <1> QED BY <1>3, <1>6, <1>8, <1>9, SettledStep DEF S, q

\* process_i() of child_delete ends the task and sends nothing.
LEMMA EndStep ==
    ASSUME RekeyInv, NEW p \in Peers, response[p].type \notin {"none", "CREATED"},
           NEW S2 \in Tables, NEW s \in SAs,
           \A x \in SAs : S2[x].link = sas[p][x].link /\ (x # s => S2[x].state = sas[p][x].state),
           \/ S2[s].state = sas[p][s].state
           \/ /\ sas[p][s].link = NoSA /\ Exists(sas[p], s)
              /\ Over(S2, s) \/ (S2[s].state = "INSTALLED" /\ RekeysOf(task[p], s) /\ ~OldDeleted(task[p])),
           \A x \in SAs : S2[x].state # "DELETING",
           Become(p, S2, Idle, None), response' = [response EXCEPT ![p] = None],
           UNCHANGED <<nonce, count>>, recreate' \subseteq Peers
    PROVE  RekeyInv'
  <1> DEFINE q == Peer(p)
  <1>0. q \in Peers /\ q # p
    BY TwoPeers
  <1>1. Both(p, q, count.rekeys, nonce, sas[p], task[p], request[p], response[p],
             sas[q], task[q], request[q], response[q])
    BY InvBoth DEF StateOf
  <1> HIDE DEF q
  <1>2. Settles(nonce, sas[p], task[p], sas[q], task[q], response[q], S2, Idle, None, None)
    BY <1>0, <1>1, EndsSettles
  <1> QED BY <1>2, CountSteps, SettledStep DEF q

LEMMA DeleteDoneStep ==
    ASSUME RekeyInv, NEW p \in Peers, DeleteDone(p)
    PROVE  RekeyInv'
  <1> DEFINE S == sas[p]
             t == task[p]
             e == [sa |-> t.sa, orig |-> t.orig, collision |-> "NONE"]
             T == SetState(S, t.sa, "DELETED")
             S2 == destroy_and_reestablish(S, e)
  <1>1. /\ t.kind = "delete" /\ response[p].type = "DELETED" /\ response' = [response EXCEPT ![p] = None]
        /\ Become(p, S2, Idle, None) /\ UNCHANGED <<nonce, count, recreate>>
    BY DEF DeleteDone, Answered
  <1>2. S \in Tables /\ t \in Tasks /\ Local(S, t)
    BY InvBoth DEF StateOf, Both, Side
  <1>3. t.sa \in SAs
    BY <1>1, <1>2, TaskFields
  <1>4. S[t.sa].state = "DELETING" /\ \A x \in SAs : S[x].state = "DELETING" => x = t.sa
    BY <1>1, <1>2 DEF Local, DeleteSound
  <1>5. S[t.sa].link = NoSA
    BY <1>2, <1>3, <1>4, LinkStates DEF Local
  <1>6. T \in Tables /\ \A x \in SAs : T[x].link = S[x].link /\ (x # t.sa => T[x].state = S[x].state)
    BY <1>2, <1>3, SetStateTable
  <1>7. S2 = IF t.orig = "REKEYED" THEN destroy_rekeyed(remove_outbound(T, t.sa), t.sa)
             ELSE destroy_child_sa(T, t.sa)
    BY <1>5 DEF destroy_and_reestablish, keep_while_rekeying
  <1> HIDE DEF S2, T
  <1>8. /\ S2 \in Tables /\ Over(S2, t.sa)
        /\ \A x \in SAs : S2[x].link = S[x].link /\ (x # t.sa => S2[x].state = S[x].state)
    <2>1. CASE t.orig = "REKEYED"
      <3> DEFINE R == remove_outbound(T, t.sa)
      <3>1. R \in Tables /\ \A x \in SAs : R[x].link = T[x].link /\ R[x].state = T[x].state
        BY <1>3, <1>6, RemoveOutTable
      <3>2. S2 = destroy_rekeyed(R, t.sa)
        BY <1>7, <2>1
      <3> HIDE DEF R
      <3> QED BY <1>3, <1>5, <1>6, <3>1, <3>2, DestroyRekeyedTable DEF Over
    <2>2. CASE t.orig # "REKEYED"
      BY <1>3, <1>5, <1>6, <1>7, <2>2, DestroyTable DEF Over
    <2> QED BY <2>1, <2>2
  <1>9. \A x \in SAs : S2[x].state # "DELETING"
    BY <1>4, <1>8 DEF Over
  <1>10. Exists(S, t.sa) /\ recreate' \subseteq Peers
    BY <1>1, <1>4 DEF Exists, RekeyInv
  <1> QED BY <1>1, <1>3, <1>5, <1>8, <1>9, <1>10, EndStep

LEMMA UntendedDoneStep ==
    ASSUME RekeyInv, NEW p \in Peers, UntendedDone(p)
    PROVE  RekeyInv'
  <1>1. /\ task[p].kind = "untended" /\ response[p].type = "DELETED"
        /\ response' = [response EXCEPT ![p] = None]
        /\ Become(p, sas[p], Idle, None) /\ UNCHANGED <<nonce, count, recreate>>
    BY DEF UntendedDone, Answered
  <1>2. sas[p] \in Tables /\ Local(sas[p], task[p])
    BY InvBoth DEF StateOf, Both, Side
  <1>3. \A x \in SAs : sas[p][x].state # "DELETING"
    BY <1>1, <1>2 DEF Local, DeleteSound
  <1>4. recreate' \subseteq Peers
    BY <1>1 DEF RekeyInv
  <1> QED BY <1>1, <1>2, <1>3, <1>4, NamesApart, EndStep

\* What the invariant says of the table of a peer that rekeys.
LEMMA RekeyFacts ==
    ASSUME NEW S \in Tables, NEW t \in Tasks, t.kind = "rekey", Local(S, t)
    PROVE  /\ t.sa \in SAs /\ t.new \in SAs /\ t.new \in Created
           /\ Exists(S, t.sa) /\ ~Exists(S, t.new) /\ t.sa # t.new
           /\ t.adopted <=> Adopted(t)
           /\ OldDeleted(t) \/ OtherDeleted(t) \/ ~Adopted(t) => S[t.sa].link = NoSA
           /\ OldDeleted(t) => S[t.sa].state \in {"DELETING", "DELETED"}
           /\ ~OldDeleted(t) => S[t.sa].state =
                 IF Adopted(t) /\ ~OtherDeleted(t) THEN "REKEYED" ELSE "REKEYING"
           /\ OtherDeleted(t) => Adopted(t)
           /\ Adopted(t) => /\ t.collision \in SAs /\ t.collision \in Created /\ t.collision # t.sa
                            /\ t.collision # t.new /\ Exists(S, t.collision)
                            /\ S[t.collision].link \in {NoSA, t.sa}
                            /\ S[t.collision].state = IF OtherDeleted(t) THEN "DELETING" ELSE "INSTALLED"
           /\ S[t.sa].link \in {NoSA, t.collision}
           /\ \A x \in SAs : S[x].state = "DELETING" =>
                 (x = t.sa /\ OldDeleted(t)) \/ (Adopted(t) /\ x = t.collision /\ OtherDeleted(t))
  <1>1. /\ t.sa \in SAs /\ t.new \in SAs /\ t.new \in Created
        /\ t.collision \in Created \cup {NoSA} /\ (Adopted(t) => t.collision \in SAs)
    BY TaskFields
  <1>2. RekeySound(S, t) /\ DeleteSound(S, t) /\ LinksSound(S)
    BY DEF Local
  <1>3. S[t.sa].state \in IF OldDeleted(t) THEN {"DELETING", "DELETED"}
                          ELSE IF Adopted(t) /\ ~OtherDeleted(t) THEN {"REKEYED"} ELSE {"REKEYING"}
    BY <1>2 DEF RekeySound
  <1>4. /\ t.adopted <=> Adopted(t)
        /\ OtherDeleted(t) => Adopted(t)
        /\ S[t.sa].link \in {NoSA, t.collision}
        /\ ~Exists(S, t.new)
        /\ Adopted(t) =>
            /\ S[t.collision].state = IF OtherDeleted(t) THEN "DELETING" ELSE "INSTALLED"
            /\ t.collision # t.sa
            /\ S[t.collision].link \in {NoSA, t.sa}
    BY <1>2 DEF RekeySound
  <1>5. Exists(S, t.sa) /\ t.sa # t.new /\ (Adopted(t) => Exists(S, t.collision) /\ t.collision # t.new)
    BY <1>3, <1>4 DEF Exists
  <1>6. OldDeleted(t) \/ OtherDeleted(t) \/ ~Adopted(t) => S[t.sa].link = NoSA
    <2>1. CASE OldDeleted(t)
      BY <1>1, <1>2, <1>3, <2>1, LinkStates
    <2>2. CASE OtherDeleted(t)
      BY <1>1, <1>2, <1>4, <2>2, LinkStates
    <2>3. CASE ~Adopted(t)
      BY <1>4, <2>3 DEF Adopted
    <2> QED BY <2>1, <2>2, <2>3
  <1>7. \A x \in SAs : S[x].state = "DELETING" =>
                 (x = t.sa /\ OldDeleted(t)) \/ (Adopted(t) /\ x = t.collision /\ OtherDeleted(t))
    <2>1. \A x \in SAs : S[x].state = "DELETING" => x \in {t.sa, t.collision}
      BY <1>2 DEF DeleteSound
    <2>2. \A x \in SAs : x = t.collision => Adopted(t)
      BY NamesApart DEF Adopted
    <2> QED BY <1>3, <1>4, <2>1, <2>2
  <1> QED BY <1>1, <1>3, <1>4, <1>5, <1>6, <1>7 DEF Adopted

\* A rekeying whose response is a failure.
LEMMA FailingFacts ==
    ASSUME RekeyInv, NEW p \in Peers, task[p].kind = "rekey", response[p].type \in Failing
    PROVE  /\ sas[p] \in Tables /\ task[p] \in Tasks /\ Local(sas[p], task[p])
           /\ ~OtherDeleted(task[p])
           /\ response[p].type = "CHILD_SA_NOT_FOUND" /\ Adopted(task[p]) => OldDeleted(task[p])
           /\ response[p].type \notin {"none", "CREATED"}
  <1>1. /\ sas[p] \in Tables /\ task[p] \in Tasks /\ Local(sas[p], task[p])
        /\ Collides(nonce, task[p], response[p], sas[Peer(p)], task[Peer(p)], request[Peer(p)],
                    response[Peer(p)])
    BY InvBoth DEF StateOf, Both, Side
  <1>2. response[p].type \notin {"none", "CREATED"}
    BY DEF Failing
  <1>3. OtherDeleted(task[p]) => Adopted(task[p])
    BY <1>1, RekeyFacts
  <1> QED BY <1>1, <1>2, <1>3 DEF Collides

LEMMA RekeyNotFoundStep ==
    ASSUME RekeyInv, NEW p \in Peers, RekeyNotFound(p)
    PROVE  RekeyInv'
  <1> DEFINE S == sas[p]
             t == task[p]
  <1>1. t.kind = "rekey" /\ response[p].type = "CHILD_SA_NOT_FOUND"
    BY DEF RekeyNotFound, Answered
  <1>2. /\ S \in Tables /\ t \in Tasks /\ Local(S, t) /\ ~OtherDeleted(t)
        /\ Adopted(t) => OldDeleted(t)
        /\ response[p].type \notin {"none", "CREATED"}
    BY <1>1, FailingFacts DEF Failing
  <1> DEFINE S2 == IF ~OldDeleted(t) \/ t.collision = NoSA THEN destroy_child_sa(S, t.sa)
                   ELSE destroy_rekeyed(S, t.sa)
  <1>3. Become(p, S2, Idle, None)
    BY <1>2 DEF RekeyNotFound
  <1>4. /\ response' = [response EXCEPT ![p] = None] /\ UNCHANGED <<nonce, count>>
        /\ recreate' \subseteq Peers
    BY DEF RekeyNotFound, Answered, RekeyInv
  <1>5. /\ t.sa \in SAs /\ Exists(S, t.sa) /\ S[t.sa].link = NoSA
        /\ \A x \in SAs : S[x].state = "DELETING" => x = t.sa
    BY <1>1, <1>2, RekeyFacts
  <1> HIDE DEF S, t
  <1>6. /\ S2 \in Tables /\ Over(S2, t.sa)
        /\ \A x \in SAs : S2[x].link = S[x].link /\ (x # t.sa => S2[x].state = S[x].state)
    BY <1>2, <1>5, DestroyTable, DestroyRekeyedTable DEF Over
  <1> HIDE DEF S2
  <1>7. \A x \in SAs : S2[x].state # "DELETING"
    BY <1>5, <1>6 DEF Over
  <1> QED BY <1>2, <1>3, <1>4, <1>5, <1>6, <1>7, EndStep DEF S

LEMMA AbortedStep ==
    ASSUME RekeyInv, NEW p \in Peers, task[p].kind = "rekey", response[p].type \in Failing,
           Become(p, Aborted(sas[p], task[p]), Idle, None),
           response' = [response EXCEPT ![p] = None], UNCHANGED <<nonce, count, recreate>>
    PROVE  RekeyInv'
  <1> DEFINE S == sas[p]
             t == task[p]
             S2 == Aborted(S, t)
  <1>0. recreate' \subseteq Peers
    BY DEF RekeyInv
  <1>1. /\ S \in Tables /\ t \in Tasks /\ Local(S, t) /\ ~OtherDeleted(t) /\ t.kind = "rekey"
        /\ response[p].type \notin {"none", "CREATED"}
    BY FailingFacts
  <1> HIDE DEF S, t
  <1>2. /\ t.sa \in SAs /\ Exists(S, t.sa) /\ (OldDeleted(t) \/ ~Adopted(t) => S[t.sa].link = NoSA)
        /\ \A x \in SAs : S[x].state = "DELETING" => x = t.sa /\ OldDeleted(t)
        /\ PassiveDone(t) <=> Adopted(t)
    BY <1>1, RekeyFacts DEF PassiveDone
  <1>3. /\ S2 \in Tables
        /\ \A x \in SAs : S2[x].link = S[x].link /\ (x # t.sa => S2[x].state = S[x].state)
        /\ \/ S2[t.sa].state = S[t.sa].state /\ ~OldDeleted(t)
           \/ /\ S[t.sa].link = NoSA
              /\ Over(S2, t.sa) \/ (S2[t.sa].state = "INSTALLED" /\ RekeysOf(t, t.sa) /\ ~OldDeleted(t))
    <2>1. CASE PassiveDone(t) /\ OldDeleted(t)
      <3>1. S2 = destroy_rekeyed(S, t.sa)
        BY <2>1 DEF Aborted, ignore_child_sa_failure
      <3> QED BY <1>1, <1>2, <2>1, <3>1, DestroyRekeyedTable DEF Over
    <2>2. CASE PassiveDone(t) /\ ~OldDeleted(t)
      <3>1. S2 = S
        BY <2>2 DEF Aborted, ignore_child_sa_failure
      <3> QED BY <1>1, <2>2, <3>1
    <2>3. CASE ~PassiveDone(t) /\ OldDeleted(t)
      <3>1. S2 = destroy_child_sa(S, t.sa)
        BY <2>3 DEF Aborted, ignore_child_sa_failure
      <3> QED BY <1>1, <1>2, <2>3, <3>1, DestroyTable DEF Over
    <2>4. CASE ~PassiveDone(t) /\ ~OldDeleted(t)
      <3>1. S2 = SetState(S, t.sa, "INSTALLED")
        BY <2>4 DEF Aborted, ignore_child_sa_failure
      <3>2. S2 \in Tables /\ \A x \in SAs : /\ S2[x].state = IF x = t.sa THEN "INSTALLED" ELSE S[x].state
                                            /\ S2[x].link = S[x].link
        <4>1. "INSTALLED" \in Stages \cup {"DELETING", "DELETED"}
          BY DEF Stages
        <4>2. S \in Tables /\ t.sa \in SAs
          BY <1>1, <1>2
        <4> DEFINE N == SetState(S, t.sa, "INSTALLED")
        <4>3. N \in Tables /\ \A x \in SAs : /\ N[x].state = IF x = t.sa THEN "INSTALLED" ELSE S[x].state
                                             /\ N[x].link = S[x].link
          BY ONLY <4>1, <4>2, SetStateTable
        <4> HIDE DEF N
        <4> QED BY <3>1, <4>3 DEF N
      <3> HIDE DEF S2
      <3> QED BY <1>1, <1>2, <2>4, <3>2 DEF RekeysOf
    <2> QED BY <2>1, <2>2, <2>3, <2>4
  <1>4. Become(p, S2, Idle, None)
    BY DEF S, t
  <1> HIDE DEF S2
  <1>5. \A x \in SAs : S2[x].state # "DELETING"
    BY <1>2, <1>3 DEF Over
  <1> DEFINE s == t.sa
  <1>6. /\ S2 \in Tables /\ s \in SAs
        /\ \A x \in SAs : S2[x].link = sas[p][x].link /\ (x # s => S2[x].state = sas[p][x].state)
        /\ \/ S2[s].state = sas[p][s].state
           \/ /\ sas[p][s].link = NoSA /\ Exists(sas[p], s)
              /\ Over(S2, s) \/ (S2[s].state = "INSTALLED" /\ RekeysOf(task[p], s) /\ ~OldDeleted(task[p]))
    BY <1>2, <1>3 DEF S, t
  <1> HIDE DEF s
  <1> QED BY <1>0, <1>1, <1>4, <1>5, <1>6, EndStep

LEMMA RekeyFailedStep ==
    ASSUME RekeyInv, NEW p \in Peers, RekeyFailed(p)
    PROVE  RekeyInv'
  BY AbortedStep DEF RekeyFailed, Answered, Failing

\* build_i() runs again: the request is sent once more.
LEMMA RetryBoth ==
    ASSUME NEW p \in Peers, NEW q \in Peers, p # q, NEW c, NEW f,
           NEW S, NEW t, NEW m, NEW r, NEW V, NEW u, NEW n, NEW k,
           Both(p, q, c, f, S, t, m, r, V, u, n, k),
           t.kind = "rekey", r.type = "INVALID_KE_PAYLOAD", ~Adopted(t), ~OldDeleted(t)
    PROVE  Both(p, q, c, f, S, [t EXCEPT !.retry = TRUE], RekeyRequest(t.sa, t.new), None,
                V, u, n, k)
  <1> DEFINE t2 == [t EXCEPT !.retry = TRUE]
             m2 == RekeyRequest(t.sa, t.new)
  <1>0. Side(p, q, c, f, S, t, m, r, V, u, n, k) /\ Side(q, p, c, f, V, u, n, k, S, t, m, r)
    BY DEF Both
  <1>1. t \in Tasks /\ Exchange(t, m, r)
    BY <1>0 DEF Side
  <1>2. /\ t2 \in Tasks /\ t2.kind = "rekey" /\ t2.sa = t.sa /\ t2.new = t.new
        /\ t2.collision = t.collision /\ t2.adopted = t.adopted /\ t2.flags = t.flags
    BY <1>1 DEF Tasks, Idle, Untended
  <1>3. m2 \in Messages /\ m2.type = "rekey" /\ \A x : ~Listed(m2, x)
    BY <1>1, TaskFields, MessageFacts
  <1>4. m.type = "none" /\ \A x : ~Listed(m, x)
    BY <1>1, MessageFacts DEF Exchange, Sent
  <1>5. /\ \A s : RekeysOf(t2, s) <=> RekeysOf(t, s)
        /\ Adopted(t2) <=> Adopted(t)
        /\ OldDeleted(t2) <=> OldDeleted(t)
        /\ OtherDeleted(t2) <=> OtherDeleted(t)
    BY <1>2 DEF RekeysOf, Adopted, OldDeleted, OtherDeleted
  <1>6. m2 = RekeyRequest(t2.sa, t2.new)
    BY <1>2
  <1> HIDE DEF t2, m2
  <1>7. Local(S, t2)
    <2>1. RekeySound(S, t2)
      BY <1>0, <1>2, <1>5 DEF Side, Local, RekeySound
    <2>2. DeleteSound(S, t2)
      BY <1>0, <1>2 DEF Side, Local, DeleteSound
    <2> QED BY <1>0, <2>1, <2>2 DEF Side, Local
  <1>8. Exchange(t2, m2, None)
    BY <1>2, <1>3, <1>6, MessageFacts DEF Exchange, Sent
  <1>9. Fresh(p, q, c, S, t2, m2, None, V, u, k)
    BY <1>0, <1>2, <1>3, <1>5, MessageFacts DEF Side, Fresh
  <1>10. Fresh(q, p, c, V, u, n, k, S, t2, None)
    BY <1>0, <1>2, MessageFacts DEF Side, Fresh
  <1>11. LinkCause(p, V, t2, m2, None)
    <2>1. \A o, s \in SAs : ~Linked(V, o, s)
      BY <1>0, <1>4, NoOtherLinks DEF Side
    <2> QED BY <2>1 DEF LinkCause
  <1>12. Collides(f, t2, None, V, u, n, k)
    BY <1>0, <1>2, <1>5, MessageFacts DEF Side, Collides
  <1>13. Collides(f, u, k, S, t2, m2, None)
    <2>1. Collides(f, u, k, S, t, m, r)
      BY <1>0 DEF Side
    <2> QED BY <1>2, <1>3, <1>4, <1>5, <2>1, MessageFacts DEF Collides
  <1> QED BY <1>0, <1>2, <1>3, <1>7, <1>8, <1>9, <1>10, <1>11, <1>12, <1>13
           DEF Both, Side, t2, m2

LEMMA RekeyRetryStep ==
    ASSUME RekeyInv, NEW p \in Peers, RekeyRetry(p)
    PROVE  RekeyInv'
  <1> DEFINE t == task[p]
  <1>1. /\ t.kind = "rekey" /\ response[p].type = "INVALID_KE_PAYLOAD"
        /\ response' = [response EXCEPT ![p] = None] /\ UNCHANGED <<nonce, count, recreate>>
    BY DEF RekeyRetry, Answered
  <1>2. CASE Become(p, Aborted(sas[p], t), Idle, None)
    BY <1>1, <1>2, AbortedStep DEF Failing
  <1>3. CASE /\ ~ignore_child_sa_failure(t)
             /\ IF sas[p][t.sa].state = "REKEYING"
                THEN Become(p, sas[p], [t EXCEPT !.retry = TRUE], RekeyRequest(t.sa, t.new))
                ELSE Become(p, sas[p], Idle, None)
    <2>1. sas[p] \in Tables /\ t \in Tasks /\ Local(sas[p], t) /\ ~OtherDeleted(t)
      BY <1>1, FailingFacts DEF Failing
    <2>2. ~OldDeleted(t) /\ ~Adopted(t)
      BY <1>1, <1>3, <2>1, RekeyFacts DEF ignore_child_sa_failure, PassiveDone
    <2>3. sas[p][t.sa].state = "REKEYING"
      BY <1>1, <2>1, <2>2, RekeyFacts
    <2>4. Both(p, Peer(p), count.rekeys, nonce, sas[p], [t EXCEPT !.retry = TRUE],
               RekeyRequest(t.sa, t.new), None,
               sas[Peer(p)], task[Peer(p)], request[Peer(p)], response[Peer(p)])
      BY <1>1, <2>2, InvBoth, TwoPeers, RetryBoth DEF StateOf
    <2>5. recreate' \subseteq Peers /\ count' \in Counts /\ count'.rekeys = count.rekeys
      BY <1>1, CountSteps DEF RekeyInv
    <2> QED BY <1>1, <1>3, <2>3, <2>4, <2>5, OwnStep
  <1> QED BY <1>2, <1>3 DEF RekeyRetry

\* The end of a rekeying that the peer answered with the new CHILD_SA.
Completes(f, S, t, u, S2, t2, m2) ==
    /\ S2 \in Tables /\ t2 \in Tasks /\ m2 \in Messages /\ t2.kind # "rekey"
    /\ Exchange(t2, m2, None) /\ DeleteSound(S2, t2)
    /\ \A x \in SAs : x \notin {t.sa, t.new, t.collision} =>
          S2[x].state = S[x].state /\ S2[x].link = S[x].link
    /\ S2[t.new].link = NoSA
    /\ \/ \A x \in SAs \cap {t.sa, t.collision} : S2[x].state = S[x].state /\ S2[x].link = S[x].link
       \/ \A x \in SAs \cap {t.sa, t.collision} : S2[x].link = NoSA
    /\ IF OldDeleted(t) THEN Over(S2, t.sa)
       ELSE S2[t.sa].state # "INSTALLED" /\ (Listed(m2, t.sa) \/ Listed(m2, t.new))
    /\ \A x \in SAs : Listed(m2, x) => x \in {t.sa, t.new} /\ Gone(S2, x)
    /\ Listed(m2, t.new) => (Adopted(t) /\ f[t.new] < f[t.collision]) \/ ~RekeysOf(u, t.sa)
    /\ ~Adopted(t) /\ ~OldDeleted(t) =>
          (t2.kind = "delete" /\ t2.sa = t.sa /\ m2.type = "delete") \/ ~RekeysOf(u, t.sa)

LEMMA CompletesSettles ==
    ASSUME NEW p \in Peers, NEW q \in Peers, p # q, NEW c, NEW f,
           NEW S, NEW t, NEW m, NEW r, NEW V, NEW u, NEW n, NEW k,
           Both(p, q, c, f, S, t, m, r, V, u, n, k),
           t.kind = "rekey", r.type = "CREATED",
           NEW S2, NEW t2, NEW m2, Completes(f, S, t, u, S2, t2, m2)
    PROVE  Settles(f, S, t, V, u, k, S2, t2, m2, None)
  <1>0. /\ S \in Tables /\ t \in Tasks /\ u \in Tasks /\ Local(S, t) /\ Exchange(t, m, r)
        /\ LinkCause(p, V, t, m, r) /\ Collides(f, t, r, V, u, n, k) /\ Collides(f, u, k, S, t, m, r)
        /\ S2 \in Tables
    BY DEF Both, Side, Completes
  <1>1. m.type = "none" /\ \A x : ~Listed(m, x)
    BY <1>0, MessageFacts DEF Exchange, Sent
  <1>2. /\ t.sa \in SAs /\ t.new \in SAs /\ Exists(S, t.sa) /\ ~Exists(S, t.new) /\ t.sa # t.new
        /\ Adopted(t) => t.collision \in SAs /\ Exists(S, t.collision) /\ t.collision # t.new
        /\ S[t.sa].link \in {NoSA, t.collision}
        /\ Adopted(t) => S[t.collision].link \in {NoSA, t.sa}
        /\ S[t.new].link = NoSA
        /\ ~OldDeleted(t) => ~Gone(S, t.sa)
    BY <1>0, RekeyFacts, Fields DEF Exists, Gone
  <1>3. \A x \in SAs : x = t.collision => Adopted(t)
    BY NamesApart DEF Adopted
  <1>4. LinksSound(S2) /\ \A o, s \in SAs : Linked(S2, o, s) => Linked(S, o, s)
    <2>1. CASE \A x \in SAs \cap {t.sa, t.collision} : S2[x].state = S[x].state /\ S2[x].link = S[x].link
      <3>1. \A x \in SAs : IF x \in {t.new} THEN S2[x].link = NoSA /\ S[x].link \in {t.new} \cup {NoSA}
                           ELSE S2[x].link = S[x].link /\ S2[x].state = S[x].state
        BY <1>2, <2>1 DEF Completes
      <3> QED BY <1>0, <3>1, LinksLess DEF Local
    <2>2. CASE \A x \in SAs \cap {t.sa, t.collision} : S2[x].link = NoSA
      <3> DEFINE D == {t.sa, t.new, t.collision}
      <3>1. \A x \in SAs : IF x \in D THEN S2[x].link = NoSA /\ S[x].link \in D \cup {NoSA}
                           ELSE S2[x].link = S[x].link /\ S2[x].state = S[x].state
        BY <1>2, <1>3, <2>2 DEF Completes
      <3> HIDE DEF D
      <3> QED BY <1>0, <3>1, LinksLess DEF Local
    <2> QED BY <2>1, <2>2 DEF Completes
  <1>5. \A s \in SAs : /\ Exists(S2, s) => Known(S, t, s)
                       /\ Listed(m2, s) => Gone(S2, s) /\ Known(S, t, s)
    <2>1. \A s \in SAs : s \in {t.sa, t.new, t.collision} => Known(S, t, s)
      BY <1>2, <1>3 DEF Known
    <2>2. \A s \in SAs : s \notin {t.sa, t.new, t.collision} => (Exists(S2, s) <=> Exists(S, s))
      BY DEF Completes, Exists
    <2> QED BY <2>1, <2>2 DEF Completes, Known
  <1>6. ASSUME NEW o \in SAs, NEW s \in SAs, Linked(V, o, s)
        PROVE  Listed(m2, o) \/ Listed(m2, s)
    <2>1. o = t.sa /\ s = t.new
      BY <1>0, <1>1, <1>6 DEF LinkCause, RekeysOf
    <2>2. ~Gone(V, t.sa)
      BY <1>6, <2>1 DEF Linked, Gone
    <2>3. ~OldDeleted(t)
      BY <1>0, <2>2 DEF Collides
    <2> QED BY <2>1, <2>3 DEF Completes
  <1>7. ASSUME u.kind = "rekey"
        PROVE  /\ Gone(S, u.sa) => Gone(S2, u.sa)
               /\ Over(S, u.sa) => Over(S2, u.sa)
               /\ Adopted(u) =>
                     /\ S2[u.sa].state # "INSTALLED"
                     /\ Listed(m2, u.collision) => k.type = "CREATED" /\ f[u.collision] < f[u.new]
                     /\ ~OldDeleted(u) /\ k.type # "CREATED" =>
                           t2.kind = "delete" /\ t2.sa = u.sa /\ m2.type = "delete"
    <2>0. u.sa \in SAs /\ (Adopted(u) => u.collision \in SAs)
      BY <1>0, <1>7, TaskFields
    <2>1. u.sa # t.new /\ u.sa # t.collision
      BY <1>0, <1>3, <1>7, <2>0 DEF Collides, RekeysOf
    <2>2. CASE u.sa # t.sa
      <3>1. S2[u.sa].state = S[u.sa].state
        BY <2>0, <2>1, <2>2 DEF Completes
      <3>2. Adopted(u) => /\ S[u.sa].state # "INSTALLED" /\ (OldDeleted(u) \/ k.type = "CREATED")
                          /\ u.collision \notin {t.sa, t.new}
        BY <1>0, <1>1, <1>7, <2>2 DEF Collides, RekeysOf
      <3> QED BY <2>0, <3>1, <3>2 DEF Gone, Over, Completes
    <2>3. CASE u.sa = t.sa
      <3>1. ~OldDeleted(t)
        BY <1>0, <1>7, <2>3 DEF Collides, RekeysOf
      <3>2. ~Gone(S, u.sa) /\ ~Over(S, u.sa) /\ S2[u.sa].state # "INSTALLED"
        BY <1>2, <2>3, <3>1 DEF Gone, Over, Completes
      <3>3. RekeysOf(u, t.sa)
        BY <1>7, <2>3 DEF RekeysOf
      <3>4. ASSUME Adopted(u), Listed(m2, u.collision)
            PROVE  k.type = "CREATED" /\ f[u.collision] < f[u.new]
        <4>1. u.collision # t.sa
          BY <1>0, <1>7, <3>4 DEF Collides, RekeysOf
        <4>2. u.collision = t.new
          BY <2>0, <3>4, <4>1 DEF Completes
        <4>3. Adopted(t) /\ f[t.new] < f[t.collision]
          BY <3>3, <3>4, <4>2 DEF Completes
        <4>4. u.new = t.collision /\ k.type = "CREATED"
          BY <1>0, <3>3, <4>3 DEF Collides
        <4> QED BY <4>2, <4>3, <4>4
      <3>5. ASSUME Adopted(u), ~OldDeleted(u), k.type # "CREATED"
            PROVE  t2.kind = "delete" /\ t2.sa = u.sa /\ m2.type = "delete"
        <4>1. ~Adopted(t)
          BY <1>0, <1>1, <1>7, <3>5 DEF Collides
        <4> QED BY <2>3, <3>1, <3>3, <4>1 DEF Completes
      <3> QED BY <3>2, <3>4, <3>5
    <2> QED BY <2>2, <2>3
  <1> QED BY <1>4, <1>5, <1>6, <1>7 DEF Settles, Completes

LEMMA CompletesStep ==
    ASSUME RekeyInv, NEW p \in Peers, task[p].kind = "rekey", response[p].type = "CREATED",
           NEW S2, NEW t2, NEW m2,
           Completes(nonce, sas[p], task[p], task[Peer(p)], S2, t2, m2),
           Become(p, S2, t2, m2), response' = [response EXCEPT ![p] = None],
           UNCHANGED count \/ Failed, nonce' = nonce, recreate' \subseteq Peers
    PROVE  RekeyInv'
  <1>1. Settles(nonce, sas[p], task[p], sas[Peer(p)], task[Peer(p)], response[Peer(p)], S2, t2, m2, None)
    BY InvBoth, TwoPeers, CompletesSettles DEF StateOf
  <1> QED BY <1>1, CountSteps, SettledStep

\* The facts about a rekeying whose response is CREATED.
LEMMA CreatedFacts ==
    ASSUME RekeyInv, NEW p \in Peers, task[p].kind = "rekey", response[p].type = "CREATED"
    PROVE  /\ sas[p] \in Tables /\ task[p] \in Tasks /\ Local(sas[p], task[p])
           /\ TRUE \in lost_collision(task[p]) =>
                 /\ Adopted(task[p]) /\ ~OtherDeleted(task[p])
                 /\ nonce[task[p].new] < nonce[task[p].collision]
  <1> DEFINE t == task[p]
  <1>1. /\ sas[p] \in Tables /\ t \in Tasks /\ Local(sas[p], t)
        /\ Collides(nonce, t, response[p], sas[Peer(p)], task[Peer(p)], request[Peer(p)],
                    response[Peer(p)])
    BY InvBoth DEF StateOf, Both, Side
  <1>2. t.new \in Created /\ t.adopted \in BOOLEAN /\ (t.adopted <=> Adopted(t))
        /\ (Adopted(t) => t.collision \in Created)
    BY <1>1, RekeyFacts, TaskFields
  <1>3. nonce \in [Created -> Nat]
    BY DEF RekeyInv
  <1>4. ASSUME TRUE \in lost_collision(t)
        PROVE  Adopted(t) /\ nonce[t.new] < nonce[t.collision]
    BY <1>2, <1>4 DEF lost_collision, Adopted
  <1>5. ASSUME TRUE \in lost_collision(t) PROVE ~OtherDeleted(t)
    <2>1. Adopted(t) /\ nonce[t.new] < nonce[t.collision]
      BY <1>4, <1>5
    <2>2. nonce[t.new] \in Nat /\ nonce[t.collision] \in Nat
      BY <1>2, <1>3, <2>1
    <2>3. OtherDeleted(t) => nonce[t.collision] < nonce[t.new]
      BY <1>1, <2>1 DEF Collides
    <2> QED BY <2>1, <2>2, <2>3
  <1> QED BY <1>1, <1>4, <1>5

LEMMA ObsoleteBuilds ==
    ASSUME NEW p \in Peers, NEW S \in Tables, NEW d \in SAs, S[d].link = NoSA, DeleteObsolete(p, S, d)
    PROVE  \E S2 \in Tables :
              /\ Become(p, S2, Deleting(d, "REKEYED"), DeleteRequest(<<d>>))
              /\ S2[d].state = "DELETING"
              /\ \A x \in SAs : (x # d => S2[x].state = S[x].state) /\ S2[x].link = S[x].link
  <1> DEFINE T == SetState(S, d, "REKEYED")
             R == IF S[d].out = "REGISTERED" THEN remove_outbound(T, d) ELSE T
  <1>1. T \in Tables /\ \A x \in SAs : /\ T[x].state = IF x = d THEN "REKEYED" ELSE S[x].state
                                       /\ T[x].link = S[x].link
    <2>1. "REKEYED" \in Stages \cup {"DELETING", "DELETED"}
      BY DEF Stages
    <2> QED BY <2>1, SetStateTable
  <1>2. BuildDelete(p, R, d)
    BY DEF DeleteObsolete
  <1> HIDE DEF T
  <1>3. R \in Tables /\ \A x \in SAs : /\ R[x].state = IF x = d THEN "REKEYED" ELSE S[x].state
                                       /\ R[x].link = S[x].link
    BY <1>1, RemoveOutTable
  <1> HIDE DEF R
  <1>4. R[d].state = "REKEYED" /\ R[d].link = NoSA /\ "REKEYED" \in Stages \cup {"DELETED"}
    BY <1>3 DEF Stages
  <1>5. PICK S2, t2, m2 : Built(R, d, S2, t2, m2) /\ Become(p, S2, t2, m2)
    BY <1>2, <1>3, <1>4, BuildDeleteBuilds
  <1>6. S2[d].state = "DELETING" /\ t2 = Deleting(d, "REKEYED") /\ m2 = DeleteRequest(<<d>>)
    BY <1>4, <1>5 DEF Built
  <1>7. S2 \in Tables /\ \A x \in SAs : (x # d => S2[x].state = S[x].state) /\ S2[x].link = S[x].link
    BY <1>3, <1>4, <1>5, NamesApart DEF Built
  <1> QED BY <1>5, <1>6, <1>7

\* A delete of d alone, by a child_delete task or by none.
LEMMA DeletesOne ==
    ASSUME NEW d \in SAs, NEW t2, t2 = Deleting(d, "REKEYED") \/ t2 = Untended
    PROVE  /\ t2 \in Tasks /\ t2.kind # "rekey" /\ DeleteRequest(<<d>>) \in Messages
           /\ Exchange(t2, DeleteRequest(<<d>>), None)
           /\ DeleteRequest(<<d>>).type = "delete"
           /\ \A x : Listed(DeleteRequest(<<d>>), x) <=> x = d
  <1>1. "REKEYED" \in Stages
    BY DEF Stages
  <1>2. /\ t2 \in Tasks /\ t2.kind \in {"delete", "untended"}
        /\ t2.kind = "delete" => t2.sa = d
    BY <1>1, SimpleTasks
  <1> QED BY <1>2, MessageFacts DEF Exchange, Sent

LEMMA RekeyLostStep ==
    ASSUME RekeyInv, NEW p \in Peers, RekeyLost(p)
    PROVE  RekeyInv'
  <1> DEFINE S == sas[p]
             t == task[p]
             I == Install(S, t.new)
             T == IF OldDeleted(t) THEN destroy_rekeyed(I, t.sa) ELSE I
             m2 == DeleteRequest(<<t.new>>)
             t2 == Deleting(t.new, "REKEYED")
  <1>1. /\ t.kind = "rekey" /\ response[p].type = "CREATED" /\ TRUE \in lost_collision(t)
        /\ response' = [response EXCEPT ![p] = None] /\ UNCHANGED <<nonce, count, recreate>>
    BY DEF RekeyLost, Answered
  <1>2. /\ S \in Tables /\ t \in Tasks /\ Local(S, t) /\ Adopted(t) /\ ~OtherDeleted(t)
        /\ nonce[t.new] < nonce[t.collision]
    BY <1>1, CreatedFacts
  <1>3. /\ t.sa \in SAs /\ t.new \in SAs /\ Exists(S, t.sa) /\ ~Exists(S, t.new) /\ t.sa # t.new
        /\ t.collision \in SAs /\ t.collision # t.sa /\ t.collision # t.new
        /\ t.adopted
        /\ OldDeleted(t) => S[t.sa].link = NoSA
        /\ ~OldDeleted(t) => S[t.sa].state = "REKEYED"
        /\ S[t.collision].state = "INSTALLED" /\ S[t.collision].link \in {NoSA, t.sa}
        /\ \A x \in SAs : S[x].state = "DELETING" => x = t.sa /\ OldDeleted(t)
    BY <1>1, <1>2, RekeyFacts
  <1>4. OldDeleted(t) => S[t.collision].link = NoSA
    BY <1>2, <1>3, NamesApart, LinkStates DEF Local
  <1>5. DeleteObsolete(p, T, t.new)
    BY <1>2, <1>3 DEF RekeyLost
  <1> HIDE DEF S, t
  <1>6. I \in Tables /\ \A x \in SAs : /\ I[x].state = IF x = t.new THEN "INSTALLED" ELSE S[x].state
                                       /\ I[x].link = IF x = t.new THEN NoSA ELSE S[x].link
    BY <1>2, <1>3, InstallTable
  <1> HIDE DEF I
  <1>7. /\ T \in Tables
        /\ \A x \in SAs : T[x].link = I[x].link /\ (x # t.sa => T[x].state = I[x].state)
        /\ IF OldDeleted(t) THEN Over(T, t.sa) ELSE T[t.sa].state = I[t.sa].state
    BY <1>3, <1>6, DestroyRekeyedTable DEF Over
  <1> HIDE DEF T
  <1>8. PICK S2 \in Tables :
              /\ Become(p, S2, t2, m2)
              /\ S2[t.new].state = "DELETING"
              /\ \A x \in SAs : (x # t.new => S2[x].state = T[x].state) /\ S2[x].link = T[x].link
    BY <1>3, <1>5, <1>6, <1>7, ObsoleteBuilds
  <1>9. /\ t2 \in Tasks /\ t2.kind = "delete" /\ t2.sa = t.new /\ m2 \in Messages
        /\ Exchange(t2, m2, None) /\ \A x : Listed(m2, x) <=> x = t.new
    <2>1. "REKEYED" \in Stages
      BY DEF Stages
    <2> QED BY <1>3, <2>1, DeletesOne, SimpleTasks
  <1> HIDE DEF t2, m2
  <1>10. DeleteSound(S2, t2)
    <2>1. \A x \in SAs : x # t.new => S2[x].state # "DELETING"
      BY <1>3, <1>6, <1>7, <1>8 DEF Over
    <2> QED BY <1>8, <1>9, <2>1 DEF DeleteSound
  <1>11. Completes(nonce, S, t, task[Peer(p)], S2, t2, m2)
    <2>1. \A x \in SAs : x \notin {t.sa, t.new, t.collision} =>
              S2[x].state = S[x].state /\ S2[x].link = S[x].link
      BY <1>6, <1>7, <1>8
    <2>2. S2[t.new].link = NoSA /\ Gone(S2, t.new)
      BY <1>3, <1>6, <1>7, <1>8 DEF Gone
    <2>3. \/ \A x \in SAs \cap {t.sa, t.collision} : S2[x].state = S[x].state /\ S2[x].link = S[x].link
          \/ \A x \in SAs \cap {t.sa, t.collision} : S2[x].link = NoSA
      BY <1>3, <1>4, <1>6, <1>7, <1>8
    <2>4. IF OldDeleted(t) THEN Over(S2, t.sa) ELSE S2[t.sa].state # "INSTALLED"
      BY <1>3, <1>6, <1>7, <1>8 DEF Over
    <2> QED BY <1>2, <1>9, <1>10, <2>1, <2>2, <2>3, <2>4 DEF Completes
  <1>12. recreate' \subseteq Peers
    BY <1>1 DEF RekeyInv
  <1> QED BY <1>1, <1>8, <1>11, <1>12, CompletesStep DEF S, t

\* The redundant CHILD_SA is not linked, nor is the old one.
LEMMA RedundantTable ==
    ASSUME NEW S \in Tables, NEW t \in Tasks, t.kind = "rekey", Local(S, t)
    PROVE  LET U == Redundant(Install(S, t.new), t) IN
           /\ U \in Tables
           /\ \A x \in SAs : x \notin {t.sa, t.new, t.collision} =>
                 U[x].state = S[x].state /\ U[x].link = S[x].link
           /\ U[t.new].state = "INSTALLED" /\ U[t.new].link = NoSA
           /\ U[t.sa].state = S[t.sa].state /\ U[t.sa].link = NoSA
           /\ Adopted(t) => U[t.collision].state # "DELETING" /\ U[t.collision].link = NoSA
  <1> DEFINE I == Install(S, t.new)
             U == Redundant(I, t)
  <1>1. /\ t.sa \in SAs /\ t.new \in SAs /\ t.sa # t.new
        /\ Adopted(t) => t.collision \in SAs /\ t.collision # t.sa /\ t.collision # t.new
        /\ t.adopted <=> Adopted(t)
        /\ OtherDeleted(t) => Adopted(t) /\ S[t.collision].state = "DELETING"
        /\ OtherDeleted(t) \/ ~Adopted(t) => S[t.sa].link = NoSA
    BY RekeyFacts
  <1>2. OtherDeleted(t) => S[t.collision].link = NoSA
    BY <1>1, LinkStates DEF Local
  <1>3. I \in Tables /\ \A x \in SAs : /\ I[x].state = IF x = t.new THEN "INSTALLED" ELSE S[x].state
                                       /\ I[x].link = IF x = t.new THEN NoSA ELSE S[x].link
    BY <1>1, InstallTable
  <1> HIDE DEF I
  <1>4. CASE ~Adopted(t)
    <2>1. U = I
      BY <1>1, <1>4 DEF Redundant
    <2> QED BY <1>1, <1>3, <1>4, <2>1 DEF I
  <1>5. CASE Adopted(t) /\ ~OtherDeleted(t)
    <2> DEFINE N == Unlink(I, t.sa, t.collision)
               R == SetState(N, t.collision, "REKEYED")
    <2>1. U = remove_outbound(R, t.collision)
      BY <1>1, <1>5 DEF Redundant
    <2>2. N \in Tables /\ \A x \in SAs : /\ N[x].state = I[x].state
                                         /\ N[x].link = IF x \in {t.sa, t.collision} THEN NoSA ELSE I[x].link
      BY <1>1, <1>3, <1>5, UnlinkTable
    <2> HIDE DEF N
    <2>3. "REKEYED" \in Stages \cup {"DELETING", "DELETED"}
      BY DEF Stages
    <2>4. R \in Tables /\ \A x \in SAs : /\ R[x].state = IF x = t.collision THEN "REKEYED" ELSE N[x].state
                                         /\ R[x].link = N[x].link
      <3>1. t.collision \in SAs
        BY <1>1, <1>5
      <3> QED BY ONLY <2>2, <2>3, <3>1, SetStateTable
    <2> HIDE DEF R
    <2>0. t.collision \in SAs
      BY <1>1, <1>5
    <2> HIDE DEF U
    <2>5. U \in Tables /\ \A x \in SAs : U[x].state = R[x].state /\ U[x].link = R[x].link
      BY <2>0, <2>1, <2>4, RemoveOutTable
    <2>6. /\ U \in Tables
          /\ \A x \in SAs : x \notin {t.sa, t.new, t.collision} =>
                U[x].state = S[x].state /\ U[x].link = S[x].link
          /\ U[t.new].state = "INSTALLED" /\ U[t.new].link = NoSA
          /\ U[t.sa].state = S[t.sa].state /\ U[t.sa].link = NoSA
          /\ U[t.collision].state # "DELETING" /\ U[t.collision].link = NoSA
      BY <1>1, <1>3, <1>5, <2>2, <2>4, <2>5
    <2> QED BY <2>6 DEF U, I
  <1>6. CASE Adopted(t) /\ OtherDeleted(t)
    <2>1. U = destroy_rekeyed(I, t.collision)
      BY <1>1, <1>6 DEF Redundant
    <2>2. /\ U \in Tables /\ U[t.collision].state \in {"NONE", "DELETED"}
          /\ \A x \in SAs : (x # t.collision => U[x].state = I[x].state) /\ U[x].link = I[x].link
      BY <1>1, <1>2, <1>3, <1>6, <2>1, DestroyRekeyedTable
    <2> HIDE DEF U
    <2>3. /\ U \in Tables
          /\ \A x \in SAs : x \notin {t.sa, t.new, t.collision} =>
                U[x].state = S[x].state /\ U[x].link = S[x].link
          /\ U[t.new].state = "INSTALLED" /\ U[t.new].link = NoSA
          /\ U[t.sa].state = S[t.sa].state /\ U[t.sa].link = NoSA
          /\ U[t.collision].state # "DELETING" /\ U[t.collision].link = NoSA
      BY <1>1, <1>2, <1>3, <1>6, <2>2
    <2> QED BY <2>3 DEF U, I
  <1> QED BY <1>4, <1>5, <1>6

LEMMA RekeyWonStep ==
    ASSUME RekeyInv, NEW p \in Peers, RekeyWon(p)
    PROVE  RekeyInv'
  <1> DEFINE S == sas[p]
             t == task[p]
             U == Redundant(Install(S, t.new), t)
             T == IF ReplacementDeleted(t) THEN destroy_child_sa(U, t.new)
                  ELSE child_rekey_conclude_rekeying(U, t.sa, t.new)
  <1>1. /\ t.kind = "rekey" /\ response[p].type = "CREATED"
        /\ response' = [response EXCEPT ![p] = None] /\ UNCHANGED <<nonce, count, recreate>>
        /\ IF OldDeleted(t) THEN Become(p, destroy_rekeyed(T, t.sa), Idle, None)
           ELSE DeleteObsolete(p, T, t.sa)
    BY DEF RekeyWon, Answered
  <1>2. S \in Tables /\ t \in Tasks /\ Local(S, t)
    BY <1>1, CreatedFacts
  <1>3. /\ t.sa \in SAs /\ t.new \in SAs /\ t.sa # t.new
        /\ Adopted(t) => t.collision \in SAs /\ t.collision # t.sa /\ t.collision # t.new
        /\ \A x \in SAs : S[x].state = "DELETING" => x \in {t.sa, t.collision}
    BY <1>1, <1>2, RekeyFacts
  <1>4. \A x \in SAs : x = t.collision => Adopted(t)
    BY NamesApart DEF Adopted
  <1>0. recreate' \subseteq Peers
    BY <1>1 DEF RekeyInv
  <1> HIDE DEF S, t
  <1>5. /\ U \in Tables
        /\ \A x \in SAs : x \notin {t.sa, t.new, t.collision} =>
              U[x].state = S[x].state /\ U[x].link = S[x].link
        /\ U[t.new].state = "INSTALLED" /\ U[t.new].link = NoSA
        /\ U[t.sa].state = S[t.sa].state /\ U[t.sa].link = NoSA
        /\ Adopted(t) => U[t.collision].state # "DELETING" /\ U[t.collision].link = NoSA
    BY <1>1, <1>2, RedundantTable
  <1> HIDE DEF U
  <1>6. /\ T \in Tables /\ T[t.new].state # "DELETING" /\ T[t.new].link = NoSA
        /\ \A x \in SAs : x # t.new => T[x].state = U[x].state /\ T[x].link = U[x].link
    <2>1. CASE ReplacementDeleted(t)
      BY <1>3, <1>5, <2>1, DestroyTable
    <2>2. CASE ~ReplacementDeleted(t)
      BY <1>3, <1>5, <2>2, ConcludeTable DEF Exists
    <2> QED BY <2>1, <2>2
  <1> HIDE DEF T
  <1>7. ASSUME NEW S2 \in Tables, \A x \in SAs : S2[x].link = T[x].link /\ (x # t.sa => S2[x].state = T[x].state)
        PROVE  /\ \A x \in SAs : x \notin {t.sa, t.new, t.collision} =>
                     S2[x].state = S[x].state /\ S2[x].link = S[x].link
               /\ S2[t.new].link = NoSA
               /\ \A x \in SAs \cap {t.sa, t.collision} : S2[x].link = NoSA
               /\ \A x \in SAs : x # t.sa => S2[x].state # "DELETING"
    BY <1>3, <1>4, <1>5, <1>6, <1>7
  <1>8. CASE OldDeleted(t)
    <2> DEFINE S2 == destroy_rekeyed(T, t.sa)
    <2>1. /\ S2 \in Tables /\ Over(S2, t.sa)
          /\ \A x \in SAs : S2[x].link = T[x].link /\ (x # t.sa => S2[x].state = T[x].state)
      BY <1>3, <1>5, <1>6, DestroyRekeyedTable DEF Over
    <2>2. Become(p, S2, Idle, None)
      BY <1>1, <1>8
    <2> HIDE DEF S2
    <2>3. DeleteSound(S2, Idle)
      BY <1>7, <2>1, SimpleTasks DEF DeleteSound, Over
    <2>4. Exchange(Idle, None, None) /\ \A x : ~Listed(None, x)
      BY SimpleTasks, MessageFacts DEF Exchange
    <2>5. Completes(nonce, S, t, task[Peer(p)], S2, Idle, None)
      BY <1>7, <1>8, <2>1, <2>3, <2>4, SimpleTasks, MessageFacts DEF Completes
    <2> QED BY <1>0, <1>1, <2>2, <2>5, CompletesStep DEF S, t
  <1>9. CASE ~OldDeleted(t)
    <2> DEFINE m2 == DeleteRequest(<<t.sa>>)
               t2 == Deleting(t.sa, "REKEYED")
    <2>1. DeleteObsolete(p, T, t.sa) /\ T[t.sa].link = NoSA
      BY <1>1, <1>3, <1>5, <1>6, <1>9
    <2>2. PICK S2 \in Tables :
              /\ Become(p, S2, t2, m2)
              /\ S2[t.sa].state = "DELETING"
              /\ \A x \in SAs : (x # t.sa => S2[x].state = T[x].state) /\ S2[x].link = T[x].link
      BY <1>3, <1>6, <2>1, ObsoleteBuilds
    <2>3. /\ t2 \in Tasks /\ t2.kind = "delete" /\ t2.sa = t.sa /\ m2 \in Messages /\ m2.type = "delete"
          /\ Exchange(t2, m2, None) /\ \A x : Listed(m2, x) <=> x = t.sa
      <3>1. "REKEYED" \in Stages
        BY DEF Stages
      <3> QED BY <1>3, <3>1, DeletesOne, SimpleTasks
    <2> HIDE DEF t2, m2
    <2>4. DeleteSound(S2, t2)
      BY <1>7, <2>2, <2>3 DEF DeleteSound
    <2>5. Completes(nonce, S, t, task[Peer(p)], S2, t2, m2)
      BY <1>3, <1>7, <1>9, <2>2, <2>3, <2>4 DEF Completes, Gone
    <2> QED BY <1>0, <1>1, <2>2, <2>5, CompletesStep DEF S, t
  <1> QED BY <1>8, <1>9

\* The initiator cannot install the new CHILD_SA: a delete that no task waits for.
LEMMA RekeyLocalFailureStep ==
    ASSUME "local_winner" \notin Failures, RekeyInv, NEW p \in Peers, RekeyLocalFailure(p)
    PROVE  RekeyInv'
  <1> DEFINE S == sas[p]
             t == task[p]
             u == task[Peer(p)]
             L == IF OldDeleted(t) THEN destroy_rekeyed(S, t.sa) ELSE S
             C == destroy_child_sa(S, t.sa)
  <1>1. /\ t.kind = "rekey" /\ response[p].type = "CREATED"
        /\ response' = [response EXCEPT ![p] = None] /\ nonce' = nonce /\ Failed
    BY DEF RekeyLocalFailure, Answered
  <1>2. /\ S \in Tables /\ t \in Tasks /\ Local(S, t)
        /\ TRUE \in lost_collision(t) =>
              Adopted(t) /\ ~OtherDeleted(t) /\ nonce[t.new] < nonce[t.collision]
    BY <1>1, CreatedFacts
  <1>3. /\ t.sa \in SAs /\ t.new \in SAs /\ t.sa # t.new /\ ~Exists(S, t.new)
        /\ OldDeleted(t) \/ ~Adopted(t) => S[t.sa].link = NoSA
        /\ Adopted(t) => /\ t.collision \in SAs /\ t.collision # t.sa /\ t.collision # t.new
                         /\ S[t.collision].link \in {NoSA, t.sa}
        /\ ~OldDeleted(t) /\ Adopted(t) /\ ~OtherDeleted(t) => S[t.sa].state = "REKEYED"
        /\ OtherDeleted(t) => Adopted(t)
        /\ \A x \in SAs : S[x].state = "DELETING" =>
              (x = t.sa /\ OldDeleted(t)) \/ (Adopted(t) /\ x = t.collision /\ OtherDeleted(t))
    BY <1>1, <1>2, RekeyFacts
  <1>4. \A x \in SAs : x = t.collision => Adopted(t)
    BY NamesApart DEF Adopted
  <1>5. S[t.new].link = NoSA /\ S[t.new].state = "NONE"
    BY <1>2, <1>3, Fields DEF Exists
  <1>6. OldDeleted(t) /\ Adopted(t) => S[t.collision].link = NoSA
    BY <1>2, <1>3, NamesApart, LinkStates DEF Local
  <1>7. CASE /\ TRUE \in lost_collision(t)
             /\ Become(p, L, Untended, DeleteRequest(<<t.new>>)) /\ UNCHANGED recreate
    <2> DEFINE m2 == DeleteRequest(<<t.new>>)
    <2>1. /\ L \in Tables
          /\ \A x \in SAs : L[x].link = S[x].link /\ (x # t.sa => L[x].state = S[x].state)
          /\ IF OldDeleted(t) THEN Over(L, t.sa) ELSE L[t.sa].state = S[t.sa].state
      BY <1>2, <1>3, DestroyRekeyedTable DEF Over
    <2>2. /\ m2 \in Messages /\ m2.type = "delete" /\ Exchange(Untended, m2, None)
          /\ \A x : Listed(m2, x) <=> x = t.new
      BY <1>3, DeletesOne
    <2>3. Become(p, L, Untended, m2) /\ recreate' \subseteq Peers
      BY <1>7 DEF RekeyInv
    <2> HIDE DEF L, m2, S, t, u
    <2>4. DeleteSound(L, Untended)
      BY <1>2, <1>3, <1>7, <2>1, SimpleTasks DEF DeleteSound, Over
    <2>5. Completes(nonce, S, t, u, L, Untended, m2)
      <3>1. \/ \A x \in SAs \cap {t.sa, t.collision} : L[x].state = S[x].state /\ L[x].link = S[x].link
            \/ \A x \in SAs \cap {t.sa, t.collision} : L[x].link = NoSA
        BY <1>2, <1>3, <1>6, <1>7, <2>1
      <3>2. IF OldDeleted(t) THEN Over(L, t.sa) ELSE L[t.sa].state # "INSTALLED"
        BY <1>2, <1>3, <1>7, <2>1
      <3>3. L[t.new].link = NoSA /\ Gone(L, t.new)
        BY <1>3, <1>5, <2>1 DEF Gone
      <3> QED BY <1>2, <1>3, <1>7, <2>1, <2>2, <2>4, <3>1, <3>2, <3>3, SimpleTasks DEF Completes
    <2> QED BY <1>1, <2>3, <2>5, CompletesStep DEF S, t, u
  <1>8. CASE /\ MayFail(IF t.collision = NoSA /\ ~Rekeys(Peer(p), t.sa) THEN "local" ELSE "local_winner")
             /\ IF is_our_replacement_deleted(t)
                THEN /\ IF OldDeleted(t) THEN Become(p, C, Idle, None)
                        ELSE Become(p, C, Untended, DeleteRequest(<<t.sa>>))
                     /\ UNCHANGED recreate
                ELSE /\ Become(p, C, Untended,
                               DeleteRequest(IF OldDeleted(t) THEN <<t.new>> ELSE <<t.sa, t.new>>))
                     /\ recreate' = recreate \cup {p}
    <2>1. ~Adopted(t) /\ ~RekeysOf(u, t.sa)
      BY <1>8 DEF MayFail, Rekeys, RekeysOf, Adopted
    <2>2. C \in Tables /\ \A x \in SAs : /\ C[x].state = IF x = t.sa THEN "NONE" ELSE S[x].state
                                         /\ C[x].link = IF x = t.sa THEN NoSA ELSE S[x].link
      BY <1>2, <1>3, DestroyTable
    <2>3. recreate' \subseteq Peers
      BY <1>8 DEF RekeyInv
    <2>4. PICK t2, m2 :
            /\ Become(p, C, t2, m2)
            /\ t2 \in {Idle, Untended} /\ m2 \in Messages /\ Exchange(t2, m2, None)
            /\ \A x : Listed(m2, x) => x \in {t.sa, t.new}
            /\ ~OldDeleted(t) => Listed(m2, t.sa) \/ Listed(m2, t.new)
      <3>1. ASSUME NEW m2, m2 \in {DeleteRequest(<<t.sa>>), DeleteRequest(<<t.new>>), DeleteRequest(<<t.sa, t.new>>)}
            PROVE  /\ m2 \in Messages /\ Exchange(Untended, m2, None)
                   /\ \A x : Listed(m2, x) => x \in {t.sa, t.new}
                   /\ Listed(m2, t.sa) \/ Listed(m2, t.new)
        BY <1>3, <3>1, SimpleTasks, MessageFacts DEF Exchange, Sent
      <3>2. Exchange(Idle, None, None) /\ None \in Messages /\ \A x : ~Listed(None, x)
        BY SimpleTasks, MessageFacts DEF Exchange
      <3>3. CASE OldDeleted(t) /\ Become(p, C, Idle, None)
        BY <3>2, <3>3
      <3>4. CASE \E m2 \in {DeleteRequest(<<t.sa>>), DeleteRequest(<<t.new>>), DeleteRequest(<<t.sa, t.new>>)} :
                    Become(p, C, Untended, m2)
        BY <3>1, <3>4
      <3> QED BY <1>8, <3>3, <3>4
    <2> HIDE DEF C, S, t, u
    <2>5. t2 \in Tasks /\ t2.kind \in {"idle", "untended"}
      BY <2>4, SimpleTasks
    <2>6. DeleteSound(C, t2)
      BY <1>3, <2>1, <2>2, <2>5 DEF DeleteSound
    <2>7. Completes(nonce, S, t, u, C, t2, m2)
      <3>1. \A x \in SAs \cap {t.sa, t.collision} : C[x].link = NoSA
        BY <1>4, <2>1, <2>2
      <3>2. Over(C, t.sa) /\ C[t.sa].state = "NONE" /\ C[t.new].state = "NONE" /\ C[t.new].link = NoSA
        BY <1>3, <1>5, <2>2 DEF Over
      <3> QED BY <1>3, <2>1, <2>2, <2>4, <2>5, <2>6, <3>1, <3>2 DEF Completes, Gone
    <2> QED BY <1>1, <2>3, <2>4, <2>7, CompletesStep DEF S, t, u
  <1> QED BY <1>7, <1>8 DEF RekeyLocalFailure
-----------------------------------------------------------------------------
(* The start of a rekeying.                                                *)

LEMMA InitRekeyBoth ==
    ASSUME NEW p \in Peers, NEW q \in Peers, p # q, NEW c, NEW f,
           NEW S, NEW t, NEW m, NEW r, NEW V, NEW u, NEW n, NEW k,
           Both(p, q, c, f, S, t, m, r, V, u, n, k), t.kind = "idle",
           NEW s \in SAs, NEW new \in Created, new = <<p, c[p] + 1>>,
           S[s].state = "INSTALLED", S[s].link = NoSA,
           u.kind = "rekey" => u.new # s /\ u.collision # s,
           NEW c2, c2 = [c EXCEPT ![p] = @ + 1]
    PROVE  Both(p, q, c2, f, SetState(S, s, "REKEYING"), Rekeying(s, new), RekeyRequest(s, new), r,
                V, u, n, k)
  <1> DEFINE S2 == SetState(S, s, "REKEYING")
             t2 == Rekeying(s, new)
             m2 == RekeyRequest(s, new)
  <1>0. Side(p, q, c, f, S, t, m, r, V, u, n, k) /\ Side(q, p, c, f, V, u, n, k, S, t, m, r)
        /\ c \in [Peers -> Nat] /\ f \in [Created -> Nat]
    BY DEF Both
  <1>1. /\ S \in Tables /\ t \in Tasks /\ u \in Tasks /\ V \in Tables /\ Local(S, t) /\ Local(V, u)
        /\ Exchange(t, m, r) /\ Fresh(p, q, c, S, t, m, r, V, u, k) /\ Fresh(q, p, c, V, u, n, k, S, t, r)
        /\ LinkCause(p, V, t, m, r) /\ LinkCause(q, S, u, n, k) /\ Collides(f, u, k, S, t, m, r)
    BY <1>0 DEF Side
  <1>2. m.type = "none" /\ r.type = "none" /\ \A x : ~Listed(m, x)
    BY <1>1, MessageFacts DEF Exchange, Sent
  <1>3. S2 \in Tables /\ \A x \in SAs : /\ S2[x].state = IF x = s THEN "REKEYING" ELSE S[x].state
                                        /\ S2[x].link = S[x].link
    <2>1. "REKEYING" \in Stages \cup {"DELETING", "DELETED"}
      BY DEF Stages
    <2> QED BY <1>1, <2>1, SetStateTable
  <1>4. /\ t2 \in Tasks /\ t2.kind = "rekey" /\ t2.sa = s /\ t2.new = new
        /\ ~Adopted(t2) /\ ~t2.adopted /\ ~OldDeleted(t2) /\ ~OtherDeleted(t2)
        /\ \A x : RekeysOf(t2, x) <=> x = s
    BY SimpleTasks DEF Adopted, OldDeleted, OtherDeleted, RekeysOf
  <1>5. m2 \in Messages /\ m2.type = "rekey" /\ m2 = RekeyRequest(t2.sa, t2.new) /\ \A x : ~Listed(m2, x)
    BY <1>4, MessageFacts
  <1>6. c2 \in [Peers -> Nat]
    BY <1>0
  <1>7. /\ \A x \in SAs : Used(c, x) => Used(c2, x)
        /\ ~Used(c, new) /\ Used(c2, new) /\ new[1] = p /\ new \in SAs
    <2>1. new \in SAs /\ new # Old /\ Created \subseteq SAs /\ new[1] = p /\ new[2] = c[p] + 1
      BY NamesApart
    <2>2. \A x \in SAs : x = Old \/ (x[1] \in Peers /\ x[2] \in Nat)
      BY NamesApart, PeersAssumption DEF SAs
    <2>3. c[p] \in Nat /\ c2[p] = c[p] + 1 /\ \A x \in Peers : c[x] \in Nat /\ c2[x] \in Nat /\ c[x] <= c2[x]
      BY <1>0
    <2>4. \A x \in SAs : Used(c, x) => Used(c2, x)
      BY <2>2, <2>3 DEF Used
    <2>5. ~Used(c, new) /\ Used(c2, new)
      BY <2>1, <2>3 DEF Used
    <2> QED BY <2>1, <2>4, <2>5
  <1> HIDE DEF S2, t2, m2
  <1>8. \A x \in SAs : /\ Exists(S2, x) <=> Exists(S, x)
                       /\ Exists(S, x) => Used(c, x) /\ x # new
                       /\ Exists(V, x) => Used(c, x) /\ x # new
    BY <1>1, <1>3, <1>7 DEF Exists, Fresh
  <1>9. LinksSound(S2) /\ \A o, x \in SAs : Linked(S2, o, x) => Linked(S, o, x)
    <2>1. \A x \in SAs : IF x \in {s} THEN S2[x].link = NoSA /\ S[x].link \in {s} \cup {NoSA}
                         ELSE S2[x].link = S[x].link /\ S2[x].state = S[x].state
      BY <1>3
    <2> QED BY <1>1, <1>3, <2>1, LinksLess DEF Local
  <1>10. Local(S2, t2)
    <2>1. \A x \in SAs : S2[x].state # "DELETING"
      BY <1>1, <1>3 DEF Local, DeleteSound
    <2>2. DeleteSound(S2, t2)
      BY <1>4, <2>1 DEF DeleteSound
    <2>3. RekeySound(S2, t2)
      BY <1>3, <1>4, <1>7, <1>8 DEF RekeySound
    <2> QED BY <1>9, <2>2, <2>3 DEF Local
  <1>11. Exchange(t2, m2, r)
    BY <1>2, <1>4, <1>5 DEF Exchange, Sent
  <1>12. Fresh(p, q, c2, S2, t2, m2, r, V, u, k)
    BY <1>4, <1>5, <1>7, <1>8 DEF Fresh
  <1>13. Fresh(q, p, c2, V, u, n, k, S2, t2, r)
    <2>1. u.kind = "rekey" => u.new \in SAs
      BY <1>1, TaskFields
    <2> QED BY <1>1, <1>4, <1>7, <1>8, <2>1 DEF Fresh
  <1>14. LinkCause(q, S2, u, n, k)
    BY <1>1, <1>9 DEF LinkCause
  <1>15. LinkCause(p, V, t2, m2, r)
    <2>1. \A o, x \in SAs : ~Linked(V, o, x)
      BY <1>1, <1>2, NoOtherLinks
    <2> QED BY <2>1 DEF LinkCause
  <1>16. u.kind = "rekey" => /\ u.sa \in SAs /\ Exists(V, u.sa)
                             /\ Adopted(u) => u.collision \in SAs /\ Exists(V, u.collision)
    BY <1>1, RekeyFacts
  <1>17. Collides(f, t2, r, V, u, n, k)
    <2>1. u.kind = "rekey" => u.sa # new
      BY <1>8, <1>16
    <2> QED BY <1>2, <1>4, <2>1 DEF Collides
  <1>18. Collides(f, u, k, S2, t2, m2, r)
    <2>1. SUFFICES ASSUME u.kind = "rekey" PROVE Collides(f, u, k, S2, t2, m2, r)
      BY DEF Collides
    <2>2. /\ OldDeleted(u) => Gone(S, u.sa)
          /\ k.type = "CHILD_SA_NOT_FOUND" => Over(S, u.sa)
          /\ Adopted(u) => S[u.sa].state # "INSTALLED" /\ (OldDeleted(u) \/ k.type = "CREATED")
          /\ Adopted(u) /\ OtherDeleted(u) => k.type = "CREATED" /\ f[u.collision] < f[u.new]
      BY <1>1, <1>2, <2>1 DEF Collides, RekeysOf
    <2>3. /\ Gone(S, u.sa) \/ Over(S, u.sa) \/ Adopted(u) => u.sa # s
          /\ u.sa # s => S2[u.sa].state = S[u.sa].state
      BY <1>3, <1>16, <2>1, <2>2 DEF Gone, Over
    <2>4. u.new # s /\ u.collision # s /\ (Adopted(u) => u.collision # new)
      BY <1>8, <1>16, <2>1
    <2> QED BY <1>4, <1>5, <2>1, <2>2, <2>3, <2>4 DEF Collides, Gone, Over
  <1> QED BY <1>0, <1>3, <1>4, <1>5, <1>6, <1>10, <1>11, <1>12, <1>13, <1>14, <1>15, <1>17, <1>18
           DEF Both, Side, S2, t2, m2

LEMMA InitRekeyStep ==
    ASSUME Early = {}, RekeyInv, NEW p \in Peers, NEW s \in SAs, InitRekey(p, s)
    PROVE  RekeyInv'
  <1> DEFINE q == Peer(p)
             new == <<p, count.rekeys[p] + 1>>
  <1>0. q \in Peers /\ q # p /\ count \in Counts
    BY TwoPeers DEF RekeyInv
  <1>1. Both(p, q, count.rekeys, nonce, sas[p], task[p], request[p], response[p],
             sas[q], task[q], request[q], response[q])
    BY InvBoth DEF StateOf
  <1>2. /\ task[p].kind = "idle" /\ sas[p][s].state = "INSTALLED" /\ sas[p][s].link = NoSA
        /\ task[q].kind = "rekey" => task[q].new # s /\ task[q].collision # s
        /\ Become(p, SetState(sas[p], s, "REKEYING"), Rekeying(s, new), RekeyRequest(s, new))
        /\ count' = [count EXCEPT !.rekeys[p] = @ + 1]
        /\ UNCHANGED <<response, nonce, recreate>>
        /\ p \in Rekeyers /\ count.rekeys[p] < MaxRekeys
    BY DEF InitRekey, Concluded, Collided
  <1>3. new \in Created
    <2>1. count.rekeys[p] \in Nat /\ MaxRekeys \in Nat
      BY <1>0, BoundsAssumption DEF Counts
    <2>2. count.rekeys[p] + 1 \in 1..MaxRekeys
      BY <1>2, <2>1
    <2> QED BY <1>2, <2>2 DEF Created
  <1>4. count' \in Counts /\ count'.rekeys = [count.rekeys EXCEPT ![p] = @ + 1]
    BY <1>0, <1>2 DEF Counts
  <1>5. recreate' \subseteq Peers
    BY <1>2 DEF RekeyInv
  <1> HIDE DEF q
  <1>6. Both(p, q, count'.rekeys, nonce, SetState(sas[p], s, "REKEYING"), Rekeying(s, new),
             RekeyRequest(s, new), response[p], sas[q], task[q], request[q], response[q])
    BY <1>0, <1>1, <1>2, <1>3, <1>4, InitRekeyBoth
  <1> QED BY <1>2, <1>4, <1>5, <1>6, OwnStep DEF q
-----------------------------------------------------------------------------
(* The requests of the peer.                                               *)

\* The step of p that answers the request of its peer with w.
LEMMA AnswerStep ==
    ASSUME RekeyInv, NEW p \in Peers, NEW S2, NEW t2, NEW w,
           Both(p, Peer(p), count.rekeys, nonce, S2, t2, request[p], response[p],
                sas[Peer(p)], task[Peer(p)], None, Response(w)),
           sas' = [sas EXCEPT ![p] = S2] \/ (UNCHANGED sas /\ S2 = sas[p]),
           task' = [task EXCEPT ![p] = t2] \/ (UNCHANGED task /\ t2 = task[p]),
           request' = [request EXCEPT ![Peer(p)] = None], Answer(p, w),
           UNCHANGED count \/ Failed, UNCHANGED <<nonce, recreate>>
    PROVE  RekeyInv'
  <1> DEFINE q == Peer(p)
  <1>1. q \in Peers /\ q # p
    BY TwoPeers
  <1>2. /\ PerPeer(sas) /\ PerPeer(task) /\ PerPeer(request) /\ PerPeer(response)
        /\ DOMAIN sas = Peers /\ DOMAIN task = Peers /\ DOMAIN request = Peers
        /\ DOMAIN response = Peers
    BY PerPeerKept DEF RekeyInv
  <1>3. /\ sas'[p] = S2 /\ task'[p] = t2 /\ request'[p] = request[p] /\ response'[p] = response[p]
        /\ sas'[q] = sas[q] /\ task'[q] = task[q] /\ request'[q] = None
        /\ response'[q] = Response(w)
    BY <1>1, <1>2 DEF Answer
  <1>6. PerPeer(sas)' /\ PerPeer(task)' /\ PerPeer(request)' /\ PerPeer(response)'
    <2>1. PerPeer(sas') /\ PerPeer(task')
      BY <1>2, PerPeerKept
    <2>2. PerPeer(request') /\ PerPeer(response')
      BY <1>1, <1>2, PerPeerKept DEF Answer
    <2> QED BY <2>1, <2>2 DEF PerPeer
  <1>4. count' \in Counts /\ count'.rekeys = count.rekeys /\ recreate' \subseteq Peers
    BY CountSteps DEF RekeyInv
  <1> HIDE DEF q
  <1>5. StateOf(p, q)'
    BY <1>3, <1>4 DEF StateOf, q
  <1> QED BY <1>4, <1>5, <1>6, BothInv DEF q

\* A request to rekey that is being processed.
LEMMA RequestFacts ==
    ASSUME NEW u, NEW n, NEW k, Exchange(u, n, k), n.type = "rekey"
    PROVE  u.kind = "rekey" /\ n.sa = u.sa /\ n.new = u.new /\ k.type = "none" /\ \A x : ~Listed(n, x)
  BY MessageFacts DEF Exchange, Sent, RekeyRequest, DeleteRequest

LEMMA RefuseBoth ==
    ASSUME NEW p \in Peers, NEW q \in Peers, p # q, NEW c, NEW f,
           NEW S, NEW t, NEW m, NEW r, NEW V, NEW u, NEW n, NEW k,
           Both(p, q, c, f, S, t, m, r, V, u, n, k), n.type = "rekey",
           NEW w \in Failing, w = "CHILD_SA_NOT_FOUND" => Over(S, u.sa)
    PROVE  Both(p, q, c, f, S, t, m, r, V, u, None, Response(w))
  <1> DEFINE k2 == Response(w)
  <1>0. Side(p, q, c, f, S, t, m, r, V, u, n, k) /\ Side(q, p, c, f, V, u, n, k, S, t, m, r)
    BY DEF Both
  <1>1. /\ S \in Tables /\ t \in Tasks /\ u \in Tasks /\ Local(S, t)
        /\ Exchange(u, n, k) /\ Fresh(p, q, c, S, t, m, r, V, u, k) /\ Fresh(q, p, c, V, u, n, k, S, t, r)
        /\ LinkCause(q, S, u, n, k)
        /\ Collides(f, t, r, V, u, n, k) /\ Collides(f, u, k, S, t, m, r)
    BY <1>0 DEF Side
  <1>2. u.kind = "rekey" /\ k.type = "none" /\ \A x : ~Listed(n, x)
    BY <1>1, RequestFacts
  <1>3. /\ k2.type = w /\ w # "CREATED" /\ None \in Messages /\ None.type = "none"
        /\ \A x : ~Listed(None, x)
    BY MessageFacts DEF Failing
  <1> HIDE DEF k2
  <1>4. Exchange(u, None, k2)
    BY <1>2, <1>3 DEF Exchange
  <1>5. Fresh(p, q, c, S, t, m, r, V, u, k2)
    BY <1>1, <1>2, <1>3 DEF Fresh
  <1>6. Fresh(q, p, c, V, u, None, k2, S, t, r)
    BY <1>1, <1>2, <1>3 DEF Fresh
  <1>7. LinkCause(q, S, u, None, k2)
    <2>1. \A o, s \in SAs : ~Linked(S, o, s)
      BY <1>1, <1>2, NoOtherLinks
    <2> QED BY <2>1 DEF LinkCause
  <1>8. Collides(f, t, r, V, u, None, k2)
    BY <1>1, <1>2, <1>3 DEF Collides
  <1>9. Adopted(u) /\ ~OldDeleted(u) => ~Over(S, u.sa)
    <2>1. SUFFICES ASSUME Adopted(u), ~OldDeleted(u) PROVE ~Over(S, u.sa)
      OBVIOUS
    <2>2. \/ RekeysOf(t, u.sa) /\ ~Adopted(t)
          \/ t.kind = "delete" /\ t.sa = u.sa
      BY <1>1, <1>2, <2>1 DEF Collides
    <2>3. CASE RekeysOf(t, u.sa) /\ ~Adopted(t)
      <3>1. t.kind = "rekey" /\ t.sa = u.sa /\ RekeysOf(u, t.sa)
        BY <1>2, <2>3 DEF RekeysOf
      <3>2. ~OldDeleted(t)
        BY <1>1, <3>1 DEF Collides
      <3> QED BY <1>1, <2>3, <3>1, <3>2, RekeyFacts DEF Over
    <2>4. CASE t.kind = "delete" /\ t.sa = u.sa
      BY <1>1, <2>4 DEF Local, DeleteSound, Over
    <2> QED BY <2>2, <2>3, <2>4
  <1>10. Collides(f, u, k2, S, t, m, r)
    BY <1>1, <1>2, <1>3, <1>9 DEF Collides
  <1> QED BY <1>0, <1>3, <1>4, <1>5, <1>6, <1>7, <1>8, <1>10 DEF Both, Side, k2

\* The new CHILD_SA of the peer is installed and linked with the old one.
CreateTable(S, o, s) == Link(SetState(Install(S, s), o, "REKEYED"), o, s)

LEMMA CreateTableFacts ==
    ASSUME NEW S \in Tables, NEW o \in SAs, NEW s \in SAs, o # s
    PROVE  LET T == CreateTable(S, o, s) IN
           /\ T \in Tables
           /\ \A x \in SAs : /\ T[x].state = IF x = o THEN "REKEYED" ELSE IF x = s THEN "INSTALLED" ELSE S[x].state
                             /\ T[x].link = IF x = o THEN s ELSE IF x = s THEN o ELSE S[x].link
  <1> DEFINE I == Install(S, s)
             R == SetState(I, o, "REKEYED")
  <1>1. I \in Tables /\ \A x \in SAs : /\ I[x].state = IF x = s THEN "INSTALLED" ELSE S[x].state
                                       /\ I[x].link = IF x = s THEN NoSA ELSE S[x].link
    BY InstallTable
  <1>2. CreateTable(S, o, s) = Link(R, o, s)
    BY DEF CreateTable
  <1> HIDE DEF I
  <1>3. "REKEYED" \in Stages \cup {"DELETING", "DELETED"}
    BY DEF Stages
  <1>4. R \in Tables /\ \A x \in SAs : /\ R[x].state = IF x = o THEN "REKEYED" ELSE I[x].state
                                       /\ R[x].link = I[x].link
    BY <1>1, <1>3, SetStateTable
  <1> HIDE DEF R
  <1>5. Exists(R, o) /\ Exists(R, s)
    BY <1>1, <1>4 DEF Exists
  <1> QED BY <1>1, <1>2, <1>4, <1>5, LinkTable

LEMMA CreateBoth ==
    ASSUME NEW p \in Peers, NEW q \in Peers, p # q, NEW c, NEW f,
           NEW S, NEW t, NEW m, NEW r, NEW V, NEW u, NEW n, NEW k,
           Both(p, q, c, f, S, t, m, r, V, u, n, k), n.type = "rekey", S[u.sa].state \in Stages
    PROVE  Both(p, q, c, f, CreateTable(S, u.sa, u.new), collide(t, u.sa, u.new, TRUE), m, r,
                V, u, None, Response("CREATED"))
  <1> DEFINE k2 == Response("CREATED")
             S2 == CreateTable(S, u.sa, u.new)
             t2 == collide(t, u.sa, u.new, TRUE)
  <1>0. /\ Side(p, q, c, f, S, t, m, r, V, u, n, k) /\ Side(q, p, c, f, V, u, n, k, S, t, m, r)
        /\ f \in [Created -> Nat] /\ c \in [Peers -> Nat]
    BY DEF Both
  <1>1. /\ S \in Tables /\ t \in Tasks /\ u \in Tasks /\ V \in Tables /\ Local(S, t) /\ Local(V, u)
        /\ Exchange(t, m, r) /\ Exchange(u, n, k)
        /\ Fresh(p, q, c, S, t, m, r, V, u, k) /\ Fresh(q, p, c, V, u, n, k, S, t, r)
        /\ LinkCause(q, S, u, n, k) /\ LinkCause(p, V, t, m, r)
        /\ Collides(f, t, r, V, u, n, k) /\ Collides(f, u, k, S, t, m, r)
    BY <1>0 DEF Side
  <1>2. u.kind = "rekey" /\ k.type = "none" /\ \A x : ~Listed(n, x)
    BY <1>1, RequestFacts
  <1>3. /\ k2.type = "CREATED" /\ None \in Messages /\ None.type = "none"
        /\ \A x : ~Listed(None, x)
    BY MessageFacts
  <1>4. /\ u.sa \in SAs /\ u.new \in SAs /\ u.new \in Created /\ u.new[1] = q /\ u.new # NoSA
        /\ ~Exists(S, u.new) /\ Used(c, u.new) /\ u.sa # u.new
        /\ Adopted(u) => u.collision \in SAs
    BY <1>1, <1>2, RekeyFacts, NamesApart DEF Fresh
  <1>5. \A x \in SAs : S[x].link = NoSA
    <2>1. \A o, s \in SAs : ~Linked(S, o, s)
      BY <1>1, <1>2, NoOtherLinks
    <2> QED BY <1>1, <2>1 DEF Local, LinksSound, Linked
  <1>6. S2 \in Tables /\ \A x \in SAs :
            /\ S2[x].state = IF x = u.sa THEN "REKEYED" ELSE IF x = u.new THEN "INSTALLED" ELSE S[x].state
            /\ S2[x].link = IF x = u.sa THEN u.new ELSE IF x = u.new THEN u.sa ELSE NoSA
    <2>1. S2 \in Tables /\ \A x \in SAs :
            /\ S2[x].state = IF x = u.sa THEN "REKEYED" ELSE IF x = u.new THEN "INSTALLED" ELSE S[x].state
            /\ S2[x].link = IF x = u.sa THEN u.new ELSE IF x = u.new THEN u.sa ELSE S[x].link
      <3> DEFINE o == u.sa
                 s == u.new
                 T == CreateTable(S, o, s)
      <3>1. S \in Tables /\ o \in SAs /\ s \in SAs /\ o # s
        BY <1>1, <1>4
      <3> HIDE DEF o, s
      <3>2. T \in Tables /\ \A x \in SAs :
              /\ T[x].state = IF x = o THEN "REKEYED" ELSE IF x = s THEN "INSTALLED" ELSE S[x].state
              /\ T[x].link = IF x = o THEN s ELSE IF x = s THEN o ELSE S[x].link
        BY ONLY <3>1, CreateTableFacts
      <3> QED BY <3>2 DEF o, s
    <2> HIDE DEF S2
    <2> QED BY <1>5, <2>1
  <1>7. ~OldDeleted(u)
    BY <1>1, <1>2 DEF Collides, Gone, Stages
  <1>8. RekeysOf(t, u.sa) => ~OldDeleted(t) /\ ~OtherDeleted(t) /\ ~Adopted(t) /\ RekeysOf(u, t.sa)
    <2>1. SUFFICES ASSUME t.kind = "rekey", t.sa = u.sa
                   PROVE  ~OldDeleted(t) /\ ~OtherDeleted(t) /\ ~Adopted(t) /\ RekeysOf(u, t.sa)
      BY DEF RekeysOf
    <2>2. RekeysOf(u, t.sa)
      BY <1>2, <2>1 DEF RekeysOf
    <2>3. ~OldDeleted(t) /\ ~Adopted(t)
      BY <1>1, <1>2, <2>1, <2>2 DEF Collides
    <2> QED BY <1>1, <2>1, <2>2, <2>3, RekeyFacts
  <1>9. IF RekeysOf(t, u.sa)
        THEN /\ t2 \in Tasks /\ t2.kind = "rekey" /\ t2.sa = t.sa /\ t2.new = t.new
             /\ t2.collision = u.new /\ t2.adopted /\ t2.flags = t.flags
        ELSE t2 = t
    <2>1. CASE RekeysOf(t, u.sa)
      <3>1. t2 = [t EXCEPT !.collision = u.new, !.adopted = TRUE]
        BY <1>8, <2>1 DEF collide, RekeysOf, Adopted
      <3>2. t.kind = "rekey"
        BY <2>1 DEF RekeysOf
      <3> HIDE DEF t2
      <3> DEFINE R == [kind : {"rekey"}, sa : SAs, new : Created, collision : Created \cup {NoSA},
                       adopted : BOOLEAN, flags : SUBSET {"OLD_SA_DELETED", "OTHER_DELETED"},
                       deleted : SUBSET SAs, retry : BOOLEAN]
      <3>3. t \in R
        BY <1>1, <3>2 DEF Tasks, Idle, Untended
      <3>4. /\ t2 \in R /\ t2.kind = "rekey" /\ t2.sa = t.sa /\ t2.new = t.new
            /\ t2.collision = u.new /\ t2.adopted = TRUE /\ t2.flags = t.flags
        BY <1>4, <3>1, <3>3
      <3>5. t2 \in Tasks
        BY <3>4 DEF Tasks
      <3> QED BY <2>1, <3>4, <3>5
    <2>2. CASE ~RekeysOf(t, u.sa)
      BY <2>2 DEF collide, RekeysOf
    <2> QED BY <2>1, <2>2
  <1> HIDE DEF S2, t2, k2
  <1>10. /\ t2 \in Tasks /\ t2.kind = t.kind
         /\ t.kind = "rekey" => t2.sa = t.sa /\ t2.new = t.new
         /\ t.kind = "delete" => t2.sa = t.sa
         /\ t.kind = "rekey" => (OldDeleted(t2) <=> OldDeleted(t)) /\ (OtherDeleted(t2) <=> OtherDeleted(t))
         /\ t.kind = "rekey" => IF t.sa = u.sa THEN t2.collision = u.new /\ Adopted(t2) /\ t2.adopted
                                ELSE t2 = t
    BY <1>1, <1>4, <1>9 DEF RekeysOf, OldDeleted, OtherDeleted, Adopted
  <1>11. \A x : RekeysOf(t2, x) <=> RekeysOf(t, x)
    BY <1>10 DEF RekeysOf
  <1>12. t.kind = "rekey" => /\ t.sa \in SAs /\ t.new \in SAs /\ t.sa # u.new /\ t.new # u.new /\ t.new # u.sa
                             /\ t.sa # u.sa /\ Adopted(t) => t.collision \in SAs /\ t.collision \notin {u.sa, u.new}
    <2>1. SUFFICES ASSUME t.kind = "rekey"
                   PROVE  /\ t.sa \in SAs /\ t.new \in SAs /\ t.sa # u.new /\ t.new # u.new /\ t.new # u.sa
                          /\ Adopted(t) => t.collision \in SAs /\ t.collision \notin {u.sa, u.new}
      OBVIOUS
    <2>2. /\ t.sa \in SAs /\ t.new \in SAs
          /\ Adopted(t) => t.collision \in SAs /\ Exists(S, t.collision)
      BY <1>1, <2>1, RekeyFacts
    <2>3. t.sa # u.new /\ t.new # u.sa /\ (Adopted(t) => t.collision # u.sa)
      BY <1>1, <1>2, <2>1 DEF Collides, RekeysOf
    <2>4. t.new[1] = p
      BY <1>1, <2>1 DEF Fresh
    <2> QED BY <1>4, <2>2, <2>3, <2>4
  <1>13. \A x \in SAs : S2[x].state = "DELETING" => S[x].state = "DELETING" /\ x \notin {u.sa, u.new}
    BY <1>6
  <1>14. DeleteSound(S2, t2)
    <2>1. t.kind = "delete" => S2[t2.sa].state = "DELETING"
      <3>1. SUFFICES ASSUME t.kind = "delete" PROVE S2[t.sa].state = "DELETING"
        BY <1>10
      <3>2. t.sa \in SAs /\ S[t.sa].state = "DELETING"
        BY <1>1, <3>1, TaskFields DEF Local, DeleteSound
      <3> QED BY <1>4, <1>6, <3>2 DEF Exists, Stages
    <2>2. ASSUME NEW x \in SAs, S2[x].state = "DELETING"
          PROVE  (t2.kind = "delete" /\ t2.sa = x) \/ (t2.kind = "rekey" /\ x \in {t2.sa, t2.collision})
      <3>1. S[x].state = "DELETING" /\ x \notin {u.sa, u.new}
        BY <1>13, <2>2
      <3>2. (t.kind = "delete" /\ t.sa = x) \/ (t.kind = "rekey" /\ x \in {t.sa, t.collision})
        BY <1>1, <3>1 DEF Local, DeleteSound
      <3>3. t.kind = "rekey" /\ t.sa = u.sa => x \notin {t.sa, t.collision}
        <4>1. SUFFICES ASSUME t.kind = "rekey", t.sa = u.sa PROVE x # t.collision
          BY <3>1
        <4> QED BY <1>8, <4>1, NamesApart DEF RekeysOf, Adopted
      <3> QED BY <1>10, <3>2, <3>3
    <2> QED BY <1>10, <2>1, <2>2 DEF DeleteSound
  <1>15. LinksSound(S2)
    BY <1>4, <1>6 DEF LinksSound, Linked
  <1>16. RekeySound(S2, t2)
    <2>1. SUFFICES ASSUME t.kind = "rekey" PROVE RekeySound(S2, t2)
      BY <1>10 DEF RekeySound
    <2>2. ~Exists(S2, t2.new)
      BY <1>1, <1>6, <1>10, <1>12, <2>1, RekeyFacts DEF Exists
    <2>3. CASE t.sa = u.sa
      <3>1. ~OldDeleted(t2) /\ ~OtherDeleted(t2)
        BY <1>8, <1>10, <2>1, <2>3 DEF RekeysOf
      <3>2. /\ t2.sa = u.sa /\ t2.collision = u.new /\ Adopted(t2) /\ t2.adopted /\ t2.kind = "rekey"
        BY <1>10, <2>1, <2>3
      <3> QED BY <1>4, <1>6, <2>2, <3>1, <3>2 DEF RekeySound
    <2>4. CASE t.sa # u.sa
      <3>1. t2 = t /\ RekeySound(S, t)
        BY <1>1, <1>10, <2>1, <2>4 DEF Local
      <3>2. S2[t.sa].state = S[t.sa].state /\ S2[t.sa].link = S[t.sa].link
        BY <1>5, <1>6, <1>12, <2>1, <2>4
      <3>3. Adopted(t) => /\ S2[t.collision].state = S[t.collision].state
                          /\ S2[t.collision].link = S[t.collision].link
        BY <1>5, <1>6, <1>12, <2>1, <2>4
      <3> QED BY <2>1, <2>2, <3>1, <3>2, <3>3 DEF RekeySound
    <2> QED BY <2>3, <2>4
  <1>17. Exchange(u, None, k2)
    BY <1>2, <1>3 DEF Exchange
  <1>18. Exchange(t2, m, r)
    BY <1>1, <1>10 DEF Exchange, Sent
  <1>19. Fresh(p, q, c, S2, t2, m, r, V, u, k2)
    <2>1. \A s \in SAs : Exists(S2, s) => Used(c, s)
      <3>1. Exists(S, u.sa)
        BY DEF Exists, Stages
      <3> QED BY <1>1, <1>4, <1>6, <3>1 DEF Fresh, Exists
    <2>2. t2.kind = "rekey" =>
            /\ t2.new[1] = p /\ Used(c, t2.new)
            /\ r.type # "CREATED" => ~Exists(V, t2.new)
            /\ Adopted(t2) => t2.collision[1] = q
      BY <1>1, <1>4, <1>10 DEF Fresh
    <2>3. \A s \in SAs : Listed(m, s) => Gone(S2, s) /\ Used(c, s)
      <3>1. \A s \in SAs : Listed(m, s) => Gone(S, s) /\ Used(c, s) /\ s # u.new
        BY <1>1, <1>2 DEF Fresh
      <3> QED BY <1>6, <3>1 DEF Gone, Stages
    <2> QED BY <1>3, <2>1, <2>2, <2>3 DEF Fresh
  <1>20. Fresh(q, p, c, V, u, None, k2, S2, t2, r)
    BY <1>1, <1>3 DEF Fresh
  <1>21. LinkCause(q, S2, u, None, k2)
    <2>1. ASSUME NEW o \in SAs, NEW s \in SAs, Linked(S2, o, s) PROVE o = u.sa /\ s = u.new
      BY <1>4, <1>6, <2>1, NamesApart DEF Linked
    <2> QED BY <1>2, <1>3, <1>4, <2>1 DEF LinkCause, RekeysOf
  <1>22. LinkCause(p, V, t2, m, r)
    <2>1. \A x, y : RekeysOf(t, x) /\ t.new = y => RekeysOf(t2, x) /\ t2.new = y
      BY <1>10, <1>11 DEF RekeysOf
    <2> QED BY <1>1, <2>1 DEF LinkCause
  <1>23. Collides(f, t2, r, V, u, None, k2)
    <2>1. SUFFICES ASSUME t.kind = "rekey" PROVE Collides(f, t2, r, V, u, None, k2)
      BY <1>10 DEF Collides
    <2>2. CASE t.sa = u.sa
      <3>1. /\ t2.sa = u.sa /\ t2.new = t.new /\ t2.collision = u.new /\ ~OldDeleted(t2) /\ ~OtherDeleted(t2)
            /\ RekeysOf(u, t2.sa) /\ ~RekeysOf(u, u.new)
        BY <1>4, <1>8, <1>10, <2>1, <2>2 DEF RekeysOf
      <3>2. Adopted(u) => r.type = "CREATED"
        BY <1>1, <1>2, <2>1, <2>2 DEF Collides, RekeysOf
      <3>3. r.type # "CHILD_SA_NOT_FOUND"
        <4>1. r.type = "CHILD_SA_NOT_FOUND" => Over(V, u.sa)
          BY <1>1, <2>1, <2>2 DEF Collides
        <4>2. ~Over(V, u.sa)
          BY <1>1, <1>2, <1>7, RekeyFacts DEF Over
        <4> QED BY <4>1, <4>2
      <3> QED BY <1>2, <1>3, <1>12, <2>1, <3>1, <3>2, <3>3 DEF Collides
    <2>3. CASE t.sa # u.sa
      <3>1. t2 = t /\ ~RekeysOf(u, t.sa)
        BY <1>10, <2>1, <2>3 DEF RekeysOf
      <3> QED BY <1>1, <1>2, <1>3, <3>1 DEF Collides
    <2> QED BY <2>2, <2>3
  <1>24. Collides(f, u, k2, S2, t2, m, r)
    <2>1. S2[u.sa].state # "INSTALLED"
      BY <1>4, <1>6
    <2>2. t2.kind = "rekey" => t2.sa # u.new
      BY <1>10, <1>12
    <2>3. Adopted(u) =>
             /\ RekeysOf(t2, u.sa) => t2.new = u.collision /\ r.type = "CREATED"
             /\ ~OtherDeleted(u) /\ ~Listed(m, u.collision)
             /\ t2.kind = "rekey" /\ t2.new = u.collision => t2.sa = u.sa
             /\ ~RekeysOf(t2, u.collision)
      <3>1. RekeysOf(t, u.sa) => t.kind = "rekey"
        BY DEF RekeysOf
      <3> QED BY <1>1, <1>2, <1>10, <1>11, <3>1 DEF Collides
    <2> QED BY <1>3, <1>7, <2>1, <2>2, <2>3 DEF Collides
  <1> QED BY <1>0, <1>3, <1>6, <1>10, <1>14, <1>15, <1>16, <1>17, <1>18, <1>19, <1>20, <1>21, <1>22,
             <1>23, <1>24 DEF Both, Side, Local, S2, t2, k2

LEMMA RespondRekeyStep ==
    ASSUME "passive" \notin Failures, RekeyInv, NEW p \in Peers, RespondRekey(p)
    PROVE  RekeyInv'
  <1> DEFINE q == Peer(p)
             n == request[q]
             u == task[q]
             S == sas[p]
             t == task[p]
  <1>0. q \in Peers /\ q # p
    BY TwoPeers
  <1>1. Both(p, q, count.rekeys, nonce, S, t, request[p], response[p],
             sas[q], u, n, response[q])
    BY InvBoth DEF StateOf
  <1>2. n.type = "rekey" /\ request' = [request EXCEPT ![q] = None] /\ UNCHANGED <<nonce, recreate>>
    BY DEF RespondRekey, Deliver
  <1>3. n.sa = u.sa /\ n.new = u.new /\ u.kind = "rekey"
    BY <1>1, <1>2, RequestFacts DEF Both, Side
  <1>6. ASSUME MayFail(IF Rekeys(p, n.sa) THEN "passive" ELSE "not_installed")
        PROVE  collide(t, n.sa, n.new, FALSE) = t
    <2>1. ~Rekeys(p, n.sa)
      BY <1>6 DEF MayFail
    <2> QED BY <2>1 DEF Rekeys, collide
  <1>7. Failing = {"CHILD_SA_NOT_FOUND", "TEMPORARY_FAILURE", "NO_PROPOSAL_CHOSEN", "INVALID_KE_PAYLOAD"}
    BY DEF Failing
  <1>8. DOMAIN task = Peers
    BY PerPeerKept DEF RekeyInv
  <1>9. \/ /\ S[n.sa].state \in {"NONE", "DELETED"} /\ Answer(p, "CHILD_SA_NOT_FOUND")
           /\ UNCHANGED <<sas, task, count>>
        \/ Answer(p, "TEMPORARY_FAILURE") /\ UNCHANGED <<sas, task, count>>
        \/ /\ S[n.sa].state \in Stages /\ UNCHANGED count /\ Answer(p, "CREATED")
           /\ sas' = [sas EXCEPT ![p] = CreateTable(S, n.sa, n.new)]
           /\ task' = [task EXCEPT ![p] = collide(t, n.sa, n.new, TRUE)]
        \/ /\ MayFail(IF Rekeys(p, n.sa) THEN "passive" ELSE "not_installed") /\ Failed
           /\ task' = [task EXCEPT ![p] = collide(t, n.sa, n.new, FALSE)]
           /\ Answer(p, "NO_PROPOSAL_CHOSEN") /\ UNCHANGED sas
        \/ Failed /\ Answer(p, "NO_PROPOSAL_CHOSEN") /\ UNCHANGED <<sas, task>>
        \/ Failed /\ Answer(p, "INVALID_KE_PAYLOAD") /\ UNCHANGED <<sas, task>>
    BY <1>8 DEF RespondRekey, Stages, CreateTable
  <1> HIDE DEF q, n, u, S, t
  <1>10. ASSUME NEW w \in Failing, w = "CHILD_SA_NOT_FOUND" => Over(S, u.sa),
                Answer(p, w), UNCHANGED sas, UNCHANGED count \/ Failed,
                UNCHANGED task \/ task' = [task EXCEPT ![p] = t]
         PROVE  RekeyInv'
    <2>1. Both(p, q, count.rekeys, nonce, S, t, request[p], response[p],
               sas[q], u, None, Response(w))
      BY <1>0, <1>1, <1>2, <1>10, RefuseBoth
    <2> QED BY <1>2, <1>10, <2>1, AnswerStep DEF q, u, S, t
  <1>11. ASSUME S[n.sa].state \in Stages, UNCHANGED count, Answer(p, "CREATED"),
                sas' = [sas EXCEPT ![p] = CreateTable(S, n.sa, n.new)],
                task' = [task EXCEPT ![p] = collide(t, n.sa, n.new, TRUE)]
         PROVE  RekeyInv'
    <2>1. Both(p, q, count.rekeys, nonce, CreateTable(S, u.sa, u.new), collide(t, u.sa, u.new, TRUE),
               request[p], response[p], sas[q], u, None, Response("CREATED"))
      BY <1>0, <1>1, <1>2, <1>3, <1>11, CreateBoth
    <2> QED BY <1>2, <1>3, <1>11, <2>1, AnswerStep DEF q, u
  <1> QED BY <1>3, <1>6, <1>7, <1>9, <1>10, <1>11 DEF Over
-----------------------------------------------------------------------------
(* A DELETE request has one or two SPIs.  The folds over them, and over    *)
(* the entries made of them, are one, two or no steps.                     *)

Processed(a, L) == FoldLeft(process_payload, a, L)
Destroyed(M, l) == FoldLeft(destroy_and_reestablish, M, l)

LEMMA SmallMax ==
    /\ Max({1}) = 1 /\ {1} \ {1} = {}
    /\ Max({2}) = 2 /\ {2} \ {2} = {}
    /\ Max({1, 2}) = 2 /\ {1, 2} \ {2} = {1}
  <1>1. Max({1}) = 1
    BY DEF Max
  <1>2. Max({2}) = 2
    BY DEF Max
  <1>3. Max({1, 2}) = 2
    BY DEF Max
  <1> QED BY <1>1, <1>2, <1>3

LEMMA ProcessFold ==
    ASSUME NEW a, NEW L, DOMAIN L \in {{}, {1}, {1, 2}}
    PROVE  Processed(a, L) =
             IF DOMAIN L = {} THEN a
             ELSE IF DOMAIN L = {1} THEN process_payload(a, L[1])
             ELSE process_payload(process_payload(a, L[1]), L[2])
  <1> DEFINE D == DOMAIN L
             P(h) == h = [s \in SUBSET D |-> IF s = {} THEN a ELSE process_payload(h[s \ {Max(s)}], L[Max(s)])]
             one == process_payload(a, L[1])
             two == process_payload(one, L[2])
             r == IF D = {} THEN a ELSE IF D = {1} THEN one ELSE two
  <1>1. D \in {{}, {1}, {1, 2}}
    OBVIOUS
  <1> HIDE DEF D
  <1>2. \E h : P(h)
    <2> DEFINE g == [s \in SUBSET D |-> IF s = {} THEN a ELSE IF s = {1} THEN one
                                        ELSE IF s = {2} THEN process_payload(a, L[2]) ELSE two]
    <2>1. P(g)
      <3>1. ASSUME NEW s \in SUBSET D, s # {}
            PROVE  g[s] = process_payload(g[s \ {Max(s)}], L[Max(s)])
        <4>1. /\ s = {1} => Max(s) = 1 /\ s \ {Max(s)} = {}
              /\ s = {2} => Max(s) = 2 /\ s \ {Max(s)} = {}
              /\ s = {1, 2} => Max(s) = 2 /\ s \ {Max(s)} = {1}
          BY SmallMax
        <4>2. s \in {{1}, {2}, {1, 2}} /\ {} \in SUBSET D
          BY <1>1, <3>1
        <4>3. CASE s = {1}
          <5>1. g[s] = one /\ g[s \ {Max(s)}] = a
            BY <4>1, <4>2, <4>3
          <5> QED BY <4>1, <4>3, <5>1
        <4>4. CASE s = {2}
          <5>1. g[s] = process_payload(a, L[2]) /\ g[s \ {Max(s)}] = a
            BY <4>1, <4>2, <4>4
          <5> QED BY <4>1, <4>4, <5>1
        <4>5. CASE s = {1, 2}
          <5>1. {1} \in SUBSET D
            BY <4>5
          <5>2. g[s] = two /\ g[s \ {Max(s)}] = one
            BY <4>1, <4>5, <5>1
          <5> QED BY <4>1, <4>5, <5>2
        <4> QED BY <4>2, <4>3, <4>4, <4>5
      <3> QED BY <3>1
    <2> QED BY <2>1
  <1>3. \A h : P(h) => h[D] = r
    <2>1. SUFFICES ASSUME NEW h, P(h) PROVE h[D] = r
      OBVIOUS
    <2>2. h[{}] = a
      BY <2>1
    <2>3. \A s \in SUBSET D : s # {} => h[s] = process_payload(h[s \ {Max(s)}], L[Max(s)])
      BY <2>1
    <2>4. 1 \in D => h[{1}] = one
      <3>1. Max({1}) = 1 /\ {1} \ {1} = {}
        BY SmallMax
      <3> QED BY <2>2, <2>3, <3>1
    <2>5. D = {1, 2} => h[{1, 2}] = two
      <3>1. Max({1, 2}) = 2 /\ {1, 2} \ {2} = {1}
        BY SmallMax
      <3>2. SUFFICES ASSUME D = {1, 2} PROVE h[{1, 2}] = two
        OBVIOUS
      <3>3. {1, 2} \in SUBSET D /\ {1, 2} # {} /\ 1 \in D
        BY <3>2
      <3>4. h[{1, 2}] = process_payload(h[{1, 2} \ {Max({1, 2})}], L[Max({1, 2})])
        BY <2>3, <3>3
      <3>5. h[{1}] = one
        BY <2>4, <3>3
      <3> QED BY <3>1, <3>4, <3>5
    <2> QED BY <1>1, <2>2, <2>4, <2>5
  <1>4. Processed(a, L) = r
    BY <1>2, <1>3, Zenon DEF Processed, FoldLeft, MapThenFoldSet, D
  <1> QED BY <1>4 DEF D

LEMMA DestroyFold ==
    ASSUME NEW a, NEW L, DOMAIN L \in {{}, {1}, {1, 2}}
    PROVE  Destroyed(a, L) =
             IF DOMAIN L = {} THEN a
             ELSE IF DOMAIN L = {1} THEN destroy_and_reestablish(a, L[1])
             ELSE destroy_and_reestablish(destroy_and_reestablish(a, L[1]), L[2])
  <1> DEFINE D == DOMAIN L
             P(h) == h = [s \in SUBSET D |-> IF s = {} THEN a ELSE destroy_and_reestablish(h[s \ {Max(s)}], L[Max(s)])]
             one == destroy_and_reestablish(a, L[1])
             two == destroy_and_reestablish(one, L[2])
             r == IF D = {} THEN a ELSE IF D = {1} THEN one ELSE two
  <1>1. D \in {{}, {1}, {1, 2}}
    OBVIOUS
  <1> HIDE DEF D
  <1>2. \E h : P(h)
    <2> DEFINE g == [s \in SUBSET D |-> IF s = {} THEN a ELSE IF s = {1} THEN one
                                        ELSE IF s = {2} THEN destroy_and_reestablish(a, L[2]) ELSE two]
    <2>1. P(g)
      <3>1. ASSUME NEW s \in SUBSET D, s # {}
            PROVE  g[s] = destroy_and_reestablish(g[s \ {Max(s)}], L[Max(s)])
        <4>1. /\ s = {1} => Max(s) = 1 /\ s \ {Max(s)} = {}
              /\ s = {2} => Max(s) = 2 /\ s \ {Max(s)} = {}
              /\ s = {1, 2} => Max(s) = 2 /\ s \ {Max(s)} = {1}
          BY SmallMax
        <4>2. s \in {{1}, {2}, {1, 2}} /\ {} \in SUBSET D
          BY <1>1, <3>1
        <4>3. CASE s = {1}
          <5>1. g[s] = one /\ g[s \ {Max(s)}] = a
            BY <4>1, <4>2, <4>3
          <5> QED BY <4>1, <4>3, <5>1
        <4>4. CASE s = {2}
          <5>1. g[s] = destroy_and_reestablish(a, L[2]) /\ g[s \ {Max(s)}] = a
            BY <4>1, <4>2, <4>4
          <5> QED BY <4>1, <4>4, <5>1
        <4>5. CASE s = {1, 2}
          <5>1. {1} \in SUBSET D
            BY <4>5
          <5>2. g[s] = two /\ g[s \ {Max(s)}] = one
            BY <4>1, <4>5, <5>1
          <5> QED BY <4>1, <4>5, <5>2
        <4> QED BY <4>2, <4>3, <4>4, <4>5
      <3> QED BY <3>1
    <2> QED BY <2>1
  <1>3. \A h : P(h) => h[D] = r
    <2>1. SUFFICES ASSUME NEW h, P(h) PROVE h[D] = r
      OBVIOUS
    <2>2. h[{}] = a
      BY <2>1
    <2>3. \A s \in SUBSET D : s # {} => h[s] = destroy_and_reestablish(h[s \ {Max(s)}], L[Max(s)])
      BY <2>1
    <2>4. 1 \in D => h[{1}] = one
      <3>1. Max({1}) = 1 /\ {1} \ {1} = {}
        BY SmallMax
      <3> QED BY <2>2, <2>3, <3>1
    <2>5. D = {1, 2} => h[{1, 2}] = two
      <3>1. Max({1, 2}) = 2 /\ {1, 2} \ {2} = {1}
        BY SmallMax
      <3>2. SUFFICES ASSUME D = {1, 2} PROVE h[{1, 2}] = two
        OBVIOUS
      <3>3. {1, 2} \in SUBSET D /\ {1, 2} # {} /\ 1 \in D
        BY <3>2
      <3>4. h[{1, 2}] = destroy_and_reestablish(h[{1, 2} \ {Max({1, 2})}], L[Max({1, 2})])
        BY <2>3, <3>3
      <3>5. h[{1}] = one
        BY <2>4, <3>3
      <3> QED BY <3>1, <3>4, <3>5
    <2> QED BY <1>1, <2>2, <2>4, <2>5
  <1>4. Destroyed(a, L) = r
    BY <1>2, <1>3, Zenon DEF Destroyed, FoldLeft, MapThenFoldSet, D
  <1> QED BY <1>4 DEF D

\* How a delete of s collides with task t, if it exists.
Coll(t, s) ==
    IF t.kind = "rekey" /\ s = t.sa THEN "OLD"
    ELSE IF t.kind = "rekey" /\ s = t.collision THEN "PEER" ELSE "NONE"

Entry(S, t, s) == [sa |-> s, orig |-> S[s].state, collision |-> Coll(t, s)]

\* The task u is t after it was told of the delete of the CHILD_SAs L.
Flagged(t, u, L) ==
    /\ u \in Tasks /\ u.kind = t.kind /\ (t.kind # "rekey" => u = t)
    /\ t.kind = "rekey" =>
          /\ u.sa = t.sa /\ u.new = t.new /\ u.collision = t.collision /\ u.adopted = t.adopted
          /\ OldDeleted(u) <=> OldDeleted(t) \/ t.sa \in L
          /\ OtherDeleted(u) <=> OtherDeleted(t) \/ (Adopted(t) /\ t.collision \in L)

\* The table M is S with the CHILD_SAs L marked as being deleted.
Marked(S, M, L) ==
    /\ M \in Tables
    /\ \A x \in SAs : /\ M[x].state = IF x \in L /\ S[x].state \in Stages THEN "DELETING" ELSE S[x].state
                      /\ M[x].link = S[x].link

LEMMA AddFlag ==
    ASSUME NEW t \in Tasks, t.kind = "rekey", NEW u, NEW w \in {"OLD_SA_DELETED", "OTHER_DELETED"},
           u = [t EXCEPT !.flags = @ \cup {w}]
    PROVE  /\ u \in Tasks /\ u.kind = t.kind /\ u.sa = t.sa /\ u.new = t.new
           /\ u.collision = t.collision /\ u.adopted = t.adopted /\ u.flags = t.flags \cup {w}
  <1> DEFINE R == [kind : {"rekey"}, sa : SAs, new : Created, collision : Created \cup {NoSA},
                   adopted : BOOLEAN, flags : SUBSET {"OLD_SA_DELETED", "OTHER_DELETED"},
                   deleted : SUBSET SAs, retry : BOOLEAN]
  <1>1. t \in R
    BY DEF Tasks, Idle, Untended
  <1>2. /\ u \in R /\ u.kind = t.kind /\ u.sa = t.sa /\ u.new = t.new
        /\ u.collision = t.collision /\ u.adopted = t.adopted /\ u.flags = t.flags \cup {w}
    BY <1>1
  <1> QED BY <1>2 DEF Tasks

LEMMA AddDeleted ==
    ASSUME NEW t \in Tasks, t.kind = "rekey", NEW u, NEW s \in SAs,
           u = [t EXCEPT !.deleted = @ \cup {s}]
    PROVE  /\ u \in Tasks /\ u.kind = t.kind /\ u.sa = t.sa /\ u.new = t.new
           /\ u.collision = t.collision /\ u.adopted = t.adopted /\ u.flags = t.flags
  <1> DEFINE R == [kind : {"rekey"}, sa : SAs, new : Created, collision : Created \cup {NoSA},
                   adopted : BOOLEAN, flags : SUBSET {"OLD_SA_DELETED", "OTHER_DELETED"},
                   deleted : SUBSET SAs, retry : BOOLEAN]
  <1>1. t \in R
    BY DEF Tasks, Idle, Untended
  <1>2. /\ u \in R /\ u.kind = t.kind /\ u.sa = t.sa /\ u.new = t.new
        /\ u.collision = t.collision /\ u.adopted = t.adopted /\ u.flags = t.flags
    BY <1>1
  <1> QED BY <1>2 DEF Tasks

LEMMA HandleDelete ==
    ASSUME NEW S \in Tables, NEW t \in Tasks, Local(S, t), NEW L, NEW M, Marked(S, M, L),
           NEW u, Flagged(t, u, L), NEW s \in SAs
    PROVE  /\ Flagged(t, handle_delete(M, u, s), L \cup {s})
           /\ S[s].state \in Stages => Collision(M, u, s) = Coll(t, s)
  <1> DEFINE h == handle_delete(M, u, s)
  <1>1. Exists(M, s) <=> Exists(S, s)
    BY DEF Marked, Exists, Stages
  <1>2. CASE t.kind # "rekey"
    <2>1. u = t /\ u.kind # "rekey"
      BY <1>2 DEF Flagged
    <2>2. Collision(M, u, s) = "NONE" /\ h = t
      BY <2>1 DEF handle_delete, Collision
    <2> QED BY <1>2, <2>1, <2>2 DEF Flagged, Coll
  <1>3. CASE t.kind = "rekey"
    <2>1. /\ u \in Tasks /\ u.kind = "rekey" /\ u.sa = t.sa /\ u.new = t.new
          /\ u.collision = t.collision /\ u.adopted = t.adopted
          /\ OldDeleted(u) <=> OldDeleted(t) \/ t.sa \in L
          /\ OtherDeleted(u) <=> OtherDeleted(t) \/ (Adopted(t) /\ t.collision \in L)
      BY <1>3 DEF Flagged
    <2>2. /\ Exists(S, t.sa)
          /\ Adopted(t) => Exists(S, t.collision) /\ t.collision # t.sa
      BY <1>3, RekeyFacts
    <2>3. s = t.collision => Adopted(t)
      BY NamesApart DEF Adopted
    <2>4. CASE ~Exists(S, s)
      <3>1. Collision(M, u, s) = "NONE"
        BY <1>1, <2>1, <2>2, <2>3, <2>4 DEF Collision
      <3>2. h = [u EXCEPT !.deleted = @ \cup {s}]
        BY <1>1, <2>1, <2>4, <3>1 DEF handle_delete
      <3>3. /\ h \in Tasks /\ h.kind = u.kind /\ h.sa = u.sa /\ h.new = u.new
            /\ h.collision = u.collision /\ h.adopted = u.adopted /\ h.flags = u.flags
        BY <2>1, <3>2, AddDeleted
      <3>4. s # t.sa /\ (Adopted(t) => s # t.collision)
        BY <2>2, <2>4
      <3>5. S[s].state \notin Stages
        BY <2>4 DEF Exists, Stages
      <3> HIDE DEF h
      <3>6. Flagged(t, h, L \cup {s})
        BY <1>3, <2>1, <3>3, <3>4 DEF Flagged, OldDeleted, OtherDeleted
      <3> QED BY <3>5, <3>6 DEF h
    <2>5. CASE Exists(S, s) /\ s = t.sa
      <3>1. Collision(M, u, s) = "OLD" /\ Coll(t, s) = "OLD"
        BY <1>1, <1>3, <2>1, <2>2, <2>3, <2>5 DEF Collision, Coll
      <3>2. h = [u EXCEPT !.flags = @ \cup {"OLD_SA_DELETED"}]
        BY <1>1, <2>5, <3>1 DEF handle_delete
      <3>3. /\ h \in Tasks /\ h.kind = u.kind /\ h.sa = u.sa /\ h.new = u.new
            /\ h.collision = u.collision /\ h.adopted = u.adopted /\ h.flags = u.flags \cup {"OLD_SA_DELETED"}
        BY <2>1, <3>2, AddFlag
      <3>4. Adopted(t) => s # t.collision
        BY <2>2, <2>5
      <3> HIDE DEF h
      <3>6. Flagged(t, h, L \cup {s})
        BY <1>3, <2>1, <2>5, <3>3, <3>4 DEF Flagged, OldDeleted, OtherDeleted
      <3> QED BY <3>1, <3>6 DEF h
    <2>6. CASE Exists(S, s) /\ s # t.sa /\ s = t.collision
      <3>1. Collision(M, u, s) = "PEER" /\ Coll(t, s) = "PEER"
        BY <1>1, <1>3, <2>1, <2>6 DEF Collision, Coll
      <3>2. h = [u EXCEPT !.flags = @ \cup {"OTHER_DELETED"}]
        BY <1>1, <2>6, <3>1 DEF handle_delete
      <3>3. /\ h \in Tasks /\ h.kind = u.kind /\ h.sa = u.sa /\ h.new = u.new
            /\ h.collision = u.collision /\ h.adopted = u.adopted /\ h.flags = u.flags \cup {"OTHER_DELETED"}
        BY <2>1, <3>2, AddFlag
      <3> HIDE DEF h
      <3>6. Flagged(t, h, L \cup {s})
        BY <1>3, <2>1, <2>3, <2>6, <3>3 DEF Flagged, OldDeleted, OtherDeleted
      <3> QED BY <3>1, <3>6 DEF h
    <2>7. CASE Exists(S, s) /\ s # t.sa /\ s # t.collision
      <3>1. Collision(M, u, s) = "NONE" /\ Coll(t, s) = "NONE"
        BY <1>1, <1>3, <2>1, <2>7 DEF Collision, Coll
      <3>2. h = u
        BY <1>1, <2>1, <2>7, <3>1 DEF handle_delete
      <3> HIDE DEF h
      <3>6. Flagged(t, h, L \cup {s})
        BY <1>3, <2>1, <2>7, <3>2 DEF Flagged
      <3> QED BY <3>1, <3>6 DEF h
    <2> QED BY <2>4, <2>5, <2>6, <2>7
  <1> QED BY <1>2, <1>3

LEMMA ProcessStep ==
    ASSUME NEW S \in Tables, NEW t \in Tasks, Local(S, t), NEW L,
           NEW a, Marked(S, a.S, L), Flagged(t, a.t, L), NEW s \in SAs, s \notin L,
           NEW b, b = process_payload(a, s), NEW K, K = L \cup {s}
    PROVE  /\ Marked(S, b.S, K) /\ Flagged(t, b.t, K)
           /\ b.entries = IF S[s].state \in Stages THEN Append(a.entries, Entry(S, t, s)) ELSE a.entries
  <1> DEFINE M == a.S
             gone == M[s].state \in {"NONE", "DELETED", "DELETING"}
  <1>1. M \in Tables /\ M[s].state = S[s].state /\ S[s].state \in Stages \cup {"NONE", "DELETING", "DELETED"}
    BY Fields DEF Marked
  <1>2. gone <=> S[s].state \notin Stages
    BY <1>1 DEF Stages
  <1>3. /\ b.S = IF gone THEN M ELSE SetState(M, s, "DELETING")
        /\ b.t = handle_delete(M, a.t, s)
        /\ b.entries = IF gone THEN a.entries
                       ELSE Append(a.entries, [sa |-> s, orig |-> M[s].state, collision |-> Collision(M, a.t, s)])
    BY DEF process_payload
  <1> HIDE DEF gone
  <1>4. Flagged(t, b.t, L \cup {s}) /\ (S[s].state \in Stages => Collision(M, a.t, s) = Coll(t, s))
    BY <1>3, HandleDelete
  <1>5. Marked(S, b.S, L \cup {s})
    <2>1. CASE gone
      BY <1>2, <1>3, <2>1 DEF Marked
    <2>2. CASE ~gone
      <3>1. /\ SetState(M, s, "DELETING") \in Tables
            /\ \A x \in SAs : /\ SetState(M, s, "DELETING")[x].state = IF x = s THEN "DELETING" ELSE M[x].state
                              /\ SetState(M, s, "DELETING")[x].link = M[x].link
        BY <1>1, SetStateTable
      <3> QED BY <1>2, <1>3, <2>2, <3>1 DEF Marked
    <2> QED BY <2>1, <2>2
  <1> QED BY <1>1, <1>2, <1>3, <1>4, <1>5 DEF Entry

\* The table M on the way: of the CHILD_SAs L that are deleted those in D are done.
\* One that the active task refers to is kept in some way.
Clearing(S, t, M, L, D) ==
    /\ M \in Tables
    /\ \A x \in SAs :
          /\ M[x].link = IF x \in D \/ S[x].link \in D THEN NoSA ELSE S[x].link
          /\ x \in L \ D => M[x].state = IF S[x].state \in Stages THEN "DELETING" ELSE S[x].state
          /\ x \in D => M[x].state \in IF S[x].state \notin Stages THEN {S[x].state}
                                       ELSE IF Coll(t, x) = "OLD" THEN {"DELETING", "DELETED"}
                                       ELSE IF Coll(t, x) = "PEER" THEN {"DELETING"}
                                       ELSE {"NONE", "DELETED"}
          /\ x \notin L =>
                M[x].state = IF Coll(t, x) = "OLD" /\ t.collision \in D /\ S[x].state = "REKEYED"
                             THEN "REKEYING" ELSE S[x].state

LEMMA ClearingStarts ==
    ASSUME NEW S, NEW t, NEW M, NEW L, Marked(S, M, L)
    PROVE  Clearing(S, t, M, L, {})
  BY DEF Marked, Clearing

\* What is not linked to s keeps its link when s is done.
LEMMA LinkedTo ==
    ASSUME NEW S \in Tables, LinksSound(S), NEW s \in SAs, NEW x \in SAs
    PROVE  S[x].link = s <=> S[s].link = x
  <1>1. S[x].link = s => S[s].link = x
    BY LinkStates, NamesApart
  <1>2. S[s].link = x => S[x].link = s
    BY LinkStates, NamesApart
  <1> QED BY <1>1, <1>2

\* A CHILD_SA that is gone already has no entry.
LEMMA ClearingSkips ==
    ASSUME NEW S \in Tables, NEW t \in Tasks, Local(S, t), NEW M, NEW L, NEW D \in SUBSET L,
           Clearing(S, t, M, L, D), NEW s \in SAs, s \in L \ D, S[s].state \notin Stages
    PROVE  Clearing(S, t, M, L, D \cup {s})
  <1>1. LinksSound(S)
    BY DEF Local
  <1>2. S[s].link = NoSA
    BY <1>1, LinkStates DEF Stages
  <1>3. \A x \in SAs : S[x].link # s /\ x # NoSA
    BY <1>1, <1>2, LinkedTo, NamesApart
  <1>4. \A x \in SAs : Coll(t, x) = "OLD" /\ S[x].state = "REKEYED" => t.collision # s
    <2>1. SUFFICES ASSUME t.kind = "rekey", S[t.sa].state = "REKEYED", t.collision = s PROVE FALSE
      BY DEF Coll
    <2>2. Adopted(t)
      BY <2>1, NamesApart DEF Adopted
    <2>3. ~OldDeleted(t) /\ ~OtherDeleted(t)
      BY <2>1, RekeyFacts
    <2> QED BY <2>1, <2>2, <2>3, RekeyFacts DEF Stages
  <1>5. M \in Tables
    BY DEF Clearing
  <1>6. ASSUME NEW x \in SAs
        PROVE  M[x].link = IF x \in D \cup {s} \/ S[x].link \in D \cup {s} THEN NoSA ELSE S[x].link
    BY <1>2, <1>3 DEF Clearing
  <1>7. ASSUME NEW x \in SAs
        PROVE  /\ x \in L \ (D \cup {s}) => M[x].state = IF S[x].state \in Stages THEN "DELETING" ELSE S[x].state
               /\ x \in D \cup {s} => M[x].state \in IF S[x].state \notin Stages THEN {S[x].state}
                                       ELSE IF Coll(t, x) = "OLD" THEN {"DELETING", "DELETED"}
                                       ELSE IF Coll(t, x) = "PEER" THEN {"DELETING"}
                                       ELSE {"NONE", "DELETED"}
    BY DEF Clearing
  <1>8. ASSUME NEW x \in SAs, x \notin L
        PROVE  M[x].state = IF Coll(t, x) = "OLD" /\ t.collision \in D \cup {s} /\ S[x].state = "REKEYED"
                            THEN "REKEYING" ELSE S[x].state
    BY <1>4, <1>8 DEF Clearing
  <1> QED BY <1>5, <1>6, <1>7, <1>8 DEF Clearing

\* What one step does: the state of s, and of the old CHILD_SA if s replaced it.
Clears(S, t, M, L, D, s, N) ==
    /\ N \in Tables
    /\ \A x \in SAs :
          /\ N[x].link = IF x = s \/ x = S[s].link THEN NoSA ELSE M[x].link
          /\ x # s => N[x].state = IF /\ Coll(t, s) = "PEER" /\ Coll(t, x) = "OLD"
                                      /\ x \notin L /\ S[x].state = "REKEYED"
                                   THEN "REKEYING" ELSE M[x].state
    /\ N[s].state \in IF Coll(t, s) = "OLD" THEN {"DELETING", "DELETED"}
                      ELSE IF Coll(t, s) = "PEER" THEN {"DELETING"} ELSE {"NONE", "DELETED"}

LEMMA ClearsClearing ==
    ASSUME NEW S \in Tables, NEW t \in Tasks, Local(S, t), NEW M, NEW L, NEW D \in SUBSET L,
           Clearing(S, t, M, L, D), NEW s \in SAs, s \in L \ D, S[s].state \in Stages,
           NEW N, Clears(S, t, M, L, D, s, N)
    PROVE  Clearing(S, t, N, L, D \cup {s})
  <1>1. LinksSound(S)
    BY DEF Local
  <1>2. \A x \in SAs : (S[x].link = s <=> S[s].link = x) /\ x # NoSA
    BY <1>1, LinkedTo, NamesApart
  <1>3. N \in Tables
    BY DEF Clears
  <1>4. Coll(t, s) = "PEER" => t.collision = s
    BY DEF Coll
  <1>5. t.collision = s /\ Coll(t, s) # "PEER" => \A x \in SAs \ {s} : Coll(t, x) # "OLD"
    BY DEF Coll
  <1>6. ASSUME NEW x \in SAs
        PROVE  N[x].link = IF x \in D \cup {s} \/ S[x].link \in D \cup {s} THEN NoSA ELSE S[x].link
    <2>1. N[x].link = IF x = s \/ x = S[s].link THEN NoSA ELSE M[x].link
      BY DEF Clears
    <2>2. M[x].link = IF x \in D \/ S[x].link \in D THEN NoSA ELSE S[x].link
      BY DEF Clearing
    <2> QED BY <1>2, <2>1, <2>2
  <1>7. ASSUME NEW x \in SAs, x \in L \ (D \cup {s})
        PROVE  N[x].state = IF S[x].state \in Stages THEN "DELETING" ELSE S[x].state
    <2>1. M[x].state = IF S[x].state \in Stages THEN "DELETING" ELSE S[x].state
      BY <1>7 DEF Clearing
    <2>2. N[x].state = M[x].state
      BY <1>7 DEF Clears
    <2> QED BY <2>1, <2>2
  <1>8. ASSUME NEW x \in SAs, x \in D \cup {s}
        PROVE  N[x].state \in IF S[x].state \notin Stages THEN {S[x].state}
                              ELSE IF Coll(t, x) = "OLD" THEN {"DELETING", "DELETED"}
                              ELSE IF Coll(t, x) = "PEER" THEN {"DELETING"}
                              ELSE {"NONE", "DELETED"}
    <2>1. CASE x = s
      BY <2>1 DEF Clears
    <2>2. CASE x # s
      <3>1. N[x].state = M[x].state /\ x \in D
        BY <1>8, <2>2 DEF Clears
      <3> QED BY <3>1 DEF Clearing
    <2> QED BY <2>1, <2>2
  <1>9. ASSUME NEW x \in SAs, x \notin L
        PROVE  N[x].state = IF Coll(t, x) = "OLD" /\ t.collision \in D \cup {s} /\ S[x].state = "REKEYED"
                            THEN "REKEYING" ELSE S[x].state
    <2>1. x # s /\ N[x].state = IF /\ Coll(t, s) = "PEER" /\ Coll(t, x) = "OLD" /\ S[x].state = "REKEYED"
                                THEN "REKEYING" ELSE M[x].state
      BY <1>9 DEF Clears
    <2>2. M[x].state = IF Coll(t, x) = "OLD" /\ t.collision \in D /\ S[x].state = "REKEYED"
                       THEN "REKEYING" ELSE S[x].state
      BY <1>9 DEF Clearing
    <2> QED BY <1>4, <1>5, <2>1, <2>2
  <1> QED BY <1>3, <1>6, <1>7, <1>8, <1>9 DEF Clearing

LEMMA DestroyClears ==
    ASSUME NEW S \in Tables, NEW t \in Tasks, Local(S, t), NEW M, NEW L, NEW D \in SUBSET L,
           Clearing(S, t, M, L, D), NEW s \in SAs, s \in L \ D, S[s].state \in Stages
    PROVE  Clears(S, t, M, L, D, s, destroy_and_reestablish(M, Entry(S, t, s)))
  <1> DEFINE e == Entry(S, t, s)
             N == destroy_and_reestablish(M, e)
             o == M[s].link
             T == SetState(M, s, "DELETED")
             C == IF o = NoSA THEN remove_outbound(T, s) ELSE conclude_rekeying(T, s)
  <1>0. LinksSound(S) /\ M \in Tables
    BY DEF Local, Clearing
  <1>1. e.sa = s /\ e.orig = S[s].state /\ e.collision = Coll(t, s)
    BY DEF Entry
  <1>2. M[s].state = "DELETING"
    BY DEF Clearing
  <1>3. \A x \in SAs : (S[x].link = s <=> S[s].link = x) /\ x # NoSA
    BY <1>0, LinkedTo, NamesApart
  <1>4. /\ o = IF S[s].link \in D THEN NoSA ELSE S[s].link
        /\ o # NoSA => /\ o = S[s].link /\ o \in SAs /\ o # s /\ o \notin D /\ M[o].link = s
                       /\ S[o].state \in {"REKEYED", "INSTALLED"} /\ S[o].state # S[s].state
                       /\ S[s].state \in {"REKEYED", "INSTALLED"}
        /\ o = NoSA => \A x \in SAs : x = S[s].link => M[x].link = NoSA
    <2>1. o = IF S[s].link \in D THEN NoSA ELSE S[s].link
      BY DEF Clearing
    <2>2. ASSUME o # NoSA
          PROVE  /\ o = S[s].link /\ o \in SAs /\ o # s /\ o \notin D /\ M[o].link = s
                 /\ S[o].state \in {"REKEYED", "INSTALLED"} /\ S[o].state # S[s].state
                 /\ S[s].state \in {"REKEYED", "INSTALLED"}
      <3>1. o = S[s].link /\ o \notin D
        BY <2>1, <2>2
      <3>2. /\ o \in SAs /\ S[o].link = s /\ S[o].state \in {"REKEYED", "INSTALLED"}
            /\ S[o].state # S[s].state /\ S[s].state \in {"REKEYED", "INSTALLED"}
        BY <1>0, <2>2, <3>1, LinkStates
      <3>3. M[o].link = s
        BY <3>1, <3>2 DEF Clearing
      <3> QED BY <3>1, <3>2, <3>3
    <2>3. ASSUME o = NoSA, NEW x \in SAs, x = S[s].link PROVE M[x].link = NoSA
      BY <1>3, <2>1, <2>3 DEF Clearing
    <2> QED BY <2>1, <2>2, <2>3
  <1>5. \A x \in SAs : M[x].link = s => x = S[s].link
    BY <1>3 DEF Clearing
  <1>6. o # NoSA => Exists(M, o)
    <2>1. SUFFICES ASSUME o # NoSA PROVE Exists(M, o)
      OBVIOUS
    <2>2. o \in SAs /\ o \notin D /\ S[o].state \in Stages
      BY <1>4, <2>1 DEF Stages
    <2> HIDE DEF o
    <2> QED BY <2>2 DEF Exists, Clearing, Stages
  <1>7. T \in Tables /\ \A x \in SAs : /\ T[x].state = IF x = s THEN "DELETED" ELSE M[x].state
                                       /\ T[x].link = M[x].link
    BY <1>0, SetStateTable
  <1>8. N = IF keep_while_rekeying(e) THEN Keep(M, e)
            ELSE IF e.orig = "REKEYED"
            THEN IF e.collision = "OLD" THEN C ELSE destroy_rekeyed(C, s)
            ELSE IF o # NoSA /\ e.orig = "INSTALLED"
                 THEN destroy_child_sa(conclude_rekeying(T, o), s)
                 ELSE destroy_child_sa(T, s)
    BY <1>1 DEF destroy_and_reestablish
  <1> HIDE DEF e, N, T, o
  <1> SUFFICES Clears(S, t, M, L, D, s, N)
    BY DEF N, e
  <1>9. C \in Tables /\ \A x \in SAs : /\ C[x].state = T[x].state
                                       /\ C[x].link = IF x = s \/ x = S[s].link THEN NoSA ELSE M[x].link
    <2>1. CASE o = NoSA
      <3>1. C = remove_outbound(T, s)
        BY <2>1
      <3>2. M[s].link = NoSA
        BY <2>1 DEF o
      <3> HIDE DEF C
      <3> QED BY <1>4, <1>7, <2>1, <3>1, <3>2, RemoveOutTable
    <2>2. CASE o # NoSA
      <3>1. C = conclude_rekeying(T, s)
        BY <2>2
      <3>2. T[s].link = o /\ o \in SAs /\ Exists(T, o) /\ o = S[s].link
        BY <1>4, <1>6, <1>7, <2>2 DEF o, Exists
      <3> HIDE DEF C
      <3> QED BY <1>7, <3>1, <3>2, ConcludeLinkedTable
    <2> QED BY <2>1, <2>2
  <1> HIDE DEF C
  <1>10. t.kind = "rekey" /\ s = t.sa => S[s].state \in {"REKEYING", "REKEYED"} /\ ~OldDeleted(t)
    BY RekeyFacts DEF Stages
  <1>11. CASE Coll(t, s) = "OLD"
    <2>1. S[s].state \in {"REKEYING", "REKEYED"}
      BY <1>10, <1>11 DEF Coll
    <2>2. CASE S[s].state = "REKEYING"
      <3>1. N = M
        BY <1>1, <1>8, <1>11, <2>2 DEF keep_while_rekeying, Keep
      <3>2. o = NoSA /\ S[s].link = NoSA
        BY <1>0, <1>4, <2>2, LinkStates
      <3>3. M[s].link = NoSA
        BY <3>2 DEF o
      <3> QED BY <1>0, <1>2, <1>3, <1>11, <3>1, <3>2, <3>3 DEF Clears
    <2>3. CASE S[s].state = "REKEYED"
      <3>1. N = C
        BY <1>1, <1>8, <1>11, <2>3 DEF keep_while_rekeying
      <3> QED BY <1>7, <1>9, <1>11, <3>1 DEF Clears
    <2> QED BY <2>1, <2>2, <2>3
  <1>12. CASE Coll(t, s) = "PEER"
    <2>1. /\ t.kind = "rekey" /\ s = t.collision /\ Adopted(t) /\ s # t.sa
          /\ \A x : Coll(t, x) = "OLD" <=> x = t.sa
      BY <1>12, NamesApart DEF Coll, Adopted
    <2>2. N = Keep(M, e)
      BY <1>1, <1>8, <1>12 DEF keep_while_rekeying
    <2>3. /\ t.sa \in SAs /\ S[s].link \in {NoSA, t.sa}
          /\ S[t.sa].state = "REKEYED" => ~OldDeleted(t) /\ ~OtherDeleted(t)
      BY <2>1, RekeyFacts
    <2>4. S[t.sa].state = "REKEYED" => S[s].link = t.sa
      <3>1. S[t.sa].state = "REKEYED" => S[t.sa].link = s
        BY <2>1, <2>3 DEF Local, RekeySound
      <3> QED BY <1>3, <2>3, <3>1
    <2>5. CASE o = NoSA
      <3>1. N = M
        BY <1>1, <1>12, <2>2, <2>5 DEF Keep, o
      <3>2. S[t.sa].state = "REKEYED" => t.sa \in L
        BY <1>4, <2>1, <2>3, <2>4, <2>5, NamesApart
      <3>3. M[s].link = NoSA
        BY <2>5 DEF o
      <3> QED BY <1>0, <1>2, <1>4, <1>12, <2>1, <2>5, <3>1, <3>2, <3>3 DEF Clears
    <2>6. CASE o # NoSA
      <3> DEFINE K == Unlink(M, s, o)
      <3>1. o = t.sa /\ o \in SAs /\ S[s].link = o /\ o \notin D /\ S[o].state \in {"REKEYED", "INSTALLED"}
        BY <1>4, <2>3, <2>6
      <3>2. S[o].state = "REKEYED"
        BY <2>1, <3>1, RekeyFacts
      <3>3. K \in Tables /\ \A x \in SAs : /\ K[x].state = M[x].state
                                           /\ K[x].link = IF x \in {s, o} THEN NoSA ELSE M[x].link
        BY <1>0, <3>1, UnlinkTable
      <3>4. N = IF K[o].state = "REKEYED" THEN SetState(K, o, "REKEYING") ELSE K
        BY <1>1, <1>12, <2>2, <2>6 DEF Keep, o
      <3> HIDE DEF K
      <3>5. M[o].state = IF o \in L THEN "DELETING" ELSE "REKEYED"
        <4>1. CASE o \in L
          BY <3>1, <3>2, <4>1 DEF Clearing, Stages
        <4>2. CASE o \notin L
          <5>1. t.collision \notin D
            BY <2>1
          <5> QED BY <3>1, <3>2, <4>2, <5>1 DEF Clearing
        <4> QED BY <4>1, <4>2
      <3>6. "REKEYING" \in Stages \cup {"DELETING", "DELETED"}
        BY DEF Stages
      <3>7. /\ N \in Tables
            /\ \A x \in SAs : /\ N[x].link = K[x].link
                              /\ N[x].state = IF x = o /\ o \notin L THEN "REKEYING" ELSE K[x].state
        <4>1. CASE o \in L
          BY <3>1, <3>3, <3>4, <3>5, <4>1
        <4>2. CASE o \notin L
          <5>1. N = SetState(K, o, "REKEYING")
            BY <3>1, <3>3, <3>4, <3>5, <4>2
          <5>2. /\ SetState(K, o, "REKEYING") \in Tables
                /\ \A x \in SAs : /\ SetState(K, o, "REKEYING")[x].state = IF x = o THEN "REKEYING" ELSE K[x].state
                                  /\ SetState(K, o, "REKEYING")[x].link = K[x].link
            <6>1. o \in SAs /\ K \in Tables
              BY <3>1, <3>3
            <6> QED BY ONLY <3>6, <6>1, SetStateTable
          <5> QED BY <4>2, <5>1, <5>2
        <4> QED BY <4>1, <4>2
      <3> QED BY <1>2, <1>12, <2>1, <3>1, <3>2, <3>3, <3>7 DEF Clears
    <2> QED BY <2>5, <2>6
  <1>13. CASE Coll(t, s) = "NONE"
    <2>1. CASE S[s].state = "REKEYED"
      <3>1. N = destroy_rekeyed(C, s)
        BY <1>1, <1>8, <1>13, <2>1 DEF keep_while_rekeying
      <3>2. /\ N \in Tables /\ N[s].state \in {"NONE", "DELETED"}
            /\ \A x \in SAs : (x # s => N[x].state = C[x].state) /\ N[x].link = C[x].link
        BY <1>9, <3>1, DestroyRekeyedTable
      <3> QED BY <1>7, <1>9, <1>13, <3>2 DEF Clears
    <2>2. CASE S[s].state = "INSTALLED" /\ o # NoSA
      <3> DEFINE K == conclude_rekeying(T, o)
      <3>1. N = destroy_child_sa(K, s)
        BY <1>1, <1>8, <1>13, <2>2 DEF keep_while_rekeying
      <3>2. o \in SAs /\ T[o].link = s /\ Exists(T, s) /\ o = S[s].link
        BY <1>4, <1>7, <2>2 DEF Exists
      <3>3. K \in Tables /\ \A x \in SAs : /\ K[x].state = T[x].state
                                           /\ K[x].link = IF x \in {o, s} THEN NoSA ELSE T[x].link
        BY <1>7, <3>2, ConcludeLinkedTable
      <3> HIDE DEF K
      <3>4. N \in Tables /\ \A x \in SAs : /\ N[x].state = IF x = s THEN "NONE" ELSE K[x].state
                                           /\ N[x].link = IF x = s THEN NoSA ELSE K[x].link
        BY <3>1, <3>3, DestroyTable
      <3> QED BY <1>7, <1>13, <3>2, <3>3, <3>4 DEF Clears
    <2>3. CASE S[s].state = "REKEYING" \/ (S[s].state = "INSTALLED" /\ o = NoSA)
      <3>1. N = destroy_child_sa(T, s)
        BY <1>1, <1>8, <1>13, <2>3 DEF keep_while_rekeying
      <3>2. o = NoSA
        BY <1>4, <2>3
      <3>3. N \in Tables /\ \A x \in SAs : /\ N[x].state = IF x = s THEN "NONE" ELSE T[x].state
                                           /\ N[x].link = IF x = s THEN NoSA ELSE T[x].link
        BY <1>7, <3>1, DestroyTable
      <3> QED BY <1>4, <1>7, <1>13, <3>2, <3>3 DEF Clears
    <2> QED BY <2>1, <2>2, <2>3 DEF Stages
  <1> QED BY <1>11, <1>12, <1>13 DEF Coll

LEMMA ClearOne ==
    ASSUME NEW S \in Tables, NEW t \in Tasks, Local(S, t), NEW M, NEW L, NEW D \in SUBSET L,
           Clearing(S, t, M, L, D), NEW s \in SAs, s \in L \ D, S[s].state \in Stages
    PROVE  Clearing(S, t, destroy_and_reestablish(M, Entry(S, t, s)), L, D \cup {s})
  <1> DEFINE N == destroy_and_reestablish(M, Entry(S, t, s))
  <1>1. Clears(S, t, M, L, D, s, N)
    BY DestroyClears
  <1> HIDE DEF N
  <1>2. Clearing(S, t, N, L, D \cup {s})
    BY <1>1, ClearsClearing
  <1> QED BY <1>2 DEF N

\* The entries are processed one after the other.
LEMMA NoEntries ==
    ASSUME NEW M, NEW l, l = <<>>
    PROVE  Destroyed(M, l) = M
  <1>1. DOMAIN l = {}
    OBVIOUS
  <1> QED BY <1>1, DestroyFold

LEMMA OneEntry ==
    ASSUME NEW M, NEW l, NEW e, l = <<e>>
    PROVE  Destroyed(M, l) = destroy_and_reestablish(M, e)
  <1>1. DOMAIN l = {1} /\ l[1] = e
    OBVIOUS
  <1> QED BY <1>1, DestroyFold

LEMMA TwoEntries ==
    ASSUME NEW M, NEW l, NEW e, NEW f, l = <<e, f>>
    PROVE  Destroyed(M, l) = destroy_and_reestablish(destroy_and_reestablish(M, e), f)
  <1>1. DOMAIN l = {1, 2} /\ l[1] = e /\ l[2] = f /\ {1, 2} # {} /\ {1, 2} # {1}
    OBVIOUS
  <1> QED BY <1>1, DestroyFold

\* The accumulator that process_payloads() starts with.
LEMMA NothingProcessed ==
    ASSUME NEW S \in Tables, NEW t \in Tasks, NEW a, a = [S |-> S, t |-> t, entries |-> <<>>]
    PROVE  Marked(S, a.S, {}) /\ Flagged(t, a.t, {}) /\ a.entries = <<>>
  <1>1. a.S = S /\ a.t = t /\ a.entries = <<>>
    OBVIOUS
  <1>2. Marked(S, S, {})
    BY DEF Marked
  <1>3. Flagged(t, t, {})
    BY DEF Flagged
  <1> QED BY <1>1, <1>2, <1>3

\* What is left of the table when the DELETE of one CHILD_SA is processed ...
LEMMA DeleteOne ==
    ASSUME NEW S \in Tables, NEW t \in Tasks, Local(S, t), NEW x \in SAs, NEW a,
           a = Processed([S |-> S, t |-> t, entries |-> <<>>], <<x>>)
    PROVE  /\ Clearing(S, t, Destroyed(a.S, a.entries), {x}, {x})
           /\ Flagged(t, a.t, {x})
  <1> DEFINE a0 == [S |-> S, t |-> t, entries |-> <<>>]
             N == Destroyed(a.S, a.entries)
  <1>0. S \in Tables /\ t \in Tasks /\ Local(S, t) /\ x \in SAs
    OBVIOUS
  <1>1. a = process_payload(a0, x)
    <2> DEFINE l == <<x>>
    <2>1. DOMAIN l = {1} /\ l[1] = x /\ DOMAIN l \in {{}, {1}, {1, 2}} /\ DOMAIN l # {}
      OBVIOUS
    <2>2. a = Processed(a0, l)
      OBVIOUS
    <2> HIDE DEF a0, l
    <2>3. a = IF DOMAIN l = {} THEN a0
              ELSE IF DOMAIN l = {1} THEN process_payload(a0, l[1])
              ELSE process_payload(process_payload(a0, l[1]), l[2])
      BY <2>1, <2>2, ProcessFold
    <2> QED BY <2>1, <2>3
  <1>2. Marked(S, a0.S, {}) /\ Flagged(t, a0.t, {}) /\ a0.entries = <<>>
    BY NothingProcessed
  <1> HIDE DEF a0
  <1>3. /\ Marked(S, a.S, {x}) /\ Flagged(t, a.t, {x})
        /\ a.entries = IF S[x].state \in Stages THEN Append(a0.entries, Entry(S, t, x)) ELSE a0.entries
    <2> DEFINE E == {}
    <2>1. {x} = E \cup {x} /\ x \notin E
      OBVIOUS
    <2>2. Marked(S, a0.S, E) /\ Flagged(t, a0.t, E)
      BY <1>2
    <2> HIDE DEF E
    <2> QED BY ONLY <1>0, <1>1, <2>1, <2>2, ProcessStep
  <1>4. Clearing(S, t, a.S, {x}, {})
    BY <1>3, ClearingStarts
  <1>5. {} \cup {x} = {x} /\ x \in {x} \ {} /\ {} \in SUBSET {x}
    OBVIOUS
  <1>6. CASE S[x].state \notin Stages
    <2>1. a.entries = <<>>
      BY <1>2, <1>3, <1>6
    <2>2. N = a.S
      BY <2>1, NoEntries
    <2>3. Clearing(S, t, a.S, {x}, {} \cup {x})
      BY <1>4, <1>5, <1>6, ClearingSkips
    <2> QED BY <1>3, <1>5, <2>2, <2>3
  <1>7. CASE S[x].state \in Stages
    <2> DEFINE e == Entry(S, t, x)
    <2>1. a.entries = <<e>>
      BY <1>2, <1>3, <1>7
    <2> HIDE DEF e
    <2>3. N = destroy_and_reestablish(a.S, e)
      BY <2>1, OneEntry
    <2>4. Clearing(S, t, destroy_and_reestablish(a.S, e), {x}, {} \cup {x})
      BY <1>4, <1>5, <1>7, ClearOne DEF e
    <2> QED BY <1>3, <1>5, <2>3, <2>4
  <1> QED BY <1>6, <1>7

\* ... or of two.
LEMMA DeleteTwo ==
    ASSUME NEW S \in Tables, NEW t \in Tasks, Local(S, t), NEW x \in SAs, NEW y \in SAs, x # y, NEW a,
           a = Processed([S |-> S, t |-> t, entries |-> <<>>], <<x, y>>)
    PROVE  /\ Clearing(S, t, Destroyed(a.S, a.entries), {x, y}, {x, y})
           /\ Flagged(t, a.t, {x, y})
  <1> DEFINE a0 == [S |-> S, t |-> t, entries |-> <<>>]
             a1 == process_payload(a0, x)
             N == Destroyed(a.S, a.entries)
             K == {x, y}
             ex == Entry(S, t, x)
             ey == Entry(S, t, y)
  <1>0. S \in Tables /\ t \in Tasks /\ Local(S, t) /\ x \in SAs /\ y \in SAs
    OBVIOUS
  <1>1. a = process_payload(a1, y)
    <2> DEFINE l == <<x, y>>
    <2>1. /\ DOMAIN l = {1, 2} /\ l[1] = x /\ l[2] = y /\ DOMAIN l \in {{}, {1}, {1, 2}}
          /\ DOMAIN l # {} /\ DOMAIN l # {1}
      OBVIOUS
    <2>2. a = Processed(a0, l)
      OBVIOUS
    <2> HIDE DEF a0, l
    <2>3. a = IF DOMAIN l = {} THEN a0
              ELSE IF DOMAIN l = {1} THEN process_payload(a0, l[1])
              ELSE process_payload(process_payload(a0, l[1]), l[2])
      BY <2>1, <2>2, ProcessFold
    <2> QED BY <2>1, <2>3
  <1>2. Marked(S, a0.S, {}) /\ Flagged(t, a0.t, {}) /\ a0.entries = <<>>
    BY NothingProcessed
  <1> HIDE DEF a0
  <1>3. /\ Marked(S, a1.S, {x}) /\ Flagged(t, a1.t, {x})
        /\ a1.entries = IF S[x].state \in Stages THEN Append(a0.entries, ex) ELSE a0.entries
    <2> DEFINE E == {}
    <2>1. {x} = E \cup {x} /\ x \notin E /\ a1 = process_payload(a0, x)
      OBVIOUS
    <2>2. Marked(S, a0.S, E) /\ Flagged(t, a0.t, E)
      BY <1>2
    <2> HIDE DEF a1, E
    <2> QED BY ONLY <1>0, <2>1, <2>2, ProcessStep DEF ex
  <1> HIDE DEF a1
  <1>4. /\ Marked(S, a.S, K) /\ Flagged(t, a.t, K)
        /\ a.entries = IF S[y].state \in Stages THEN Append(a1.entries, ey) ELSE a1.entries
    <2>1. K = {x} \cup {y} /\ y \notin {x}
      OBVIOUS
    <2> HIDE DEF K
    <2> QED BY ONLY <1>0, <1>1, <1>3, <2>1, ProcessStep DEF ey
  <1>5. Clearing(S, t, a.S, K, {})
    BY <1>4, ClearingStarts
  <1>6. /\ {} \in SUBSET K /\ {x} \in SUBSET K /\ {y} \in SUBSET K
        /\ x \in K \ {} /\ y \in K \ {x} /\ y \in K \ {} /\ x \in K \ {y}
        /\ {} \cup {x} = {x} /\ {x} \cup {y} = K /\ {y} \cup {x} = K
    OBVIOUS
  <1> HIDE DEF K, ex, ey
  <1>7. CASE S[x].state \in Stages /\ S[y].state \in Stages
    <2>1. a.entries = <<ex, ey>>
      BY <1>2, <1>3, <1>4, <1>7
    <2> DEFINE M == destroy_and_reestablish(a.S, ex)
    <2>3. N = destroy_and_reestablish(M, ey)
      BY <2>1, TwoEntries
    <2>4. Clearing(S, t, M, K, {} \cup {x})
      BY <1>5, <1>6, <1>7, ClearOne DEF ex
    <2> HIDE DEF M
    <2>5. Clearing(S, t, M, K, {x})
      BY <1>6, <2>4
    <2>6. Clearing(S, t, destroy_and_reestablish(M, ey), K, {x} \cup {y})
      BY <1>6, <1>7, <2>5, ClearOne DEF ey
    <2> QED BY <1>4, <1>6, <2>3, <2>6 DEF K
  <1>8. CASE S[x].state \in Stages /\ S[y].state \notin Stages
    <2>1. a.entries = <<ex>>
      BY <1>2, <1>3, <1>4, <1>8
    <2> DEFINE M == destroy_and_reestablish(a.S, ex)
    <2>3. N = M
      BY <2>1, OneEntry
    <2>4. Clearing(S, t, M, K, {} \cup {x})
      BY <1>5, <1>6, <1>8, ClearOne DEF ex
    <2> HIDE DEF M
    <2>5. Clearing(S, t, M, K, {x})
      BY <1>6, <2>4
    <2>6. Clearing(S, t, M, K, {x} \cup {y})
      BY <1>6, <1>8, <2>5, ClearingSkips
    <2> QED BY <1>4, <1>6, <2>3, <2>6 DEF K
  <1>9. CASE S[x].state \notin Stages
    <2>1. Clearing(S, t, a.S, K, {} \cup {x})
      BY <1>5, <1>6, <1>9, ClearingSkips
    <2>2. Clearing(S, t, a.S, K, {x})
      BY <1>6, <2>1
    <2>3. CASE S[y].state \in Stages
      <3>1. a.entries = <<ey>>
        BY <1>2, <1>3, <1>4, <1>9, <2>3
      <3>3. N = destroy_and_reestablish(a.S, ey)
        BY <3>1, OneEntry
      <3>4. Clearing(S, t, destroy_and_reestablish(a.S, ey), K, {x} \cup {y})
        BY <1>6, <2>2, <2>3, ClearOne DEF ey
      <3> QED BY <1>4, <1>6, <3>3, <3>4 DEF K
    <2>4. CASE S[y].state \notin Stages
      <3>1. a.entries = <<>>
        BY <1>2, <1>3, <1>4, <1>9, <2>4
      <3>2. N = a.S
        BY <3>1, NoEntries
      <3>3. Clearing(S, t, a.S, K, {x} \cup {y})
        BY <1>6, <2>2, <2>4, ClearingSkips
      <3> QED BY <1>4, <1>6, <3>2, <3>3 DEF K
    <2> QED BY <2>3, <2>4
  <1> QED BY <1>7, <1>8, <1>9

\* A request to delete that is being processed.
LEMMA DeleteFacts ==
    ASSUME NEW u \in Tasks, NEW n, NEW k, Exchange(u, n, k), n.type = "delete"
    PROVE  /\ u.kind \in {"delete", "untended"} /\ OneOrTwo(n.list)
           /\ u.kind = "delete" => Listed(n, u.sa)
  <1>1. OneOrTwo(n.list) /\ Sent(u, n)
    BY DEF Exchange
  <1>2. u.kind # "rekey"
    <2>1. SUFFICES ASSUME u.kind = "rekey" PROVE FALSE
      OBVIOUS
    <2>2. n = RekeyRequest(u.sa, u.new)
      BY <1>1, <2>1 DEF Sent
    <2> QED BY <2>2 DEF RekeyRequest
  <1>3. ASSUME u.kind = "delete" PROVE Listed(n, u.sa)
    <2>1. n = DeleteRequest(<<u.sa>>)
      BY <1>1, <1>3 DEF Sent
    <2>2. u.sa \in SAs
      BY <1>3, TaskFields
    <2> QED BY <2>1, <2>2, MessageFacts
  <1>4. u.kind \in {"delete", "untended"}
    BY <1>1, <1>2 DEF Sent
  <1> QED BY <1>1, <1>3, <1>4

\* What a DELETE of the CHILD_SAs K does to any of them.
LEMMA ClearingStates ==
    ASSUME NEW S \in Tables, NEW t \in Tasks, Local(S, t), NEW K \in SUBSET SAs, NEW S2,
           Clearing(S, t, S2, K, K), NEW x \in SAs
    PROVE  /\ S2 \in Tables
           /\ Exists(S2, x) => Exists(S, x)
           /\ Gone(S, x) => S2[x].state = S[x].state
           /\ x \in K => Gone(S2, x)
           /\ S2[x].link = IF x \in K \/ S[x].link \in K THEN NoSA ELSE S[x].link
           /\ Coll(t, x) # "OLD" /\ x \notin K => S2[x].state = S[x].state
           /\ S2[x].state = "DELETING" => S[x].state = "DELETING" \/ Coll(t, x) \in {"OLD", "PEER"}
           /\ x \in K /\ S[x].state \in Stages =>
                 /\ Coll(t, x) = "OLD" => S2[x].state \in {"DELETING", "DELETED"}
                 /\ Coll(t, x) = "PEER" => S2[x].state = "DELETING"
           /\ x \notin K => S2[x].state = IF Coll(t, x) = "OLD" /\ t.collision \in K /\ S[x].state = "REKEYED"
                                          THEN "REKEYING" ELSE S[x].state
  <1>1. S2 \in Tables /\ S2[x].link = IF x \in K \/ S[x].link \in K THEN NoSA ELSE S[x].link
    BY DEF Clearing
  <1>2. S[x].state \in Stages \cup {"NONE", "DELETING", "DELETED"}
    BY Fields
  <1>3. Coll(t, x) \in {"OLD", "PEER", "NONE"}
    BY DEF Coll
  <1>4. CASE x \in K
    <2>1. S2[x].state \in IF S[x].state \notin Stages THEN {S[x].state}
                          ELSE IF Coll(t, x) = "OLD" THEN {"DELETING", "DELETED"}
                          ELSE IF Coll(t, x) = "PEER" THEN {"DELETING"}
                          ELSE {"NONE", "DELETED"}
      BY <1>4 DEF Clearing
    <2>2. CASE S[x].state \notin Stages
      <3>1. S2[x].state = S[x].state /\ Gone(S, x)
        BY <1>2, <2>1, <2>2 DEF Gone
      <3> QED BY <1>1, <1>4, <2>2, <3>1 DEF Exists, Gone
    <2>3. CASE S[x].state \in Stages
      <3>1. Exists(S, x) /\ ~Gone(S, x)
        BY <2>3 DEF Exists, Gone, Stages
      <3> QED BY <1>1, <1>3, <1>4, <2>1, <2>3, <3>1 DEF Gone
    <2> QED BY <2>2, <2>3
  <1>5. CASE x \notin K
    <2>1. S2[x].state = IF Coll(t, x) = "OLD" /\ t.collision \in K /\ S[x].state = "REKEYED"
                        THEN "REKEYING" ELSE S[x].state
      BY <1>5 DEF Clearing
    <2>2. S[x].state = "REKEYED" => Exists(S, x) /\ ~Gone(S, x)
      BY DEF Exists, Gone
    <2> QED BY <1>1, <1>5, <2>1, <2>2 DEF Exists
  <1> QED BY <1>4, <1>5

LEMMA ClearBoth ==
    ASSUME NEW p \in Peers, NEW q \in Peers, p # q, NEW c, NEW f,
           NEW S, NEW t, NEW m, NEW r, NEW V, NEW u, NEW n, NEW k,
           Both(p, q, c, f, S, t, m, r, V, u, n, k), n.type = "delete",
           NEW K \in SUBSET SAs, \A x \in SAs : Listed(n, x) <=> x \in K,
           NEW S2, NEW t2, Clearing(S, t, S2, K, K), Flagged(t, t2, K)
    PROVE  Both(p, q, c, f, S2, t2, m, r, V, u, None, Response("DELETED"))
  <1> DEFINE k2 == Response("DELETED")
  <1>0. Side(p, q, c, f, S, t, m, r, V, u, n, k) /\ Side(q, p, c, f, V, u, n, k, S, t, m, r)
    BY DEF Both
  <1>1. /\ S \in Tables /\ t \in Tasks /\ u \in Tasks /\ V \in Tables /\ m \in Messages /\ Local(S, t)
        /\ Exchange(t, m, r) /\ Exchange(u, n, k)
        /\ Fresh(p, q, c, S, t, m, r, V, u, k) /\ Fresh(q, p, c, V, u, n, k, S, t, r)
        /\ LinkCause(q, S, u, n, k) /\ LinkCause(p, V, t, m, r)
        /\ Collides(f, t, r, V, u, n, k)
    BY <1>0 DEF Side
  <1>2. u.kind \in {"delete", "untended"} /\ (u.kind = "delete" => u.sa \in SAs /\ u.sa \in K)
    BY <1>1, DeleteFacts, TaskFields
  <1>3. /\ k2.type = "DELETED" /\ None \in Messages /\ None.type = "none" /\ \A x : ~Listed(None, x)
    BY MessageFacts
  <1> HIDE DEF k2
  <1>4. \A x \in K : Gone(V, x)
    BY <1>1 DEF Fresh
  <1>5. /\ t2 \in Tasks /\ t2.kind = t.kind /\ (t.kind # "rekey" => t2 = t)
        /\ t.kind = "rekey" =>
              /\ t2.sa = t.sa /\ t2.new = t.new /\ t2.collision = t.collision /\ t2.adopted = t.adopted
              /\ OldDeleted(t2) <=> OldDeleted(t) \/ t.sa \in K
              /\ OtherDeleted(t2) <=> OtherDeleted(t) \/ (Adopted(t) /\ t.collision \in K)
              /\ Adopted(t2) <=> Adopted(t)
    BY DEF Flagged, Adopted
  <1>6. ASSUME NEW x \in SAs, S[x].link # NoSA PROVE x \in K \/ S[x].link \in K
    <2>1. S[x].link \in SAs /\ (Linked(S, x, S[x].link) \/ Linked(S, S[x].link, x))
      BY <1>1, <1>6 DEF Local, LinksSound, Linked
    <2>2. Listed(n, x) \/ Listed(n, S[x].link)
      BY <1>1, <1>2, <2>1 DEF LinkCause, RekeysOf
    <2> QED BY <2>1, <2>2
  <1>7. \A x \in SAs : S2[x].link = NoSA
    <2>1. \A x \in SAs : S2[x].link = IF x \in K \/ S[x].link \in K THEN NoSA ELSE S[x].link
      BY DEF Clearing
    <2> QED BY <1>6, <2>1
  <1>8. /\ S2 \in Tables
        /\ \A x \in SAs : /\ Exists(S2, x) => Exists(S, x)
                          /\ Gone(S, x) => S2[x].state = S[x].state
                          /\ x \in K => Gone(S2, x)
                          /\ S2[x].state = "DELETING" => S[x].state = "DELETING" \/ Coll(t, x) \in {"OLD", "PEER"}
    <2>1. S2 \in Tables
      BY DEF Clearing
    <2>2. ASSUME NEW x \in SAs
          PROVE  /\ Exists(S2, x) => Exists(S, x)
                 /\ Gone(S, x) => S2[x].state = S[x].state
                 /\ x \in K => Gone(S2, x)
                 /\ S2[x].state = "DELETING" => S[x].state = "DELETING" \/ Coll(t, x) \in {"OLD", "PEER"}
      BY <1>1, ClearingStates
    <2> QED BY <2>1, <2>2
  <1>9. RekeySound(S2, t2)
    <2>1. SUFFICES ASSUME t.kind = "rekey" PROVE RekeySound(S2, t2)
      BY <1>5 DEF RekeySound
    <2>2. t.sa \in SAs /\ t.new \in SAs /\ Coll(t, t.sa) = "OLD"
      BY <1>1, <2>1, RekeyFacts DEF Coll
    <2>3. S2[t.sa].state \in IF OldDeleted(t2) THEN {"DELETING", "DELETED"}
                             ELSE IF Adopted(t) /\ ~OtherDeleted(t2) THEN {"REKEYED"} ELSE {"REKEYING"}
      <3>1. CASE OldDeleted(t)
        <4>1. S[t.sa].state \in {"DELETING", "DELETED"}
          BY <1>1, <2>1, <3>1, RekeyFacts
        <4>2. S2[t.sa].state = S[t.sa].state
          BY <1>8, <2>2, <4>1 DEF Gone
        <4> QED BY <1>5, <2>1, <3>1, <4>1, <4>2
      <3>2. CASE ~OldDeleted(t) /\ t.sa \in K
        <4>1. S[t.sa].state \in Stages
          BY <1>1, <2>1, <3>2, RekeyFacts DEF Stages
        <4>2. S2[t.sa].state \in {"DELETING", "DELETED"}
          BY <1>1, <2>2, <3>2, <4>1, ClearingStates
        <4> QED BY <1>5, <2>1, <3>2, <4>2
      <3>3. CASE ~OldDeleted(t) /\ t.sa \notin K
        <4>1. S[t.sa].state = IF Adopted(t) /\ ~OtherDeleted(t) THEN "REKEYED" ELSE "REKEYING"
          BY <1>1, <2>1, <3>3, RekeyFacts
        <4>2. S2[t.sa].state = IF t.collision \in K /\ S[t.sa].state = "REKEYED"
                               THEN "REKEYING" ELSE S[t.sa].state
          BY <1>1, <2>2, <3>3, ClearingStates
        <4> QED BY <1>5, <2>1, <3>3, <4>1, <4>2
      <3> QED BY <3>1, <3>2, <3>3
    <2>4. t2.adopted <=> Adopted(t2)
      BY <1>1, <1>5, <2>1, RekeyFacts
    <2>5. OtherDeleted(t2) => Adopted(t2)
      BY <1>1, <1>5, <2>1, RekeyFacts
    <2>6. ~Exists(S2, t.new)
      BY <1>1, <1>8, <2>1, <2>2, RekeyFacts
    <2>7. ASSUME Adopted(t)
          PROVE  /\ t.collision \in SAs /\ t.collision # t.sa
                 /\ S2[t.collision].state = IF OtherDeleted(t2) THEN "DELETING" ELSE "INSTALLED"
                 /\ ~(~OldDeleted(t2) /\ ~OtherDeleted(t2))
      <3>1. /\ t.collision \in SAs /\ t.collision # t.sa
            /\ S[t.collision].state = IF OtherDeleted(t) THEN "DELETING" ELSE "INSTALLED"
        BY <1>1, <2>1, <2>7, RekeyFacts
      <3>2. Coll(t, t.collision) = "PEER"
        BY <2>1, <3>1 DEF Coll
      <3>3. S2[t.collision].state = IF OtherDeleted(t2) THEN "DELETING" ELSE "INSTALLED"
        <4>1. CASE OtherDeleted(t)
          <5>1. S2[t.collision].state = S[t.collision].state
            BY <1>8, <3>1, <4>1 DEF Gone
          <5> QED BY <1>5, <2>1, <3>1, <4>1, <5>1
        <4>2. CASE ~OtherDeleted(t) /\ t.collision \in K
          <5>1. S[t.collision].state \in Stages
            BY <3>1, <4>2 DEF Stages
          <5>2. S2[t.collision].state = "DELETING"
            BY <1>1, <3>1, <3>2, <4>2, <5>1, ClearingStates
          <5> QED BY <1>5, <2>1, <2>7, <4>2, <5>2
        <4>3. CASE ~OtherDeleted(t) /\ t.collision \notin K
          <5>1. S2[t.collision].state = S[t.collision].state
            BY <1>1, <3>1, <3>2, <4>3, ClearingStates
          <5> QED BY <1>5, <2>1, <3>1, <4>3, <5>1
        <4> QED BY <4>1, <4>2, <4>3
      <3>4. ASSUME ~OldDeleted(t2), ~OtherDeleted(t2) PROVE FALSE
        <4>1. ~OldDeleted(t) /\ ~OtherDeleted(t) /\ t.sa \notin K /\ t.collision \notin K
          BY <1>5, <2>1, <2>7, <3>4
        <4>2. S[t.sa].link = t.collision
          BY <1>1, <2>1, <2>7, <4>1 DEF Local, RekeySound
        <4> QED BY <1>6, <2>2, <3>1, <4>1, <4>2, NamesApart
      <3> QED BY <3>1, <3>3, <3>4
    <2> QED BY <1>5, <1>7, <2>1, <2>2, <2>3, <2>4, <2>5, <2>6, <2>7 DEF RekeySound
  <1>10. DeleteSound(S2, t2)
    <2>1. ASSUME t2.kind = "delete" PROVE S2[t2.sa].state = "DELETING"
      <3>1. t2 = t /\ t.sa \in SAs
        BY <1>1, <1>5, <2>1, TaskFields
      <3>2. S[t.sa].state = "DELETING"
        BY <1>1, <2>1, <3>1 DEF Local, DeleteSound
      <3> QED BY <1>8, <3>1, <3>2 DEF Gone
    <2>2. ASSUME NEW x \in SAs, S2[x].state = "DELETING"
          PROVE  \/ t2.kind = "delete" /\ t2.sa = x
                 \/ t2.kind = "rekey" /\ x \in {t2.sa, t2.collision}
      <3>1. CASE S[x].state = "DELETING"
        BY <1>1, <1>5, <3>1 DEF Local, DeleteSound
      <3>2. CASE Coll(t, x) \in {"OLD", "PEER"}
        <4>1. t.kind = "rekey" /\ x \in {t.sa, t.collision}
          BY <3>2 DEF Coll
        <4> QED BY <1>5, <4>1
      <3> QED BY <1>8, <2>2, <3>1, <3>2
    <2> QED BY <2>1, <2>2 DEF DeleteSound
  <1>11. Local(S2, t2)
    BY <1>7, <1>9, <1>10 DEF Local, LinksSound
  <1>12. Exchange(t2, m, r)
    <2>1. Sent(t, m) => Sent(t2, m)
      BY <1>5 DEF Sent
    <2> QED BY <1>1, <1>5, <2>1 DEF Exchange
  <1>13. Exchange(u, None, k2)
    BY <1>2, <1>3 DEF Exchange
  <1>14. Fresh(p, q, c, S2, t2, m, r, V, u, k2)
    <2>1. \A s \in SAs : Exists(S2, s) => Used(c, s)
      BY <1>1, <1>8 DEF Fresh
    <2>2. t2.kind = "rekey" =>
             /\ t2.new[1] = p /\ Used(c, t2.new)
             /\ r.type # "CREATED" => ~Exists(V, t2.new)
             /\ Adopted(t2) => t2.collision[1] = q
      BY <1>1, <1>5 DEF Fresh
    <2>3. \A s \in SAs : Listed(m, s) => Gone(S2, s) /\ Used(c, s)
      <3>1. \A s \in SAs : Listed(m, s) => Gone(S, s) /\ Used(c, s)
        BY <1>1 DEF Fresh
      <3> QED BY <1>8, <3>1 DEF Gone
    <2> QED BY <1>2, <2>1, <2>2, <2>3 DEF Fresh
  <1>15. Fresh(q, p, c, V, u, None, k2, S2, t2, r)
    BY <1>1, <1>2, <1>3 DEF Fresh
  <1>16. LinkCause(q, S2, u, None, k2)
    BY <1>7, NamesApart DEF LinkCause, Linked
  <1>17. LinkCause(p, V, t2, m, r)
    BY <1>1, <1>5 DEF LinkCause, RekeysOf
  <1>18. Collides(f, u, k2, S2, t2, m, r)
    BY <1>2 DEF Collides
  <1>19. Collides(f, t2, r, V, u, None, k2)
    <2>1. SUFFICES ASSUME t.kind = "rekey" PROVE Collides(f, t2, r, V, u, None, k2)
      BY <1>5 DEF Collides
    <2>2. t.sa \in SAs /\ (Adopted(t) => t.collision \in SAs) /\ \A x : ~RekeysOf(u, x)
      BY <1>1, <1>2, <2>1, RekeyFacts DEF RekeysOf
    <2>3. OldDeleted(t2) => Gone(V, t.sa)
      BY <1>1, <1>4, <1>5, <2>1 DEF Collides
    <2>4. r.type = "CHILD_SA_NOT_FOUND" => Over(V, t.sa)
      BY <1>1, <2>1 DEF Collides
    <2>5. ASSUME Adopted(t)
          PROVE  /\ V[t.sa].state # "INSTALLED"
                 /\ OtherDeleted(t2) => r.type = "CREATED" /\ f[t.collision] < f[t.new]
                 /\ OldDeleted(t2) \/ r.type = "CREATED"
      <3>1. /\ V[t.sa].state # "INSTALLED"
            /\ OtherDeleted(t) \/ Listed(n, t.collision) => r.type = "CREATED" /\ f[t.collision] < f[t.new]
            /\ ~OldDeleted(t) /\ r.type # "CREATED" => u.kind = "delete" /\ u.sa = t.sa
        BY <1>1, <2>1, <2>2, <2>5 DEF Collides
      <3> QED BY <1>2, <1>5, <2>1, <2>2, <2>5, <3>1
    <2> QED BY <1>2, <1>3, <1>5, <2>1, <2>2, <2>3, <2>4, <2>5 DEF Collides
  <1> QED
    <2>1. Side(p, q, c, f, S2, t2, m, r, V, u, None, k2)
      BY <1>1, <1>5, <1>8, <1>11, <1>12, <1>14, <1>16, <1>19 DEF Side
    <2>2. Side(q, p, c, f, V, u, None, k2, S2, t2, m, r)
      BY <1>0, <1>3, <1>13, <1>15, <1>17, <1>18 DEF Side
    <2> QED BY <2>1, <2>2 DEF Both, k2

LEMMA RespondDeleteStep ==
    ASSUME RekeyInv, NEW p \in Peers, RespondDelete(p)
    PROVE  RekeyInv'
  <1> DEFINE q == Peer(p)
             S == sas[p]
             t == task[p]
             n == request[q]
             a == Processed([S |-> S, t |-> t, entries |-> <<>>], n.list)
             S2 == Destroyed(a.S, a.entries)
             K == {x \in SAs : Listed(n, x)}
  <1>0. q \in Peers /\ q # p
    BY TwoPeers
  <1>1. /\ n.type = "delete" /\ request' = [request EXCEPT ![q] = None]
        /\ Answer(p, "DELETED") /\ UNCHANGED count /\ UNCHANGED <<nonce, recreate>>
    BY DEF RespondDelete, Deliver
  <1>2. sas' = [sas EXCEPT ![p] = S2] /\ task' = [task EXCEPT ![p] = a.t]
    BY DEF RespondDelete, Processed, Destroyed
  <1>3. Both(p, q, count.rekeys, nonce, S, t, request[p], response[p], sas[q], task[q], n, response[q])
    BY InvBoth DEF StateOf
  <1>4. /\ S \in Tables /\ t \in Tasks /\ Local(S, t)
        /\ task[q] \in Tasks /\ Exchange(task[q], n, response[q])
    BY <1>3 DEF Both, Side
  <1>5. OneOrTwo(n.list)
    BY <1>1, <1>4, DeleteFacts
  <1> HIDE DEF S, t, n, q
  <1>6. Clearing(S, t, S2, K, K) /\ Flagged(t, a.t, K)
    <2>1. CASE \E x \in SAs : n.list = <<x>>
      <3>1. PICK x \in SAs : n.list = <<x>>
        BY <2>1
      <3>2. DOMAIN <<x>> = {1} /\ <<x>>[1] = x
        OBVIOUS
      <3>3. K = {x}
        BY <1>1, <3>1, <3>2 DEF Listed
      <3> HIDE DEF K
      <3>4. a = Processed([S |-> S, t |-> t, entries |-> <<>>], <<x>>)
        BY <3>1
      <3> HIDE DEF a
      <3> QED BY <1>4, <3>3, <3>4, DeleteOne
    <2>2. CASE \E x, y \in SAs : x # y /\ n.list = <<x, y>>
      <3>1. PICK x, y \in SAs : x # y /\ n.list = <<x, y>>
        BY <2>2
      <3>2. DOMAIN <<x, y>> = {1, 2} /\ <<x, y>>[1] = x /\ <<x, y>>[2] = y
        OBVIOUS
      <3>3. K = {x, y}
        BY <1>1, <3>1, <3>2 DEF Listed
      <3> HIDE DEF K
      <3>4. a = Processed([S |-> S, t |-> t, entries |-> <<>>], <<x, y>>)
        BY <3>1
      <3> HIDE DEF a
      <3> QED BY <1>4, <3>1, <3>3, <3>4, DeleteTwo
    <2> QED BY <1>5, <2>1, <2>2 DEF OneOrTwo
  <1>7. K \in SUBSET SAs /\ \A x \in SAs : Listed(n, x) <=> x \in K
    OBVIOUS
  <1> HIDE DEF K, S2, a
  <1>8. Both(p, q, count.rekeys, nonce, S2, a.t, request[p], response[p], sas[q], task[q], None, Response("DELETED"))
    BY <1>0, <1>1, <1>3, <1>6, <1>7, ClearBoth
  <1> QED BY <1>1, <1>2, <1>8, AnswerStep DEF q
-----------------------------------------------------------------------------
(* The theorem.                                                            *)

LEMMA RekeyInvInit == Init => RekeyInv
  <1>1. SUFFICES ASSUME Init PROVE RekeyInv
    OBVIOUS
  <1> DEFINE S == [s \in SAs |-> IF s = Old THEN [state |-> "INSTALLED", out |-> "INSTALLED", link |-> NoSA]
                                           ELSE Absent]
             c == [x \in Peers |-> 0]
  <1>2. /\ sas = [x \in Peers |-> S] /\ task = [x \in Peers |-> Idle]
        /\ request = [x \in Peers |-> None] /\ response = [x \in Peers |-> None]
        /\ count = [rekeys |-> c, deletes |-> 0, failures |-> 0] /\ recreate = {}
        /\ nonce \in [Created -> 1..Cardinality(Created)]
    BY <1>1 DEF Init
  <1>3. /\ S \in Tables /\ S[Old].state = "INSTALLED"
        /\ \A x \in SAs : S[x].link = NoSA /\ S[x].state \in {"INSTALLED", "NONE"} /\ (Exists(S, x) => x = Old)
    <2> DEFINE i == [state |-> "INSTALLED", out |-> "INSTALLED", link |-> NoSA]
    <2>1. i \in SaRec /\ Absent \in SaRec /\ i.state = "INSTALLED" /\ i.link = NoSA
      BY DEF SaRec, Stages
    <2>2. Absent.state = "NONE" /\ Absent.link = NoSA
      BY DEF Absent
    <2>3. \A x \in SAs : S[x] = IF x = Old THEN i ELSE Absent
      OBVIOUS
    <2> HIDE DEF i
    <2>4. S \in Tables
      <3>1. S = [s \in SAs |-> IF s = Old THEN i ELSE Absent]
        BY DEF i
      <3> HIDE DEF S
      <3> QED BY <2>1, <3>1 DEF Tables
    <2> HIDE DEF S
    <2> QED BY <2>1, <2>2, <2>3, <2>4, NamesApart DEF Exists
  <1>4. count \in Counts /\ count.rekeys = c /\ c \in [Peers -> Nat]
    BY <1>2 DEF Counts
  <1>5. nonce \in [Created -> Nat]
    <2>1. \A x \in Created : nonce[x] \in Nat
      BY <1>2
    <2> QED BY <1>2, <2>1
  <1> HIDE DEF S, c
  <1>6. PerPeer(sas) /\ PerPeer(task) /\ PerPeer(request) /\ PerPeer(response)
    BY <1>2 DEF PerPeer
  <1>7. /\ Idle \in Tasks /\ Idle.kind = "idle" /\ None \in Messages /\ None.type = "none"
        /\ \A x : ~Listed(None, x)
    BY SimpleTasks, MessageFacts
  <1>8. ASSUME NEW p \in Peers, NEW q \in Peers
        PROVE  Side(p, q, c, nonce, S, Idle, None, None, S, Idle, None, None)
    <2>1. Local(S, Idle)
      BY <1>3, <1>7 DEF Local, RekeySound, DeleteSound, LinksSound
    <2>2. Exchange(Idle, None, None)
      BY <1>7 DEF Exchange
    <2>3. Fresh(p, q, c, S, Idle, None, None, S, Idle, None)
      BY <1>3, <1>7 DEF Fresh, Used
    <2>4. LinkCause(q, S, Idle, None, None)
      BY <1>3, NamesApart DEF LinkCause, Linked
    <2>5. Collides(nonce, Idle, None, S, Idle, None, None)
      BY <1>7 DEF Collides
    <2> QED BY <1>3, <1>7, <2>1, <2>2, <2>3, <2>4, <2>5 DEF Side
  <1>9. ASSUME NEW p \in Peers PROVE SideOf(p, Peer(p))
    <2>1. Peer(p) \in Peers
      BY TwoPeers
    <2> QED BY <1>2, <1>4, <1>8, <2>1 DEF SideOf
  <1> QED BY <1>2, <1>4, <1>5, <1>6, <1>9 DEF RekeyInv

LEMMA RekeyInvNext ==
    ASSUME Early = {}, Failures \cap {"passive", "local_winner"} = {}, RekeyInv, [Next]_vars
    PROVE  RekeyInv'
  <1>1. "passive" \notin Failures /\ "local_winner" \notin Failures
    OBVIOUS
  <1>2. ASSUME NEW p \in Peers, NEW s \in SAs, InitRekey(p, s) PROVE RekeyInv'
    BY <1>2, InitRekeyStep
  <1>3. ASSUME NEW p \in Peers, NEW s \in SAs, InitDelete(p, s) \/ InitDestroy(p, s) PROVE RekeyInv'
    BY <1>3, InitDeleteStep
  <1>4. ASSUME NEW p \in Peers, RespondRekey(p) PROVE RekeyInv'
    BY <1>1, <1>4, RespondRekeyStep
  <1>5. ASSUME NEW p \in Peers, RespondDelete(p) PROVE RekeyInv'
    BY <1>5, RespondDeleteStep
  <1>6. ASSUME NEW p \in Peers, DeleteDone(p) PROVE RekeyInv'
    BY <1>6, DeleteDoneStep
  <1>7. ASSUME NEW p \in Peers, UntendedDone(p) PROVE RekeyInv'
    BY <1>7, UntendedDoneStep
  <1>8. ASSUME NEW p \in Peers, RekeyNotFound(p) PROVE RekeyInv'
    BY <1>8, RekeyNotFoundStep
  <1>9. ASSUME NEW p \in Peers, RekeyFailed(p) PROVE RekeyInv'
    BY <1>9, RekeyFailedStep
  <1>10. ASSUME NEW p \in Peers, RekeyRetry(p) PROVE RekeyInv'
    BY <1>10, RekeyRetryStep
  <1>11. ASSUME NEW p \in Peers, RekeyLost(p) PROVE RekeyInv'
    BY <1>11, RekeyLostStep
  <1>12. ASSUME NEW p \in Peers, RekeyWon(p) PROVE RekeyInv'
    BY <1>12, RekeyWonStep
  <1>13. ASSUME NEW p \in Peers, RekeyLocalFailure(p) PROVE RekeyInv'
    BY <1>1, <1>13, RekeyLocalFailureStep
  <1>14. CASE UNCHANGED vars
    BY <1>14 DEF vars, RekeyInv, SideOf, PerPeer, Peer
  <1> QED BY <1>2, <1>3, <1>4, <1>5, <1>6, <1>7, <1>8, <1>9, <1>10, <1>11, <1>12, <1>13, <1>14 DEF Next

LEMMA RekeyInvHolds == RekeyInv => NothingDangles
  <1>1. SUFFICES ASSUME RekeyInv PROVE NothingDangles
    OBVIOUS
  <1>2. ASSUME NEW p \in Peers
        PROVE  /\ sas[p] \in Tables /\ task[p] \in Tasks /\ request[p] \in Messages
               /\ Local(sas[p], task[p])
    BY <1>1, <1>2 DEF RekeyInv, SideOf, Side
  <1>3. TypeOK
    <2>1. PerPeer(sas) /\ PerPeer(task) /\ PerPeer(request) /\ recreate \subseteq Peers
      BY <1>1 DEF RekeyInv
    <2>2. sas \in [Peers -> Tables]
      BY <1>2, <2>1 DEF PerPeer
    <2>3. task \in [Peers -> Tasks] /\ request \in [Peers -> Messages]
      BY <1>2, <2>1 DEF PerPeer
    <2>4. Tables = [SAs -> {Absent} \cup
             [state : {"INSTALLED", "REKEYING", "REKEYED", "DELETING", "DELETED"},
              out : {"NONE", "REGISTERED", "INSTALLED"}, link : SAs \cup {NoSA}]]
      <3>1. Stages \cup {"DELETING", "DELETED"} = {"INSTALLED", "REKEYING", "REKEYED", "DELETING", "DELETED"}
        BY DEF Stages
      <3> QED BY <3>1 DEF Tables, SaRec
    <2> QED BY <2>1, <2>2, <2>3, <2>4 DEF TypeOK
  <1>4. HeldExist
    <2>1. SUFFICES ASSUME NEW p \in Peers, NEW s \in Held(task[p]) PROVE Exists(sas[p], s)
      BY DEF HeldExist
    <2>2. CASE task[p].kind = "rekey"
      <3>1. s = task[p].sa \/ (s = task[p].collision /\ task[p].adopted)
        BY <2>1, <2>2 DEF Held
      <3> QED BY <1>2, <2>2, <3>1, RekeyFacts
    <2>3. CASE task[p].kind = "delete"
      <3>1. s = task[p].sa
        BY <2>1, <2>3 DEF Held
      <3>2. sas[p][task[p].sa].state = "DELETING"
        BY <1>2, <2>3 DEF Local, DeleteSound
      <3> QED BY <3>1, <3>2 DEF Exists
    <2>4. CASE task[p].kind \notin {"rekey", "delete"}
      BY <2>1, <2>4 DEF Held
    <2> QED BY <2>2, <2>3, <2>4
  <1>5. CollisionAdopted
    <2>1. SUFFICES ASSUME NEW p \in Peers, task[p].kind = "rekey"
                   PROVE  task[p].collision # NoSA <=> task[p].adopted
      BY DEF CollisionAdopted
    <2> QED BY <1>2, <2>1, RekeyFacts DEF Adopted
  <1>6. LinksLive
    <2>1. SUFFICES ASSUME NEW p \in Peers, NEW s \in SAs, sas[p][s].link # NoSA
                   PROVE  Exists(sas[p], sas[p][s].link) /\ sas[p][sas[p][s].link].link = s
      BY DEF LinksLive
    <2>2. LinksSound(sas[p])
      BY <1>2 DEF Local
    <2> QED BY <1>2, <2>1, <2>2, LinkStates DEF Exists
  <1> QED BY <1>3, <1>4, <1>5, <1>6 DEF NothingDangles

\* However the requests and responses of the peers cross, and whatever is refused
\* or cannot be installed in between, for any number of rekeyings, deletes and
\* failures: no task of child_rekey.c or child_delete.c and no rekey_sa link leads
\* to a CHILD_SA that was destroyed.  Three things are excluded, and with any of
\* them TLC shows that it fails: a CHILD_SA is rekeyed or deleted again before
\* the collision it came from is settled (Early), the responder fails to install
\* while it rekeys the same CHILD_SA ("passive"), and the winner of a collision
\* cannot install its own ("local_winner").
THEOREM NothingDanglesCorrect ==
    ASSUME Early = {}, Failures \cap {"passive", "local_winner"} = {}
    PROVE  Spec => []NothingDangles
  <1>1. Init => RekeyInv
    BY RekeyInvInit
  <1>2. RekeyInv /\ [Next]_vars => RekeyInv'
    BY RekeyInvNext
  <1>3. RekeyInv => NothingDangles
    BY RekeyInvHolds
  <1> QED BY <1>1, <1>2, <1>3, PTL DEF Spec
=============================================================================
