---------------------------- MODULE ChildRekey ----------------------------
(***************************************************************************)
(* Rekeying and deleting CHILD_SAs: the tasks child_rekey_t                *)
(* (sa/ikev2/tasks/child_rekey.c) and child_delete_t (child_delete.c) of   *)
(* the two peers of an IKE_SA, with what they need of child_create.c and   *)
(* child_sa.c.                                                             *)
(*                                                                         *)
(* Each peer has at most one request outstanding, and a request is         *)
(* processed once and answered once however often its packets are lost or  *)
(* repeated: that is what TaskManager.tla and ReliableExchange.tla show.   *)
(* But the requests of the two peers cross, so a peer may process a        *)
(* request for a CHILD_SA that it is itself rekeying or deleting, and a    *)
(* response may arrive before or after any request of its sender.          *)
(*                                                                         *)
(* A CHILD_SA is known to both peers by the same name, which stands for    *)
(* its pair of SPIs: Old is the one they start with and <<p, n>> the one   *)
(* created by the n-th rekeying of peer p.  Every operator on a table S of *)
(* CHILD_SAs returns the table that the function it models leaves behind.  *)
(* Key exchanges are complete after one exchange (no IKE_FOLLOWUP_KE).     *)
(***************************************************************************)
EXTENDS Naturals, Sequences, SequencesExt, FiniteSets

CONSTANTS
    Peers,          \* the two peers of the IKE_SA
    Rekeyers,       \* the peers that initiate rekeyings
    MaxRekeys,      \* bound on the rekeyings each peer initiates
    MaxDeletes,     \* bound on the deletes a user or a lifetime triggers
    MaxFailures,    \* bound on the failures
    Failures,       \* the kinds of failure that may happen
    DelayDestroy,   \* TRUE iff delete_rekeyed_delay is not zero
    Early           \* what a user may do to a CHILD_SA that a peer's rekeying made
                    \* while the other one still waits for the response to its own
                    \* colliding rekeying

ASSUME PeersAssumption == IsFiniteSet(Peers) /\ Cardinality(Peers) = 2 /\ Rekeyers \subseteq Peers
ASSUME BoundsAssumption == {MaxRekeys, MaxDeletes, MaxFailures} \subseteq Nat
ASSUME EarlyAssumption == Early \subseteq {"rekey", "delete"}
\* A responder refuses before or after it allocated the new CHILD_SA, which is
\* "passive" if it rekeys the same one, or it asks for another key exchange
\* method; or the initiator cannot install the new CHILD_SA, without a collision
\* or if that won or lost one.
ASSUME FailuresAssumption ==
    Failures \subseteq {"refused", "not_installed", "passive", "invalid_ke",
                        "local", "local_winner", "local_loser"}

Old == <<"old", 0>>
NoSA == <<"none", 0>>
Created == Rekeyers \X (1..MaxRekeys)
SAs == {Old} \cup Created

VARIABLES
    sas,        \* sas[p][s]: CHILD_SA s at peer p
    task,       \* task[p]: the task of p's outstanding request
    request,    \* request[p]: the request of p on its way
    response,   \* response[p]: the response to it on its way
    nonce,      \* nonce[s]: rank of the lowest nonce of the exchange that makes s
    count,      \* how often each bounded event has happened
    recreate    \* peers that queued a child_create task in place of a CHILD_SA

vars == <<sas, task, request, response, nonce, count, recreate>>

Peer(p) == CHOOSE q \in Peers : q # p

-----------------------------------------------------------------------------
\* CHILD_SAs.  Inbound they are usable as long as they exist.

Absent == [state |-> "NONE", out |-> "NONE", link |-> NoSA]
Exists(S, s) == S[s].state # "NONE"
SetState(S, s, st) == [S EXCEPT ![s].state = st]
install_outbound(S, s) == [S EXCEPT ![s].out = "INSTALLED"]
remove_outbound(S, s) == [S EXCEPT ![s].out = "NONE"]

\* install_child_sa() of child_create for a rekeying, on either side.
Install(S, s) ==
    [S EXCEPT ![s] = [state |-> "INSTALLED", out |-> "REGISTERED", link |-> NoSA]]

Link(S, old, new) == [S EXCEPT ![old].link = new, ![new].link = old]
Unlink(S, s, other) == [S EXCEPT ![s].link = NoSA, ![other].link = NoSA]

\* Mutant: the old outbound SA is removed, the new one stays registered.
ConcludeOld(S, old, new) == remove_outbound(S, old)

\* child_rekey_conclude_rekeying(): traffic moves from the old CHILD_SA to
\* the new one.
child_rekey_conclude_rekeying(S, old, new) ==
    remove_outbound(install_outbound(S, new), old)

\* conclude_rekeying() of child_delete: the same for the linked CHILD_SA.
conclude_rekeying(S, old) ==
    child_rekey_conclude_rekeying(Unlink(S, old, S[old].link), old, S[old].link)

\* child_delete_destroy_and_reestablish(), with no close action configured.
destroy_child_sa(S, s) == [S EXCEPT ![s] = Absent]

\* child_delete_destroy_rekeyed(): a job destroys the CHILD_SA later, see
\* InitDelete.
destroy_rekeyed(S, s) ==
    IF DelayDestroy THEN SetState(remove_outbound(S, s), s, "DELETED")
                    ELSE destroy_child_sa(S, s)
-----------------------------------------------------------------------------
\* Tasks and messages

Idle == [kind |-> "idle"]

\* A child_rekey task whose CREATE_CHILD_SA exchange is not complete.
Rekeying(s, new) ==
    [kind |-> "rekey", sa |-> s, new |-> new, collision |-> NoSA,
     adopted |-> FALSE, flags |-> {}, deleted |-> {}, retry |-> FALSE]

\* A child_delete task, also as the subtask of a child_rekey task: the entry
\* it keeps is the CHILD_SA and the state that was in before the delete.
Deleting(s, orig) == [kind |-> "delete", sa |-> s, orig |-> orig]

\* A delete is outstanding that no task will process the response to.
Untended == [kind |-> "untended"]

None == [type |-> "none"]
RekeyRequest(s, new) == [type |-> "rekey", sa |-> s, new |-> new]
DeleteRequest(list) == [type |-> "delete", list |-> list]
Response(what) == [type |-> what]

Init ==
    /\ sas = [p \in Peers |-> [s \in SAs |->
                IF s = Old THEN [state |-> "INSTALLED", out |-> "INSTALLED", link |-> NoSA]
                           ELSE Absent]]
    /\ task = [p \in Peers |-> Idle]
    /\ request = [p \in Peers |-> None]
    /\ response = [p \in Peers |-> None]
    /\ nonce \in {f \in [Created -> 1..Cardinality(Created)] :
                     \A s, t \in Created : f[s] = f[t] => s = t}
    /\ count = [rekeys |-> [p \in Peers |-> 0], deletes |-> 0, failures |-> 0]
    /\ recreate = {}

\* Peer p rekeys s actively.
Rekeys(p, s) == task[p].kind = "rekey" /\ task[p].sa = s

MayFail(kind) == kind \in Failures /\ count.failures < MaxFailures
Failed == count' = [count EXCEPT !.failures = @ + 1]

\* The CHILD_SAs of p become S, its task t and the request it sends m.
Become(p, S, t, m) ==
    /\ sas' = [sas EXCEPT ![p] = S]
    /\ task' = [task EXCEPT ![p] = t]
    /\ request' = [request EXCEPT ![p] = m]

\* build_i() of child_delete for CHILD_SA s: the CHILD_SAs it leaves behind,
\* with s in DELETING iff a DELETE is sent.
ConcludeFirst(S, s) ==
    IF S[s].link = NoSA THEN S
    ELSE IF S[s].state = "REKEYED"
         THEN conclude_rekeying(SetState(S, s, "DELETED"), s)
         ELSE conclude_rekeying(S, S[s].link)

BuildDelete(p, T, s) ==
    LET S == ConcludeFirst(T, s)
    IN  IF S[s].state = "DELETED"
        THEN Become(p, destroy_child_sa(S, s), Idle, None)
        ELSE Become(p, SetState(S, s, "DELETING"), Deleting(s, S[s].state),
                    DeleteRequest(<<s>>))
-----------------------------------------------------------------------------
\* The peer of p still waits for the response to a rekeying that collided
\* with the one by which p made s.
Collided(p, s) == task[Peer(p)].kind = "rekey" /\ task[Peer(p)].collision = s

\* The rekeying that made s is concluded at p and answered at its peer.  This is
\* assumed of a CHILD_SA that is rekeyed again: its lifetime just began.
Concluded(p, s) ==
    /\ sas[p][s].link = NoSA
    /\ task[Peer(p)].kind = "rekey" => task[Peer(p)].new # s

\* build_i() of child_rekey, for a soft lifetime, a user or a retry: only an
\* installed CHILD_SA is rekeyed.
InitRekey(p, s) ==
    LET new == <<p, count.rekeys[p] + 1>>
    IN  /\ task[p].kind = "idle"
        /\ p \in Rekeyers /\ count.rekeys[p] < MaxRekeys
        /\ sas[p][s].state = "INSTALLED"
        /\ Concluded(p, s)
        /\ "rekey" \in Early \/ ~Collided(p, s)
        /\ Become(p, SetState(sas[p], s, "REKEYING"), Rekeying(s, new),
                  RekeyRequest(s, new))
        /\ count' = [count EXCEPT !.rekeys[p] = @ + 1]
        /\ UNCHANGED <<response, nonce, recreate>>

\* A child_delete task is initiated by a user or by a lifetime.
InitDelete(p, s) ==
    /\ task[p].kind = "idle"
    /\ sas[p][s].state \notin {"NONE", "DELETED"}
    /\ count.deletes < MaxDeletes
    /\ "delete" \in Early \/ ~Collided(p, s)
    /\ BuildDelete(p, sas[p], s)
    /\ count' = [count EXCEPT !.deletes = @ + 1]
    /\ UNCHANGED <<response, nonce, recreate>>

\* The job that destroy_rekeyed() scheduled initiates one.
InitDestroy(p, s) ==
    /\ task[p].kind = "idle"
    /\ sas[p][s].state = "DELETED"
    /\ BuildDelete(p, sas[p], s)
    /\ UNCHANGED <<response, nonce, count, recreate>>
-----------------------------------------------------------------------------
\* Requests

Deliver(p, what) ==
    /\ request[Peer(p)].type = what
    /\ request' = [request EXCEPT ![Peer(p)] = None]

Answer(p, what) == response' = [response EXCEPT ![Peer(p)] = Response(what)]

\* collide(): the active task of p notes the passive one if that created new,
\* and adopts it if it installed new.
collide(t, s, new, installed) ==
    IF ~(t.kind = "rekey") \/ t.sa # s THEN t
    ELSE IF ~installed THEN [t EXCEPT !.collision = new]
    ELSE IF t.collision # NoSA THEN t
    ELSE [t EXCEPT !.collision = new, !.adopted = TRUE]

\* process_r() and build_r() of child_rekey, then handle_collisions().
RespondRekey(p) ==
    LET m == request[Peer(p)]
        S == sas[p]
    IN  /\ Deliver(p, "rekey")
        /\ \/ /\ S[m.sa].state \in {"NONE", "DELETED"}
              /\ Answer(p, "CHILD_SA_NOT_FOUND")
              /\ UNCHANGED <<sas, task, count>>
           \/ /\ S[m.sa].state = "DELETING"
              /\ Answer(p, "TEMPORARY_FAILURE")
              /\ UNCHANGED <<sas, task, count>>
           \/ /\ S[m.sa].state \in {"INSTALLED", "REKEYING", "REKEYED"}
              /\ \/ /\ sas' = [sas EXCEPT ![p] =
                          Link(SetState(Install(S, m.new), m.sa, "REKEYED"), m.sa, m.new)]
                    /\ task' = [task EXCEPT ![p] = collide(@, m.sa, m.new, TRUE)]
                    /\ Answer(p, "CREATED")
                    /\ UNCHANGED count
                 \/ /\ MayFail(IF Rekeys(p, m.sa) THEN "passive" ELSE "not_installed") /\ Failed
                    /\ task' = [task EXCEPT ![p] = collide(@, m.sa, m.new, FALSE)]
                    /\ Answer(p, "NO_PROPOSAL_CHOSEN")
                    /\ UNCHANGED sas
                 \/ /\ MayFail("refused") /\ Failed
                    /\ Answer(p, "NO_PROPOSAL_CHOSEN")
                    /\ UNCHANGED <<sas, task>>
                 \/ /\ MayFail("invalid_ke") /\ Failed
                    /\ Answer(p, "INVALID_KE_PAYLOAD")
                    /\ UNCHANGED <<sas, task>>
        /\ UNCHANGED <<nonce, recreate>>

\* handle_delete(): how a delete by the peer collides with active task t.
Collision(S, t, s) ==
    CASE t.kind # "rekey" \/ ~Exists(S, s) -> "NONE"
      [] t.kind = "rekey" /\ s = t.sa -> "OLD"
      [] t.kind = "rekey" /\ Exists(S, s) /\ s = t.collision -> "PEER"
      [] OTHER -> "NONE"

handle_delete(S, t, s) ==
    CASE Collision(S, t, s) = "OLD" -> [t EXCEPT !.flags = @ \cup {"OLD_SA_DELETED"}]
      [] Collision(S, t, s) = "PEER" -> [t EXCEPT !.flags = @ \cup {"OTHER_DELETED"}]
      [] t.kind = "rekey" /\ ~Exists(S, s) -> [t EXCEPT !.deleted = @ \cup {s}]
      [] OTHER -> t

\* process_payloads() for one SPI of a DELETE request.
process_payload(a, s) ==
    [S |-> IF a.S[s].state \in {"NONE", "DELETED", "DELETING"} THEN a.S
           ELSE SetState(a.S, s, "DELETING"),
     t |-> handle_delete(a.S, a.t, s),
     entries |-> IF a.S[s].state \in {"NONE", "DELETED", "DELETING"} THEN a.entries
                 ELSE Append(a.entries, [sa |-> s, orig |-> a.S[s].state,
                                         collision |-> Collision(a.S, a.t, s)])]

\* Mutant: only the old CHILD_SA is kept.
KeepOldOnly(e) == e.collision = "OLD" /\ e.orig = "REKEYING"

keep_while_rekeying(e) ==
    \/ e.collision = "OLD" /\ e.orig = "REKEYING"
    \/ e.collision = "PEER"

\* A CHILD_SA that is kept, see destroy_and_reestablish().
Keep(S, e) ==
    LET other == S[e.sa].link
        T == Unlink(S, e.sa, other)
    IN  IF other = NoSA \/ e.collision # "PEER" THEN S
        ELSE IF T[other].state = "REKEYED" THEN SetState(T, other, "REKEYING")
        ELSE T

\* destroy_and_reestablish() for one entry.
destroy_and_reestablish(S, e) ==
    LET T == SetState(S, e.sa, "DELETED")
        other == S[e.sa].link
        C == IF other = NoSA THEN remove_outbound(T, e.sa) ELSE conclude_rekeying(T, e.sa)
    IN  IF keep_while_rekeying(e) THEN Keep(S, e)
        ELSE IF e.orig = "REKEYED"
        THEN IF e.collision = "OLD" THEN C ELSE destroy_rekeyed(C, e.sa)
        ELSE IF other # NoSA /\ e.orig = "INSTALLED"
             THEN destroy_child_sa(conclude_rekeying(T, other), e.sa)
             ELSE destroy_child_sa(T, e.sa)

\* process_r() and build_r() of child_delete.
RespondDelete(p) ==
    LET a == FoldLeft(process_payload,
                      [S |-> sas[p], t |-> task[p], entries |-> <<>>],
                      request[Peer(p)].list)
    IN  /\ Deliver(p, "delete")
        /\ sas' = [sas EXCEPT ![p] = FoldLeft(destroy_and_reestablish, a.S, a.entries)]
        /\ task' = [task EXCEPT ![p] = a.t]
        /\ Answer(p, "DELETED")
        /\ UNCHANGED <<nonce, count, recreate>>
-----------------------------------------------------------------------------
\* Responses

Answered(p, kind, what) ==
    /\ task[p].kind = kind
    /\ response[p].type \in what
    /\ response' = [response EXCEPT ![p] = None]

\* process_i() of child_delete.
DeleteDone(p) ==
    /\ Answered(p, "delete", {"DELETED"})
    /\ Become(p, destroy_and_reestablish(sas[p],
                    [sa |-> task[p].sa, orig |-> task[p].orig, collision |-> "NONE"]),
              Idle, None)
    /\ UNCHANGED <<nonce, count, recreate>>

\* The task that sent the DELETE was done when it had sent it.
UntendedDone(p) ==
    /\ Answered(p, "untended", {"DELETED"})
    /\ Become(p, sas[p], Idle, None)
    /\ UNCHANGED <<nonce, count, recreate>>

OldDeleted(t) == "OLD_SA_DELETED" \in t.flags
OtherDeleted(t) == "OTHER_DELETED" \in t.flags
is_our_replacement_deleted(t) == t.new \in t.deleted

\* Mutant: each peer takes itself for the winner.
NeverLost(t) == {FALSE}

\* The outcomes lost_collision() may have: the task whose nonces it compares
\* with is gone if it was noted but not adopted.
lost_collision(t) ==
    IF t.collision = NoSA THEN {FALSE}
    ELSE IF ~t.adopted THEN BOOLEAN
    ELSE {nonce[t.new] < nonce[t.collision]}

\* ignore_child_sa_not_found(), or child_delete_destroy_and_force_reestablish().
RekeyNotFound(p) ==
    LET t == task[p]
        S == sas[p]
        T == CASE ~OldDeleted(t) \/ t.collision = NoSA -> destroy_child_sa(S, t.sa)
               [] OldDeleted(t) /\ t.collision # NoSA /\ ~OtherDeleted(t) ->
                    destroy_rekeyed(S, t.sa)
               [] OldDeleted(t) /\ t.collision # NoSA /\ OtherDeleted(t) ->
                    destroy_child_sa(destroy_rekeyed(S, t.sa), t.collision)
    IN  /\ Answered(p, "rekey", {"CHILD_SA_NOT_FOUND"})
        /\ Become(p, T, Idle, None)
        /\ recreate' = recreate \cup (IF OldDeleted(t) THEN {} ELSE {p})
        /\ UNCHANGED <<nonce, count>>

\* ignore_child_sa_failure()
PassiveDone(t) == t.adopted /\ ~OtherDeleted(t)
ignore_child_sa_failure(t) == PassiveDone(t) \/ OldDeleted(t)

\* ... and schedule_delayed_rekey().
Aborted(S, t) ==
    CASE PassiveDone(t) /\ OldDeleted(t) -> destroy_rekeyed(S, t.sa)
      [] PassiveDone(t) /\ ~OldDeleted(t) -> S
      [] ~PassiveDone(t) /\ OldDeleted(t) -> destroy_child_sa(S, t.sa)
      [] ~ignore_child_sa_failure(t) -> SetState(S, t.sa, "INSTALLED")

RekeyFailed(p) ==
    /\ Answered(p, "rekey", {"TEMPORARY_FAILURE", "NO_PROPOSAL_CHOSEN"})
    /\ Become(p, Aborted(sas[p], task[p]), Idle, None)
    /\ UNCHANGED <<nonce, count, recreate>>

\* The peer wants another key exchange method: build_i() runs again, once.
RekeyRetry(p) ==
    LET t == task[p]
    IN  /\ Answered(p, "rekey", {"INVALID_KE_PAYLOAD"})
        /\ \/ /\ ignore_child_sa_failure(t) \/ t.retry
              /\ Become(p, Aborted(sas[p], t), Idle, None)
           \/ /\ ~ignore_child_sa_failure(t) /\ ~t.retry
              /\ IF sas[p][t.sa].state = "REKEYING"
                 THEN Become(p, sas[p], [t EXCEPT !.retry = TRUE], RekeyRequest(t.sa, t.new))
                 ELSE Become(p, sas[p], Idle, None)
        /\ UNCHANGED <<nonce, count, recreate>>

\* The obsolete CHILD_SA d is deleted with a child_delete subtask, which
\* build_i_delete() runs in the same turn.
DeleteObsolete(p, S, d) ==
    LET T == SetState(S, d, "REKEYED")
    IN  BuildDelete(p, IF S[d].out = "REGISTERED" THEN remove_outbound(T, d) ELSE T, d)

\* handle_collision() when we lost, and the rest of process_i(): our new
\* CHILD_SA is redundant.
RekeyLost(p) ==
    LET t == task[p]
        S == Install(sas[p], t.new)
        T == CASE t.adopted /\ OldDeleted(t) -> destroy_rekeyed(S, t.sa)
               [] t.adopted /\ ~OldDeleted(t) /\ OtherDeleted(t) -> SetState(S, t.sa, "REKEYED")
               [] OTHER -> S
    IN  /\ Answered(p, "rekey", {"CREATED"})
        /\ TRUE \in lost_collision(t)
        /\ DeleteObsolete(p, IF t.adopted /\ OtherDeleted(t)
                             THEN destroy_child_sa(T, t.collision) ELSE T, t.new)
        /\ UNCHANGED <<nonce, count, recreate>>

\* handle_collision() when we won or there was none: the CHILD_SA the peer
\* made of the old one, if any, is redundant.
Redundant(S, t) ==
    CASE ~t.adopted -> S
      [] t.adopted /\ ~OtherDeleted(t) ->
           remove_outbound(SetState(Unlink(S, t.sa, t.collision), t.collision, "REKEYED"),
                           t.collision)
      [] t.adopted /\ OtherDeleted(t) -> destroy_rekeyed(S, t.collision)

\* CHILD_REKEY_REPLACEMENT_DELETED, which is not set if the rekeying of the peer that
\* was noted is not complete
ReplacementDeleted(t) ==
    is_our_replacement_deleted(t) /\ (t.collision = NoSA \/ t.adopted)

RekeyWon(p) ==
    LET t == task[p]
        S == Redundant(Install(sas[p], t.new), t)
        T == IF ReplacementDeleted(t) THEN destroy_child_sa(S, t.new)
             ELSE child_rekey_conclude_rekeying(S, t.sa, t.new)
    IN  /\ Answered(p, "rekey", {"CREATED"})
        /\ FALSE \in lost_collision(t)
        /\ IF OldDeleted(t) THEN Become(p, destroy_rekeyed(T, t.sa), Idle, None)
                            ELSE DeleteObsolete(p, T, t.sa)
        /\ UNCHANGED <<nonce, count, recreate>>

\* handle_local_failure(), and the build function it chose: what is deleted,
\* whether the old CHILD_SA is destroyed and whether it is recreated.
RekeyLocalFailure(p) ==
    LET t == task[p]
        S == sas[p]
        closed == destroy_child_sa(S, t.sa)
    IN  /\ Answered(p, "rekey", {"CREATED"})
        /\ \/ /\ TRUE \in lost_collision(t)
              /\ MayFail("local_loser")
              /\ Become(p, IF OldDeleted(t) THEN destroy_rekeyed(S, t.sa) ELSE S,
                        Untended, DeleteRequest(<<t.new>>))
              /\ UNCHANGED recreate
           \/ /\ FALSE \in lost_collision(t)
              /\ MayFail(IF t.collision = NoSA /\ ~Rekeys(Peer(p), t.sa)
                         THEN "local" ELSE "local_winner")
              /\ IF is_our_replacement_deleted(t)
                 THEN /\ IF OldDeleted(t) THEN Become(p, closed, Idle, None)
                         ELSE Become(p, closed, Untended, DeleteRequest(<<t.sa>>))
                      /\ UNCHANGED recreate
                 ELSE /\ Become(p, closed, Untended,
                                DeleteRequest(IF OldDeleted(t) THEN <<t.new>> ELSE <<t.sa, t.new>>))
                      /\ recreate' = recreate \cup {p}
        /\ Failed
        /\ UNCHANGED nonce

Next ==
    \E p \in Peers :
        \/ \E s \in SAs : InitRekey(p, s) \/ InitDelete(p, s) \/ InitDestroy(p, s)
        \/ RespondRekey(p) \/ RespondDelete(p)
        \/ DeleteDone(p) \/ UntendedDone(p)
        \/ RekeyNotFound(p) \/ RekeyFailed(p) \/ RekeyRetry(p)
        \/ RekeyLost(p) \/ RekeyWon(p) \/ RekeyLocalFailure(p)

Spec == Init /\ [][Next]_vars
-----------------------------------------------------------------------------
\* Properties

Messages ==
    {None} \cup [type : {"rekey"}, sa : SAs, new : Created]
           \cup [type : {"delete"}, list : BoundedSeq(SAs, 2)]

Tasks ==
    {Idle, Untended} \cup [kind : {"delete"}, sa : SAs, orig : {"INSTALLED", "REKEYING", "REKEYED"}]
    \cup [kind : {"rekey"}, sa : SAs, new : Created, collision : Created \cup {NoSA},
          adopted : BOOLEAN, flags : SUBSET {"OLD_SA_DELETED", "OTHER_DELETED"},
          deleted : SUBSET SAs, retry : BOOLEAN]

\* Type invariant: a CHILD_SA that was destroyed leaves nothing behind, and a
\* DELETE is only built for a CHILD_SA that is not being deleted already.
TypeOK ==
    /\ sas \in [Peers -> [SAs ->
          {Absent} \cup [state : {"INSTALLED", "REKEYING", "REKEYED", "DELETING", "DELETED"},
                         out : {"NONE", "REGISTERED", "INSTALLED"}, link : SAs \cup {NoSA}]]]
    /\ task \in [Peers -> Tasks]
    /\ request \in [Peers -> Messages]
    /\ recreate \subseteq Peers

\* The CHILD_SAs that the active task of a peer points to: child_sa, and the
\* one of the passive task it adopted.
Held(t) ==
    CASE t.kind = "rekey" -> {t.sa} \cup {s \in {t.collision} : t.adopted}
      [] t.kind = "delete" -> {t.sa}
      [] OTHER -> {}

\* While a task waits for its response, no request of the peer and no expired
\* lifetime destroys a CHILD_SA that the task points to: child_rekey's
\* process_i() and child_delete's destroy_and_reestablish() use them.
HeldExist == \A p \in Peers : \A s \in Held(task[p]) : Exists(sas[p], s)

\* collide(): "ignore passive tasks that did not successfully create a
\* CHILD_SA".  An active task refers to a passive one only if that was adopted,
\* else the passive task is destroyed with build_response() and the reference
\* is to freed memory.
CollisionAdopted ==
    \A p \in Peers :
        task[p].kind = "rekey" => (task[p].collision # NoSA <=> task[p].adopted)

\* The rekey_sa link of a CHILD_SA leads to one that exists and is linked
\* back: conclude_rekeying() follows it.
LinksLive ==
    \A p \in Peers, s \in SAs :
        LET other == sas[p][s].link
        IN  other # NoSA => Exists(sas[p], other) /\ sas[p][other].link = s

AtRest == \A p \in Peers : task[p].kind = "idle"
Live(p) == {s \in SAs : sas[p][s].state \notin {"NONE", "DELETED"}}

\* However the requests, responses and deletes of the peers crossed: when all
\* exchanges are done, the peers have the same CHILD_SAs (but for those that
\* are kept for delayed packets), each installed in both directions and none
\* left in the middle of a rekeying or a delete; and a collision leaves no
\* redundant one: it is exactly one, unless a delete closed it or it is being
\* recreated.
Converged ==
    AtRest => \A p \in Peers :
        /\ Live(p) = Live(Peer(p))
        /\ \A s \in Live(p) : sas[p][s].state = "INSTALLED" /\ sas[p][s].out = "INSTALLED"
        /\ Cardinality(Live(p)) <= 1
        /\ count.deletes = 0 /\ recreate = {} => Live(p) # {}

\* Rekeying loses no packet: at any time a peer has an outbound CHILD_SA, and
\* the peer still has the inbound side of each that it may send on.
Seamless ==
    count.deletes = 0 /\ count.failures = 0 =>
        \A p \in Peers :
            /\ \E s \in SAs : sas[p][s].out = "INSTALLED"
            /\ \A s \in SAs : sas[p][s].out = "INSTALLED" => Exists(sas[Peer(p)], s)

\* Whatever order the messages arrive in, no task and no CHILD_SA refers to one
\* that was destroyed: not child_sa, not collision and not rekey_sa.
NothingDangles == TypeOK /\ HeldExist /\ CollisionAdopted /\ LinksLive
=============================================================================
