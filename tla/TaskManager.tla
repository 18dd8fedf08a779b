----------------------------- MODULE TaskManager -----------------------------
(***************************************************************************)
(* The IKEv2 message layer of charon (src/libcharon/sa/ikev2/              *)
(* task_manager_v2.c): the two message-ID windows, retransmission of       *)
(* requests by scheduled jobs, replay of responses, reassembly of          *)
(* fragments and the selective retransmission of fragments driven by       *)
(* FRAGMENT_ACK notifies.                                                  *)
(*                                                                         *)
(* Two peers hold one IKE_SA.  An IKE_SA is checked out exclusively by the *)
(* job that works on it, so a handler of one peer is one atomic step; steps*)
(* of the peers, of their retransmission jobs and of the network interleave*)
(* freely.  The network is the set of all packets ever sent: a packet may  *)
(* be delivered at any time, in any order, many times or never.            *)
(*                                                                         *)
(* What the tasks put into messages is abstracted to the exchange type and *)
(* the number of fragments; what they make of one to success or an Ending. *)
(***************************************************************************)
EXTENDS Fragments, Sequences, Bags

CONSTANTS
    I, R,           \* the original initiator and responder of the IKE_SA
    Selective,      \* selective_fragment_retransmission setting of each peer
    Additional,     \* number of IKE_INTERMEDIATE key exchanges
    ReqFrags,       \* fragments of a request of each exchange type
    RespFrags,      \* fragments of a response of each exchange type
    Tries,          \* retransmit.tries
    Rekeyed,        \* TRUE: the IKE_SA was created by rekeying an older one
    Endings,        \* how tasks may end the IKE_SA when they fail on a message
    MaxRequests     \* bound: message IDs a peer uses of its own accord

Peers == {I, R}
Other(p) == IF p = I THEN R ELSE I

Exchanges == {"IKE_SA_INIT", "IKE_INTERMEDIATE", "IKE_AUTH",
              "CREATE_CHILD_SA", "INFORMATIONAL"}

ASSUME PeersAssumption == I # R
ASSUME SelectiveAssumption == Selective \in [Peers -> BOOLEAN]
ASSUME CountsAssumption == {Additional, Tries, MaxRequests} \subseteq Nat
\* IKE_SA_INIT is not encrypted and therefore never fragmented; INFORMATIONAL
\* messages are short.
ASSUME FragsAssumption ==
    /\ ReqFrags  \in [Exchanges -> Nat \ {0}]
    /\ RespFrags \in [Exchanges -> Nat \ {0}]
    /\ \A e \in {"IKE_SA_INIT", "INFORMATIONAL"} :
            ReqFrags[e] = 1 /\ RespFrags[e] = 1
ASSUME ModeAssumption ==
    Rekeyed \in BOOLEAN /\ Endings \subseteq {"close", "reject"}

VARIABLES
    state,          \* IKE_SA state of each peer
    initiating,     \* this->initiating: the window for our own requests
    responding,     \* this->responding: the window for the peer's requests
    tracker,        \* this->outgoing_tracker
    peer_supports,  \* this->peer_supports_selective_retransmission
    job,            \* this->current_retransmit_job is not NULL
    jobs,           \* retransmit jobs in the scheduler: a bag of message IDs
    keys,           \* key derivations done: the keys messages are sealed with
    ke_pending,     \* a finished key exchange waits for derive_keys()
    corrupt,        \* memory was freed that malloc() did not return
    net,            \* every packet ever sent
    seen,           \* history: fragments added to a reassembly
    handled,        \* history: IDs of the peer's requests that were answered
    completed       \* history: IDs of own requests a response completed

window  == <<initiating, responding>>
history == <<seen, handled, completed>>
vars    == <<state, window, tracker, peer_supports, job, jobs, keys, ke_pending,
             corrupt, net, history>>

-----------------------------------------------------------------------------
(* Packets.                                                                *)

Alive(p) == state[p] \in {"CREATED", "CONNECTING", "ESTABLISHED"}

\* The packets of a generated message, n fragments.  An IKE_SA_INIT message is
\* not encrypted (key 0) and advertises support for selective retransmission.
Packets(p, req, mid, type, n, key) ==
    {[src |-> p, req |-> req, mid |-> mid, type |-> type, frag |-> f,
      total |-> n, key |-> IF type = "IKE_SA_INIT" THEN 0 ELSE key,
      sel |-> type = "IKE_SA_INIT" /\ Selective[p], ack |-> NoAck] : f \in 1..n}

\* An acknowledgment is an INFORMATIONAL request with message ID 0.
AckPacket(p, key, ack) ==
    [src |-> p, req |-> TRUE, mid |-> 0, type |-> "INFORMATIONAL", frag |-> 1,
     total |-> 1, key |-> key, sel |-> FALSE, ack |-> ack]

\* generate_message() tracks a message of several fragments, request or
\* response, and forgets the message tracked before.
Tracks(p, packets) == Selective[p] /\ Cardinality(packets) > 1

TrackerAfter(p, t, mid, packets) ==
    IF Tracks(p, packets) THEN NewTracker(mid, packets) ELSE t

-----------------------------------------------------------------------------
(* Retransmission.                                                         *)

Tracked(p, t, mid) == Selective[p] /\ t.total > 0 /\ t.mid = mid

\* There is something to send for message mid.
Pending(p, mid, ini, t) ==
    Tracked(p, t, mid) \/ (mid = ini.mid /\ ini.packets # {})

\* retransmit() gets past its early exit and has something to send.
Due(p, mid, ini, t) ==
    ~(Tracked(p, t, mid) /\ AllAcked(t)) /\ Pending(p, mid, ini, t)

\* Mutant: one try more.
GivesUpLate(p, mid, ini, t) ==
    Due(p, mid, ini, t) /\ ini.retransmitted > Tries + 1

\* Mutant: one try less.
GivesUpEarly(p, mid, ini, t) ==
    Due(p, mid, ini, t) /\ ini.retransmitted >= Tries

GivesUp(p, mid, ini, t) ==
    Due(p, mid, ini, t) /\ ini.retransmitted > Tries

\* Mutant: only what was sent before is sent.
ResendsOnly(p, mid, ini, t) ==
    /\ Due(p, mid, ini, t) /\ ~GivesUp(p, mid, ini, t)
    /\ ini.retransmitted > 0

Resends(p, mid, ini, t) ==
    Due(p, mid, ini, t) /\ ~GivesUp(p, mid, ini, t)

\* What is sent: the fragments not acknowledged yet, if the peer is known to
\* acknowledge them and the message went out before, else the whole request.
Resent(p, mid, ini, t, sup) ==
    IF Tracked(p, t, mid) /\ sup /\ ini.retransmitted > 0
    THEN MissingPackets(t) ELSE ini.packets

\* Mutant: the job that ran is not replaced.
RetransmitOnce(p, mid, ini, t, sup, pending, out) ==
    LET again == Resends(p, mid, ini, t)
    IN  /\ initiating' = [initiating EXCEPT ![p] =
               IF again THEN [ini EXCEPT !.retransmitted = @ + 1] ELSE ini]
        /\ job'  = [job  EXCEPT ![p] = again]
        /\ jobs' = [jobs EXCEPT ![p] =
               IF again /\ ini.retransmitted = 0 THEN pending (+) SetToBag({mid})
               ELSE pending]
        /\ net'  = net \cup out \cup
               (IF again THEN Resent(p, mid, ini, t, sup) ELSE {})

\* retransmit(mid) in a task manager with request window ini and tracker t,
\* pending being the scheduled jobs and out what was sent before.
Retransmit(p, mid, ini, t, sup, pending, out) ==
    LET again == Resends(p, mid, ini, t)
    IN  /\ initiating' = [initiating EXCEPT ![p] =
               IF again THEN [ini EXCEPT !.retransmitted = @ + 1] ELSE ini]
        /\ job'  = [job  EXCEPT ![p] = again]
        /\ jobs' = [jobs EXCEPT ![p] =
               IF again THEN pending (+) SetToBag({mid}) ELSE pending]
        /\ net'  = net \cup out \cup
               (IF again THEN Resent(p, mid, ini, t, sup) ELSE {})

\* A job for an answered request continues with the outstanding one, if that
\* is tracked and not acknowledged yet.
Effective(p, mid) ==
    LET ini == initiating[p]  t == tracker[p]
    IN  IF /\ ~Pending(p, mid, ini, t)
           /\ mid < ini.mid
           /\ Tracked(p, t, ini.mid)
           /\ ~AllAcked(t)
        THEN ini.mid ELSE mid

\* Destroying a task manager calls cancel() of the job it references, which a
\* retransmit job does not have, and frees the tracker's elements one by one.
Destroyed(p, referenced) ==
    [state EXCEPT ![p] = IF referenced THEN "ABORTED" ELSE "DESTROYED"]

Freed(p, broken) == [corrupt EXCEPT ![p] = @ \/ broken]

\* retransmit_job execute(): retransmit, and destroy the IKE_SA on give-up.
RetransmitJob(p, mid) ==
    LET eff == Effective(p, mid)
        up  == GivesUp(p, eff, initiating[p], tracker[p])
    IN  /\ Alive(p)
        /\ mid \in DOMAIN jobs[p]
        /\ Retransmit(p, eff, initiating[p], tracker[p], peer_supports[p],
                      jobs[p] (-) SetToBag({mid}), {})
        /\ state'   = IF up THEN Destroyed(p, FALSE) ELSE state
        /\ corrupt' = Freed(p, up /\ tracker[p].total > 0)
        /\ UNCHANGED <<responding, tracker, peer_supports, keys, ke_pending,
                       history>>

-----------------------------------------------------------------------------
(* Starting an exchange.                                                   *)

\* The second half of initiate(): build the request, generate its packets and
\* send them through retransmit().
StartExchange(p, type, ini, key, sup, out) ==
    LET packets == Packets(p, TRUE, ini.mid, type, ReqFrags[type], key)
        started == [ini EXCEPT !.type = type, !.retransmitted = 0,
                               !.packets = @ \cup packets]
        t       == TrackerAfter(p, tracker[p], ini.mid, packets)
    IN  /\ tracker' = [tracker EXCEPT ![p] = t]
        /\ corrupt' = Freed(p, Tracks(p, packets) /\ tracker[p].total > 0)
        /\ Retransmit(p, ini.mid, started, t, sup, jobs[p], out)

\* initiate() with an idle window: the first message of a new IKE_SA, or a task
\* queued for an established one.
Initiate(p, type) ==
    /\ initiating[p].type = "UNDEFINED"
    /\ initiating[p].mid < MaxRequests
    /\ \/ /\ state[p] = "CREATED" /\ p = I
          /\ type = "IKE_SA_INIT"
          /\ state' = [state EXCEPT ![p] = "CONNECTING"]
       \/ /\ state[p] = "ESTABLISHED"
          /\ type \in {"CREATE_CHILD_SA", "INFORMATIONAL"}
          /\ UNCHANGED state
    /\ StartExchange(p, type, initiating[p], keys[p], peer_supports[p], {})
    /\ UNCHANGED <<responding, peer_supports, keys, ke_pending, history>>

-----------------------------------------------------------------------------
(* Receiving a message.                                                    *)

\* parse_message() first derives the keys of a key exchange that finished with
\* the last response, for every message it is called with.
KeysAtParse(p) == IF ke_pending[p] THEN keys[p] + 1 ELSE keys[p]

DeriveKeys(p) ==
    /\ keys' = [keys EXCEPT ![p] = KeysAtParse(p)]
    /\ ke_pending' = [ke_pending EXCEPT ![p] = FALSE]

Readable(p, m) == m.key \in {0, KeysAtParse(p)}

\* Mutant: responses to earlier requests are accepted.
ExpectedOrEarlier(p, m) ==
    IF m.req THEN m.mid = responding[p].mid ELSE m.mid <= initiating[p].mid

Expected(p, m) ==
    m.mid = IF m.req THEN responding[p].mid ELSE initiating[p].mid

\* is_retransmit() = ALREADY_DONE.  Hashes are sets of at most one packet.
IsRetransmit(p, m) ==
    /\ m.req
    /\ m.mid = responding[p].mid - 1
    /\ responding[p].packets # {}
    /\ responding[p].prev_hash = {m}

\* reject_request(): initial exchanges out of order, and requests to a
\* half-open initiator other than a FRAGMENT_ACK.
RejectRequest(p, m) ==
    \/ m.type = "IKE_SA_INIT" /\ state[p] # "CREATED"
    \/ /\ m.type = "IKE_INTERMEDIATE"
       /\ state[p] # "CONNECTING" \/ KeysAtParse(p) > Additional
    \/ m.type = "IKE_AUTH" /\ state[p] # "CONNECTING"
    \/ state[p] \in {"CREATED", "CONNECTING"} /\ p = I /\ ~m.ack.is

Defrag(p, m) == IF m.req THEN responding[p].defrag ELSE initiating[p].defrag

\* A message that gets as far as handle_fragment().
Arrives(p, m) ==
    /\ Expected(p, m) /\ Readable(p, m)
    /\ ~(m.req /\ RejectRequest(p, m))

\* Mutant: the state of the IKE_SA is not considered.
AlreadyProcessedAnyState(p, m) == responding[p].mid >= m.mid

\* handle_fragment() does not reinject what it takes for a message processed
\* before.
AlreadyProcessed(p, m) ==
    responding[p].mid >= m.mid /\ state[p] = "ESTABLISHED"

LastFragment(p, m) ==
    /\ m.total > 1
    /\ Accepts(Defrag(p, m), m) /\ Completes(Defrag(p, m), m)

\* A message processed now: unfragmented, or reassembled and reinjected.
Whole(p, m) ==
    m.total = 1 \/ (LastFragment(p, m) /\ ~AlreadyProcessed(p, m))

\* Every fragment added is acknowledged at once, in the keys of the receiver.
AcksFor(p, m) ==
    IF Selective[p] /\ m.total > 1 /\ Accepts(Defrag(p, m), m)
    THEN {AckPacket(p, KeysAtParse(p), FragmentAck(Defrag(p, m), m))} ELSE {}

\* hash_message() of whole messages and first fragments, responses included.
HashAfter(p, m) == IF m.frag = 1 THEN {m} ELSE responding[p].hash

Fragment(m) == [src |-> m.src, req |-> m.req, mid |-> m.mid, frag |-> m.frag]

\* The history of fragments collected by p.
See(p, m) ==
    seen' = [seen EXCEPT ![p] =
        IF m.total > 1 /\ Accepts(Defrag(p, m), m) THEN @ \cup {Fragment(m)} ELSE @]

\* The tracker, and the reference to the job, after an acknowledgment.
AckedTracker(p, m) ==
    IF m.ack.is THEN ProcessFragmentAck(tracker[p], m.ack) ELSE tracker[p]

JobAfterAck(p, m) ==
    LET t == AckedTracker(p, m)
    IN  job[p] /\ ~(m.ack.is /\ t.total > 0 /\ t.mid = m.ack.mid
                    /\ t.acked_fragments = t.total)

\* A retransmitted request: the stored response is sent again.
ResendResponse(p, m) ==
    /\ IsRetransmit(p, m)
    /\ net' = net \cup responding[p].packets
    /\ UNCHANGED <<state, window, tracker, peer_supports, job, jobs, keys,
                   ke_pending, corrupt, history>>

\* A message outside the window is parsed, its FRAGMENT_ACK applied if it has
\* one, and otherwise ignored.
UnexpectedId(p, m) ==
    /\ ~Expected(p, m) /\ ~IsRetransmit(p, m)
    /\ DeriveKeys(p)
    /\ tracker' = [tracker EXCEPT ![p] =
           IF Readable(p, m) THEN AckedTracker(p, m) ELSE @]
    /\ job' = [job EXCEPT ![p] = IF Readable(p, m) THEN JobAfterAck(p, m) ELSE @]
    /\ UNCHANGED <<state, window, peer_supports, jobs, corrupt, net, history>>

\* A message that cannot be decrypted, or that reject_request() refuses.
Dropped(p, m) ==
    /\ Expected(p, m) /\ ~Arrives(p, m)
    /\ DeriveKeys(p)
    /\ UNCHANGED <<state, window, tracker, peer_supports, job, jobs, corrupt, net,
                   history>>

\* A fragment that does not lead to a message being processed: others are
\* missing, it belongs to another message than the ones collected, or it
\* completes a message that handle_fragment() takes for processed.
CollectFragment(p, m) ==
    LET d   == Defrag(p, m)
        ok  == Accepts(d, m)
        new == IF ~ok THEN d
               ELSE IF Completes(d, m) THEN NoDefrag ELSE AddFragment(d, m)
    IN  /\ Arrives(p, m) /\ m.total > 1 /\ ~Whole(p, m)
        /\ DeriveKeys(p)
        /\ initiating' = [initiating EXCEPT ![p].defrag = IF m.req THEN @ ELSE new]
        /\ responding' = [responding EXCEPT ![p] =
               [responding[p] EXCEPT
                   !.defrag = IF m.req THEN new ELSE @,
                   !.hash   = IF ok THEN HashAfter(p, m) ELSE @]]
        /\ net' = net \cup AcksFor(p, m)
        /\ See(p, m)
        /\ UNCHANGED <<state, tracker, peer_supports, job, jobs, corrupt, handled,
                       completed>>

-----------------------------------------------------------------------------
(* Processing a request.                                                   *)

\* Mutant: the message ID does not advance.
RespondedKeepsMid(p, m, packets) ==
    [responding[p] EXCEPT !.packets = packets, !.hash = HashAfter(p, m),
                          !.prev_hash = HashAfter(p, m),
                          !.defrag = IF m.total > 1 THEN NoDefrag ELSE @]

\* Mutant: the answered request is not remembered as such.
RespondedForgets(p, m, packets) ==
    [responding[p] EXCEPT !.mid = @ + 1, !.packets = packets,
                          !.hash = HashAfter(p, m),
                          !.defrag = IF m.total > 1 THEN NoDefrag ELSE @]

\* The request window once a request was answered.
Responded(p, m, packets) ==
    [responding[p] EXCEPT !.mid = @ + 1, !.packets = packets,
                          !.hash = HashAfter(p, m),
                          !.prev_hash = HashAfter(p, m),
                          !.defrag = IF m.total > 1 THEN NoDefrag ELSE @]

RespondingState(p, m) ==
    [state EXCEPT ![p] = CASE m.type = "IKE_SA_INIT" -> "CONNECTING"
                           [] m.type = "IKE_AUTH"    -> "ESTABLISHED"
                           [] OTHER                  -> @]

\* process_request() and build_response(): the tasks process the request and
\* build a response, which is generated, stored and sent.
ProcessRequest(p, m) ==
    LET k       == KeysAtParse(p)
        packets == Packets(p, FALSE, responding[p].mid, m.type,
                           RespFrags[m.type], k)
        t       == TrackerAfter(p, AckedTracker(p, m), responding[p].mid, packets)
    IN  /\ m.req /\ Arrives(p, m) /\ Whole(p, m)
        /\ responding' = [responding EXCEPT ![p] = Responded(p, m, packets)]
        /\ state' = RespondingState(p, m)
        /\ keys' = [keys EXCEPT ![p] = k]
        /\ ke_pending' = [ke_pending EXCEPT ![p] =
               m.type \in {"IKE_SA_INIT", "IKE_INTERMEDIATE"}]
        /\ tracker' = [tracker EXCEPT ![p] = t]
        /\ corrupt' = Freed(p, Tracks(p, packets) /\ tracker[p].total > 0)
        /\ peer_supports' = [peer_supports EXCEPT ![p] = @ \/ m.sel]
        /\ job' = [job EXCEPT ![p] = JobAfterAck(p, m)]
        /\ net' = net \cup AcksFor(p, m) \cup packets
        /\ See(p, m)
        /\ handled' = [handled EXCEPT ![p] =
               IF m.ack.is THEN @ ELSE Append(@, m.mid)]
        /\ UNCHANGED <<initiating, jobs, completed>>

\* The same with a task that ends the IKE_SA: after its response was sent
\* ("close", also how a DELETE request is answered) or without one ("reject").
CloseOnRequest(p, m, ending) ==
    LET k       == KeysAtParse(p)
        packets == IF ending = "reject" THEN {}
                   ELSE Packets(p, FALSE, responding[p].mid, m.type,
                                RespFrags[m.type], k)
        t       == TrackerAfter(p, AckedTracker(p, m), responding[p].mid, packets)
    IN  /\ m.req /\ Arrives(p, m) /\ Whole(p, m)
        /\ ~m.ack.is
        /\ state' = Destroyed(p, JobAfterAck(p, m))
        /\ tracker' = [tracker EXCEPT ![p] = t]
        /\ corrupt' = Freed(p, t.total > 0)
        /\ net' = net \cup AcksFor(p, m) \cup packets
        /\ See(p, m)
        /\ handled' = [handled EXCEPT ![p] =
               IF ending = "close" THEN Append(@, m.mid) ELSE @]
        /\ DeriveKeys(p)
        /\ UNCHANGED <<window, peer_supports, job, jobs, completed>>

-----------------------------------------------------------------------------
(* Processing a response.                                                  *)

TypeMatches(p, m) ==
    \/ m.type = initiating[p].type
    \/ m.type = "INFORMATIONAL" /\ initiating[p].type = "UNDEFINED"

\* Mutant: one key exchange too few.
NextExchangeEarly(m) ==
    IF m.mid + 1 < Additional THEN "IKE_INTERMEDIATE" ELSE "IKE_AUTH"

\* The request that continues the initial exchanges.
NextExchange(m) ==
    IF m.mid < Additional THEN "IKE_INTERMEDIATE" ELSE "IKE_AUTH"

Continues(p) == initiating[p].type \in {"IKE_SA_INIT", "IKE_INTERMEDIATE"}

\* The request window after the response m was processed.
Idle(p, m) ==
    [initiating[p] EXCEPT !.mid = @ + 1, !.type = "UNDEFINED", !.packets = {},
                          !.defrag = IF m.total > 1 THEN NoDefrag ELSE @]

Complete(p) ==
    completed' = [completed EXCEPT ![p] =
        IF initiating[p].type = "UNDEFINED" THEN @ ELSE @ \cup {initiating[p].mid}]

\* What the tasks derive from a response: its key exchange, and the state.
KeysAfter(p) == IF Continues(p) THEN KeysAtParse(p) + 1 ELSE KeysAtParse(p)

StateAfter(p, m) ==
    [state EXCEPT ![p] = IF m.type = "IKE_AUTH" THEN "ESTABLISHED" ELSE @]

\* The requests initiate() may go on with: the next initial exchange, or one for
\* a task that was queued meanwhile.
Following(p, m) ==
    IF Continues(p) THEN {NextExchange(m)}
    ELSE IF StateAfter(p, m)[p] = "ESTABLISHED" /\ m.mid + 1 < MaxRequests
    THEN {"CREATE_CHILD_SA", "INFORMATIONAL"} ELSE {}

\* process_response() of a message that completes an exchange with nothing left
\* to initiate: the last initial exchange, an exchange of an established
\* IKE_SA, or the "response" to an acknowledgment.
ProcessResponse(p, m) ==
    /\ ~m.req /\ Arrives(p, m) /\ Whole(p, m)
    /\ TypeMatches(p, m) /\ ~Continues(p)
    /\ initiating' = [initiating EXCEPT ![p] = Idle(p, m)]
    /\ responding' = [responding EXCEPT ![p].hash = HashAfter(p, m)]
    /\ state' = StateAfter(p, m)
    /\ job' = [job EXCEPT ![p] = FALSE]
    /\ net' = net \cup AcksFor(p, m)
    /\ DeriveKeys(p) /\ See(p, m) /\ Complete(p)
    /\ UNCHANGED <<tracker, peer_supports, jobs, corrupt, handled>>

\* process_response() followed by initiate() with something to do: the next
\* request is built and sent in the same step, in the new keys if there are.
InitiateNext(p, m, type) ==
    /\ ~m.req /\ Arrives(p, m) /\ Whole(p, m)
    /\ TypeMatches(p, m) /\ type \in Following(p, m)
    /\ StartExchange(p, type, Idle(p, m), KeysAfter(p),
                     peer_supports[p] \/ m.sel, AcksFor(p, m))
    /\ responding' = [responding EXCEPT ![p].hash = HashAfter(p, m)]
    /\ state' = StateAfter(p, m)
    /\ keys' = [keys EXCEPT ![p] = KeysAfter(p)]
    /\ ke_pending' = [ke_pending EXCEPT ![p] = FALSE]
    /\ peer_supports' = [peer_supports EXCEPT ![p] = @ \/ m.sel]
    /\ See(p, m) /\ Complete(p)
    /\ UNCHANGED handled

\* A response of another exchange type, or one a task fails on, ends the IKE_SA
\* while the job for the request is still referenced.
CloseOnResponse(p, m) ==
    /\ ~m.req /\ Arrives(p, m) /\ Whole(p, m)
    /\ TypeMatches(p, m) =>
           "close" \in Endings /\ initiating[p].type # "UNDEFINED"
    /\ state' = Destroyed(p, job[p])
    /\ corrupt' = Freed(p, tracker[p].total > 0)
    /\ responding' = [responding EXCEPT ![p].hash = HashAfter(p, m)]
    /\ net' = net \cup AcksFor(p, m)
    /\ DeriveKeys(p) /\ See(p, m)
    /\ UNCHANGED <<initiating, tracker, peer_supports, job, jobs, handled, completed>>

\* process_message()
ProcessMessage(p, m) ==
    /\ Alive(p) /\ m.src = Other(p)
    /\ \/ ResendResponse(p, m)
       \/ UnexpectedId(p, m)
       \/ Dropped(p, m)
       \/ CollectFragment(p, m)
       \/ ProcessRequest(p, m)
       \/ \E ending \in Endings : CloseOnRequest(p, m, ending)
       \/ ProcessResponse(p, m)
       \/ \E type \in Exchanges : InitiateNext(p, m, type)
       \/ CloseOnResponse(p, m)

\* delete_ike_sa_job, scheduled by the responder for a half-open IKE_SA.
HalfOpenTimeout(p) ==
    /\ p = R /\ state[p] = "CONNECTING"
    /\ state' = Destroyed(p, job[p])
    /\ corrupt' = Freed(p, tracker[p].total > 0)
    /\ UNCHANGED <<window, tracker, peer_supports, job, jobs, keys, ke_pending,
                   net, history>>

\* After an invalid free() the daemon may go on or be aborted by the allocator,
\* at once or later.
HeapAbort(p) ==
    /\ corrupt[p] /\ state[p] # "ABORTED"
    /\ state' = [state EXCEPT ![p] = "ABORTED"]
    /\ UNCHANGED <<window, tracker, peer_supports, job, jobs, keys, ke_pending,
                   corrupt, net, history>>

-----------------------------------------------------------------------------
Init ==
    /\ state = [p \in Peers |-> IF Rekeyed THEN "ESTABLISHED" ELSE "CREATED"]
    /\ initiating = [p \in Peers |->
           [mid |-> 0, type |-> "UNDEFINED", retransmitted |-> 0,
            packets |-> {}, defrag |-> NoDefrag]]
    /\ responding = [p \in Peers |->
           [mid |-> 0, packets |-> {}, hash |-> {}, prev_hash |-> {},
            defrag |-> NoDefrag]]
    /\ tracker = [p \in Peers |-> NoTracker]
    /\ peer_supports = [p \in Peers |-> FALSE]
    /\ job = [p \in Peers |-> FALSE]
    /\ jobs = [p \in Peers |-> EmptyBag]
    /\ keys = [p \in Peers |-> IF Rekeyed THEN 1 ELSE 0]
    /\ ke_pending = [p \in Peers |-> FALSE]
    /\ corrupt = [p \in Peers |-> FALSE]
    /\ net = {}
    /\ seen = [p \in Peers |-> {}]
    /\ handled = [p \in Peers |-> <<>>]
    /\ completed = [p \in Peers |-> {}]

Next ==
    \E p \in Peers :
        \/ \E type \in Exchanges : Initiate(p, type)
        \/ \E mid \in DOMAIN jobs[p] : RetransmitJob(p, mid)
        \/ \E m \in net : ProcessMessage(p, m)
        \/ HalfOpenTimeout(p)
        \/ HeapAbort(p)

Spec == Init /\ [][Next]_vars

\* The scheduler executes every job it holds, so a scheduled retransmission
\* eventually runs.  Nothing is assumed about the delivery of packets.
Mids == 0..(MaxRequests + Additional + 2)

FairSpec ==
    Spec /\ \A p \in Peers : \A mid \in Mids : WF_vars(RetransmitJob(p, mid))

-----------------------------------------------------------------------------
(* Types.                                                                  *)

Packet ==
    [src : Peers, req : BOOLEAN, mid : Nat, type : Exchanges, frag : Nat \ {0},
     total : Nat \ {0}, key : Nat, sel : BOOLEAN,
     ack : [is : BOOLEAN, mid : Nat, bits : SUBSET Nat]]

DefragType == [mid : Nat, total : Nat, got : SUBSET Nat]

TrackerType ==
    [mid : Nat, total : Nat, acked_fragments : Nat, acked : SUBSET Nat,
     packets : SUBSET Packet]

InitiatingType ==
    [mid : Nat, type : Exchanges \cup {"UNDEFINED"},
     retransmitted : 0..(Tries + 1), packets : SUBSET Packet,
     defrag : DefragType]

RespondingType ==
    [mid : Nat, packets : SUBSET Packet, hash : SUBSET Packet,
     prev_hash : SUBSET Packet, defrag : DefragType]

States == {"CREATED", "CONNECTING", "ESTABLISHED", "DESTROYED", "ABORTED"}

\* Every variable holds values of its kind; a request is sent at most Tries + 1
\* times before retransmit() gives up.
TypeOK ==
    /\ state \in [Peers -> States]
    /\ initiating \in [Peers -> InitiatingType]
    /\ responding \in [Peers -> RespondingType]
    /\ tracker \in [Peers -> TrackerType]
    /\ peer_supports \in [Peers -> BOOLEAN]
    /\ job \in [Peers -> BOOLEAN]
    /\ DOMAIN jobs = Peers
    /\ \A p \in Peers : IsABag(jobs[p]) /\ DOMAIN jobs[p] \subseteq Nat
    /\ keys \in [Peers -> Nat]
    /\ ke_pending \in [Peers -> BOOLEAN]
    /\ corrupt \in [Peers -> BOOLEAN]
    /\ net \subseteq Packet
    /\ handled \in [Peers -> Seq(Nat)]
    /\ completed \in [Peers -> SUBSET Nat]

-----------------------------------------------------------------------------
(* Fragments and acknowledgments.                                          *)

\* The count of acknowledged fragments, on which retransmit() decides that
\* nothing is left to send, is the number of fragments marked as acknowledged
\* and never exceeds the fragments of the message (update_fragment_ack_status
\* counts a fragment once, however often and in whatever order ACKs arrive).
TrackerCount ==
    \A p \in Peers :
        LET t == tracker[p]
        IN  /\ t.acked \subseteq 1..t.total
            /\ t.acked_fragments = Cardinality(t.acked)

\* A reassembly in progress lacks at least one fragment: add_fragment_v2() never
\* keeps a complete set of fragments without merging it.
ReassemblyOpen ==
    \A p \in Peers : \A d \in {initiating[p].defrag, responding[p].defrag} :
        d.total > 0 => Cardinality(d.got) \in 1..(d.total - 1)

\* A fragmented request that was answered, or response that completed an
\* exchange, was put together from all of its fragments.
ProcessedIsReassembled ==
    \A p \in Peers : \A m \in net :
        (/\ m.src = Other(p) /\ m.total > 1
         /\ \/ m.req /\ \E i \in DOMAIN handled[p] : handled[p][i] = m.mid
            \/ ~m.req /\ m.mid \in completed[p])
        => Fragment(m) \in seen[p]

\* A fragment the tracker has as acknowledged did arrive at the other peer, so
\* that leaving it out of a retransmission loses nothing.
AckedWasReceived ==
    \A p \in Peers : \A x \in tracker[p].packets :
        x.frag \in tracker[p].acked => Fragment(x) \in seen[Other(p)]

-----------------------------------------------------------------------------
(* Exchanges.                                                              *)

Outstanding(p) == initiating[p].type # "UNDEFINED"

\* A request that completed at its sender was executed by the other peer: no
\* response is taken for the answer to a request it does not answer.
CompletedWasHandled ==
    \A p \in Peers : \A mid \in completed[p] :
        \E i \in DOMAIN handled[Other(p)] : handled[Other(p)][i] = mid

\* The message ID a living peer expects is the one of the outstanding request,
\* or the next if it answered that already.  Otherwise requests of the other
\* peer are ignored for good.
WindowSync ==
    \A p \in Peers : Alive(Other(p)) =>
        responding[Other(p)].mid - initiating[p].mid
            \in IF Outstanding(p) THEN {0, 1} ELSE {0}

\* While a peer waits for the response to an answered request, the other one
\* still stores that response and recognises the first packet of the request
\* as a retransmission: a lost response can always be asked for again.
AnswerRetained ==
    \A p \in Peers :
        (/\ Alive(p) /\ Alive(Other(p)) /\ Outstanding(p)
         /\ responding[Other(p)].mid = initiating[p].mid + 1)
        => /\ \E m \in initiating[p].packets :
                  m.frag = 1 /\ IsRetransmit(Other(p), m)
           /\ \A x \in responding[Other(p)].packets :
                  ~x.req /\ x.mid = initiating[p].mid /\ x.type = initiating[p].type

\* A request that took a message ID was sent: initiate() hands it to
\* retransmit(), which may not mistake it for another message it has tracked.
IssuedWasSent ==
    \A p \in Peers : Alive(p) /\ Outstanding(p) =>
        initiating[p].packets # {} /\ initiating[p].packets \subseteq net

\* What retransmit() sends for an outstanding request are packets of that
\* request, not of another message that is tracked under the same message ID
\* or of an earlier request.
RetransmitsRequest ==
    \A p \in Peers :
        LET ini == initiating[p]
            out == Resent(p, ini.mid, ini, tracker[p], peer_supports[p])
        IN  Alive(p) /\ Outstanding(p) /\ Resends(p, ini.mid, ini, tracker[p])
                => out # {} /\ \A x \in out : x.req /\ x.mid = ini.mid

\* An outstanding request has a retransmission scheduled, whatever happened to
\* the jobs and trackers of other messages.
OutstandingIsTimed ==
    \A p \in Peers : Alive(p) /\ Outstanding(p) => initiating[p].mid \in DOMAIN jobs[p]

\* The initiator has the IKE_SA established only after the responder has, with
\* the keys of all key exchanges on both sides.
EstablishedAgreement ==
    state[I] = "ESTABLISHED" /\ ~Rekeyed =>
        /\ state[R] \notin {"CREATED", "CONNECTING"}
        /\ keys[I] = Additional + 1 /\ KeysAtParse(R) = Additional + 1

\* retransmit() gives up, and the IKE_SA is destroyed, only while a request is
\* outstanding that was sent Tries + 1 times.
GiveUpWaitsForAnswer ==
    [][\A p \in Peers :
          Alive(p) /\ ~Alive(p)' /\ jobs'[p] # jobs[p] =>
              Outstanding(p) /\ initiating[p].retransmitted = Tries + 1]_vars

\* A request whose fragments are complete is processed: the step that ends its
\* reassembly advances the expected message ID, unless it ends the IKE_SA.
ReassembledIsProcessed ==
    [][\A p \in Peers :
          responding[p].defrag.total > 0 /\ responding'[p].defrag.total = 0 =>
              ~Alive(p)' \/ responding'[p].mid = responding[p].mid + 1]_vars

\* Destroying an IKE_SA never brings the daemon down.
NoAbort == \A p \in Peers : state[p] # "ABORTED"

\* Every request is answered, or given up with the IKE_SA: no exchange stays
\* outstanding forever, even if the network loses every packet.
Resolved ==
    \A p \in Peers : \A mid \in Mids :
        (Alive(p) /\ Outstanding(p) /\ initiating[p].mid = mid)
            ~> (initiating[p].mid # mid \/ ~Alive(p))

-----------------------------------------------------------------------------
(* The promise to the tasks.                                               *)

\* The windows as an implementation of ReliableExchange: a request is issued
\* when it takes a message ID, executed when process_request() answers it, and
\* completed when process_response() advances the message ID.
Promise == INSTANCE ReliableExchange WITH
    issued    <- [p \in Peers |-> initiating[p].mid + IF Outstanding(p) THEN 1 ELSE 0],
    executed  <- [p \in Peers |-> Len(handled[Other(p)])],
    completed <- [p \in Peers |-> initiating[p].mid]

\* Requests are executed at most once, in order and one at a time, and complete
\* only when executed (task_manager_v2.c, its windows and replay detection).
PromiseKept == Promise!Spec

\* Fragments become a message when all of them have arrived, not before and not
\* again later: see add_fragment_v2() and handle_fragment().
ReassemblySound == ReassemblyOpen /\ ProcessedIsReassembled

\* A request that is outstanding was sent, is what retransmit() sends again, and
\* has a job that will: whatever was tracked, answered or scheduled before it.
OutstandingSound == IssuedWasSent /\ RetransmitsRequest /\ OutstandingIsTimed
=============================================================================
