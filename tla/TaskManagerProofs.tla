-------------------------- MODULE TaskManagerProofs --------------------------
(***************************************************************************)
(* Theorems about TaskManager, for every value of its constants.           *)
(***************************************************************************)
EXTENDS TaskManager, FiniteSetTheorems, TLAPS

-----------------------------------------------------------------------------
(* Operators.                                                              *)

\* The constants, as the proofs use them.
LEMMA Constants ==
    /\ Additional \in Nat /\ Tries \in Nat /\ MaxRequests \in Nat
    /\ Selective \in [Peers -> BOOLEAN] /\ Rekeyed \in BOOLEAN
    /\ \A e \in Exchanges : ReqFrags[e] \in Nat \ {0} /\ RespFrags[e] \in Nat \ {0}
    /\ AckBits \in Nat
    /\ I # R /\ I \in Peers /\ R \in Peers
    /\ \A p \in Peers : Other(p) \in Peers /\ Other(p) # p /\ Other(Other(p)) = p
    /\ \A p, q \in Peers : q = p \/ q = Other(p)
  BY CountsAssumption, SelectiveAssumption, FragsAssumption, AckBitsAssumption,
     PeersAssumption, ModeAssumption
     DEF Peers, Other

\* The numbers of n fragments.
LEMMA FiniteNumbers ==
    ASSUME NEW n \in Nat
    PROVE  IsFiniteSet(1..n) /\ \A S \in SUBSET (1..n) : IsFiniteSet(S)
  <1>1. 1 \in Int /\ n \in Int
    OBVIOUS
  <1>2. IsFiniteSet(1..n)
    BY <1>1, FS_Interval
  <1> QED BY <1>2, FS_Subset

\* A message of n fragments is a finite set of packets.
LEMMA PacketsType ==
    ASSUME NEW p \in Peers, NEW req \in BOOLEAN, NEW mid \in Nat,
           NEW type \in Exchanges, NEW n \in Nat \ {0}, NEW key \in Nat
    PROVE  /\ Packets(p, req, mid, type, n, key) \subseteq Packet
           /\ IsFiniteSet(Packets(p, req, mid, type, n, key))
           /\ Packets(p, req, mid, type, n, key) # {}
  <1> DEFINE P == Packets(p, req, mid, type, n, key)
             G(f) == [src |-> p, req |-> req, mid |-> mid, type |-> type, frag |-> f,
                      total |-> n, key |-> IF type = "IKE_SA_INIT" THEN 0 ELSE key,
                      sel |-> type = "IKE_SA_INIT" /\ Selective[p], ack |-> NoAck]
             g == [f \in 1..n |-> G(f)]
  <1>1. P = {G(f) : f \in 1..n}
    BY DEF Packets
  <1>2. g \in Surjection(1..n, P)
    BY <1>1 DEF Surjection
  <1>3. IsFiniteSet(P)
    <2>1. IsFiniteSet(1..n)
      BY FS_Interval
    <2> HIDE DEF P, g
    <2> QED BY <1>2, <2>1, FS_Surjection
  <1>4. \A f \in 1..n : G(f) \in Packet
    BY Constants DEF Packet, NoAck
  <1>5. G(1) \in P
    BY <1>1
  <1> QED BY <1>1, <1>3, <1>4, <1>5

\* FRAGMENT_ACK messages are packets.
LEMMA AckPacketType ==
    ASSUME NEW p \in Peers, NEW key \in Nat, NEW m \in Packet, NEW d \in DefragType
    PROVE  AckPacket(p, key, FragmentAck(d, m)) \in Packet
  BY DEF AckPacket, FragmentAck, ReassembledAck, AddFragment, Kept, Packet,
         DefragType, Exchanges

\* add_fragment() keeps a reassembly a reassembly.
LEMMA AddFragmentType ==
    ASSUME NEW d \in DefragType, NEW m \in Packet
    PROVE  AddFragment(d, m) \in DefragType
  BY DEF AddFragment, Kept, Packet, DefragType

\* Adding and removing a job leaves a bag of message IDs.
LEMMA JobsType ==
    ASSUME NEW b, IsABag(b), DOMAIN b \subseteq Nat, NEW mid \in Nat
    PROVE  /\ IsABag((b (+) SetToBag({mid})))
           /\ DOMAIN (b (+) SetToBag({mid})) = DOMAIN b \cup {mid}
           /\ IsABag((b (-) SetToBag({mid}))) /\ DOMAIN (b (-) SetToBag({mid})) \subseteq Nat
  BY DEF IsABag, SetToBag, (+), (-)

\* The count of a tracker agrees with its marks.
Counted(t) ==
    /\ t.acked \subseteq 1..t.total
    /\ t.acked_fragments = Cardinality(t.acked)

\* A new tracker, of a message that was fragmented, has no marks.
LEMMA NewTrackerType ==
    ASSUME NEW mid \in Nat, NEW packets \in SUBSET Packet, IsFiniteSet(packets)
    PROVE  NewTracker(mid, packets) \in TrackerType /\ Counted(NewTracker(mid, packets))
  BY FS_CardinalityType, FS_EmptySet DEF NewTracker, TrackerType, Counted

\* update_fragment_ack_status() keeps the count exact.
LEMMA UpdateType ==
    ASSUME NEW t \in TrackerType, NEW bits
    PROVE  /\ UpdateAckStatus(t, bits) \in TrackerType
           /\ Counted(t) => Counted(UpdateAckStatus(t, bits))
  <1> DEFINE fresh == (bits \cap (1..t.total)) \ t.acked
  <1>1. /\ t.total \in Nat /\ t.acked_fragments \in Nat /\ t.acked \subseteq Nat
    BY DEF TrackerType
  <1>2. IsFiniteSet(1..t.total)
    BY <1>1, FiniteNumbers
  <1>3. fresh \in SUBSET (1..t.total)
    OBVIOUS
  <1>4. IsFiniteSet(fresh) /\ Cardinality(fresh) \in Nat
    BY <1>2, <1>3, FS_Subset, FS_CardinalityType
  <1> DEFINE u == UpdateAckStatus(t, bits)
  <1>5. /\ u.acked = t.acked \cup fresh /\ u.total = t.total
        /\ u.acked_fragments = t.acked_fragments + Cardinality(fresh)
    BY DEF UpdateAckStatus, TrackerType
  <1>6. u \in TrackerType
    <2>1. \A x \in SUBSET Nat, y \in Nat :
              [t EXCEPT !.acked = x, !.acked_fragments = y] \in TrackerType
      BY DEF TrackerType
    <2>2. t.acked \cup fresh \in SUBSET Nat /\ t.acked_fragments + Cardinality(fresh) \in Nat
      BY <1>1, <1>3, <1>4
    <2> QED BY <2>1, <2>2 DEF UpdateAckStatus
  <1>7. ASSUME Counted(t) PROVE Counted(u)
    <2>1. t.acked \in SUBSET (1..t.total)
      BY <1>7 DEF Counted
    <2>2. IsFiniteSet(t.acked)
      BY <2>1, <1>2, FS_Subset
    <2>3. t.acked \cap fresh = {}
      OBVIOUS
    <2>4. Cardinality(t.acked \cup fresh)
              = Cardinality(t.acked) + Cardinality(fresh) - Cardinality({})
      BY <2>2, <2>3, <1>4, FS_Union
    <2>5. Cardinality({}) = 0 /\ Cardinality(t.acked) \in Nat
      BY <2>2, FS_EmptySet, FS_CardinalityType
    <2>6. Cardinality(t.acked \cup fresh) = t.acked_fragments + Cardinality(fresh)
      BY <1>7, <1>4, <2>4, <2>5 DEF Counted
    <2> HIDE DEF fresh, u
    <2> QED BY <2>1, <1>3, <1>5, <2>6 DEF Counted
  <1> QED BY <1>6, <1>7

-----------------------------------------------------------------------------
(* Type correctness.                                                       *)

\* What TypeOK says about one peer.
LEMMA PeerTypes ==
    ASSUME TypeOK, NEW p \in Peers
    PROVE  /\ initiating[p] \in InitiatingType /\ responding[p] \in RespondingType
           /\ initiating[p].mid \in Nat /\ responding[p].mid \in Nat
           /\ tracker[p] \in TrackerType
           /\ peer_supports[p] \in BOOLEAN /\ job[p] \in BOOLEAN
           /\ IsABag(jobs[p]) /\ DOMAIN jobs[p] \subseteq Nat
           /\ KeysAtParse(p) \in Nat /\ keys[p] \in Nat
           /\ responding[p].packets \subseteq Packet
           /\ responding[p].hash \subseteq Packet
           /\ initiating[p].defrag \in DefragType
           /\ responding[p].defrag \in DefragType
           /\ \A m \in Packet : Defrag(p, m) \in DefragType
  BY DEF TypeOK, InitiatingType, RespondingType, KeysAtParse, Defrag

\* The acknowledgments sent on the arrival of a message.
LEMMA AcksType ==
    ASSUME TypeOK, NEW p \in Peers, NEW m \in Packet
    PROVE  AcksFor(p, m) \subseteq Packet
  <1>1. AckPacket(p, KeysAtParse(p), FragmentAck(Defrag(p, m), m)) \in Packet
    BY PeerTypes, AckPacketType
  <1> QED BY <1>1 DEF AcksFor

\* The tracker after an acknowledgment, and after a message was generated.
LEMMA AckedTrackerType ==
    ASSUME TypeOK, NEW p \in Peers, NEW m \in Packet
    PROVE  /\ AckedTracker(p, m) \in TrackerType
           /\ Counted(tracker[p]) => Counted(AckedTracker(p, m))
  <1>1. tracker[p] \in TrackerType
    BY PeerTypes
  <1> QED BY <1>1, UpdateType DEF AckedTracker, ProcessFragmentAck

\* generate_message() leaves a tracker.
LEMMA TrackerAfterType ==
    ASSUME NEW p, NEW t \in TrackerType, NEW mid \in Nat,
           NEW packets \in SUBSET Packet, IsFiniteSet(packets)
    PROVE  /\ TrackerAfter(p, t, mid, packets) \in TrackerType
           /\ Counted(t) => Counted(TrackerAfter(p, t, mid, packets))
  BY NewTrackerType DEF TrackerAfter

\* retransmit() in a well-typed request window.
LEMMA RetransmitType ==
    ASSUME TypeOK, NEW p \in Peers, NEW mid \in Nat, NEW ini \in InitiatingType,
           NEW t \in TrackerType, NEW sup, NEW pending, IsABag(pending),
           DOMAIN pending \subseteq Nat, NEW out \in SUBSET Packet,
           Retransmit(p, mid, ini, t, sup, pending, out)
    PROVE  /\ initiating' \in [Peers -> InitiatingType]
           /\ job' \in [Peers -> BOOLEAN]
           /\ DOMAIN jobs' = Peers
           /\ \A q \in Peers : IsABag(jobs'[q]) /\ DOMAIN jobs'[q] \subseteq Nat
           /\ net' \subseteq Packet
  <1> DEFINE again == Resends(p, mid, ini, t)
  <1>1. initiating' \in [Peers -> InitiatingType]
    <2>1. ASSUME again PROVE [ini EXCEPT !.retransmitted = @ + 1] \in InitiatingType
      BY <2>1, Constants DEF Resends, GivesUp, InitiatingType
    <2> QED BY <2>1 DEF Retransmit, TypeOK
  <1>2. job' \in [Peers -> BOOLEAN]
    BY DEF Retransmit, TypeOK, Resends
  <1>3. DOMAIN jobs' = Peers
    BY DEF Retransmit, TypeOK
  <1>4. ASSUME NEW q \in Peers
        PROVE  IsABag(jobs'[q]) /\ DOMAIN jobs'[q] \subseteq Nat
    <2>1. jobs'[q] = IF q # p THEN jobs[q]
                     ELSE IF again THEN pending (+) SetToBag({mid}) ELSE pending
      BY DEF Retransmit, TypeOK
    <2>2. /\ IsABag(pending (+) SetToBag({mid}))
          /\ DOMAIN (pending (+) SetToBag({mid})) = DOMAIN pending \cup {mid}
      BY JobsType
    <2>3. IsABag(jobs[q]) /\ DOMAIN jobs[q] \subseteq Nat
      BY PeerTypes
    <2> QED BY <2>1, <2>2, <2>3
  <1>5. net' \subseteq Packet
    BY DEF Retransmit, Resent, MissingPackets, TypeOK, TrackerType, InitiatingType
  <1> QED BY <1>1, <1>2, <1>3, <1>4, <1>5

\* The second half of initiate().
LEMMA StartExchangeType ==
    ASSUME TypeOK, NEW p \in Peers, NEW type \in Exchanges,
           NEW ini \in InitiatingType, NEW key \in Nat, NEW sup,
           NEW out \in SUBSET Packet,
           StartExchange(p, type, ini, key, sup, out)
    PROVE  /\ initiating' \in [Peers -> InitiatingType]
           /\ tracker' \in [Peers -> TrackerType]
           /\ job' \in [Peers -> BOOLEAN]
           /\ DOMAIN jobs' = Peers
           /\ \A q \in Peers : IsABag(jobs'[q]) /\ DOMAIN jobs'[q] \subseteq Nat
           /\ corrupt' \in [Peers -> BOOLEAN]
           /\ net' \subseteq Packet
           /\ TrackerCount => TrackerCount'
  <1> DEFINE packets == Packets(p, TRUE, ini.mid, type, ReqFrags[type], key)
             started == [ini EXCEPT !.type = type, !.retransmitted = 0,
                                    !.packets = @ \cup packets]
             t == TrackerAfter(p, tracker[p], ini.mid, packets)
  <1>1. ini.mid \in Nat
    BY DEF InitiatingType
  <1>2. packets \subseteq Packet /\ IsFiniteSet(packets)
    BY <1>1, PacketsType, Constants
  <1>3. started \in InitiatingType
    <2>1. ASSUME NEW x \in SUBSET Packet
          PROVE  [ini EXCEPT !.type = type, !.retransmitted = 0, !.packets = x]
                     \in InitiatingType
      <3>1. 0 \in 0..(Tries + 1)
        BY Constants
      <3> QED BY <3>1 DEF InitiatingType
    <2>2. ini.packets \cup packets \in SUBSET Packet
      BY <1>2 DEF InitiatingType
    <2> QED BY <2>1, <2>2
  <1>4. /\ t \in TrackerType
        /\ Counted(tracker[p]) => Counted(t)
    BY <1>1, <1>2, PeerTypes, TrackerAfterType
  <1>5. /\ tracker' = [tracker EXCEPT ![p] = t]
        /\ corrupt' = Freed(p, Tracks(p, packets) /\ tracker[p].total > 0)
        /\ Retransmit(p, ini.mid, started, t, sup, jobs[p], out)
    BY DEF StartExchange
  <1> HIDE DEF packets, started, t
  <1>6. tracker' \in [Peers -> TrackerType]
    BY <1>4, <1>5 DEF TypeOK
  <1>7. corrupt' \in [Peers -> BOOLEAN]
    BY <1>5 DEF TypeOK, Freed
  <1>8. TrackerCount => TrackerCount'
    BY <1>4, <1>5 DEF TypeOK, TrackerCount, Counted
  <1>9. IsABag(jobs[p]) /\ DOMAIN jobs[p] \subseteq Nat
    BY PeerTypes
  <1> QED BY <1>1, <1>3, <1>4, <1>5, <1>6, <1>7, <1>8, <1>9, RetransmitType

\* initiate()
LEMMA InitiateType ==
    ASSUME TypeOK, NEW p \in Peers, NEW type \in Exchanges, Initiate(p, type)
    PROVE  TypeOK' /\ (TrackerCount => TrackerCount')
  <1>1. StartExchange(p, type, initiating[p], keys[p], peer_supports[p], {})
    BY DEF Initiate
  <1>2. initiating[p] \in InitiatingType /\ keys[p] \in Nat
    BY PeerTypes
  <1>3. state' \in [Peers -> States]
    BY DEF Initiate, TypeOK, States
  <1>4. UNCHANGED <<responding, peer_supports, keys, ke_pending, handled, completed>>
    BY DEF Initiate, history
  <1>5. /\ initiating' \in [Peers -> InitiatingType]
        /\ tracker' \in [Peers -> TrackerType]
        /\ job' \in [Peers -> BOOLEAN]
        /\ DOMAIN jobs' = Peers
        /\ \A q \in Peers : IsABag(jobs'[q]) /\ DOMAIN jobs'[q] \subseteq Nat
        /\ corrupt' \in [Peers -> BOOLEAN]
        /\ net' \subseteq Packet
        /\ TrackerCount => TrackerCount'
    BY <1>1, <1>2, StartExchangeType
  <1> QED BY <1>3, <1>4, <1>5 DEF TypeOK

\* retransmit_job.
LEMMA RetransmitJobType ==
    ASSUME TypeOK, NEW p \in Peers, NEW mid \in DOMAIN jobs[p], RetransmitJob(p, mid)
    PROVE  TypeOK' /\ (TrackerCount => TrackerCount')
  <1> DEFINE eff == Effective(p, mid)
             up  == GivesUp(p, eff, initiating[p], tracker[p])
             pending == jobs[p] (-) SetToBag({mid})
  <1>1. mid \in Nat /\ eff \in Nat
    BY PeerTypes DEF Effective
  <1>2. IsABag(pending) /\ DOMAIN pending \subseteq Nat
    BY <1>1, PeerTypes, JobsType
  <1>3. Retransmit(p, eff, initiating[p], tracker[p], peer_supports[p], pending, {})
    BY DEF RetransmitJob
  <1>4. /\ initiating' \in [Peers -> InitiatingType]
        /\ job' \in [Peers -> BOOLEAN]
        /\ DOMAIN jobs' = Peers
        /\ \A q \in Peers : IsABag(jobs'[q]) /\ DOMAIN jobs'[q] \subseteq Nat
        /\ net' \subseteq Packet
    <2>1. initiating[p] \in InitiatingType /\ tracker[p] \in TrackerType
      BY PeerTypes
    <2>2. {} \in SUBSET Packet
      OBVIOUS
    <2> HIDE DEF eff, pending
    <2> QED BY <1>1, <1>2, <1>3, <2>1, <2>2, RetransmitType
  <1>5. state' \in [Peers -> States]
    BY DEF RetransmitJob, Destroyed, TypeOK, States
  <1>6. corrupt' \in [Peers -> BOOLEAN]
    BY DEF RetransmitJob, Freed, TypeOK
  <1>7. UNCHANGED <<responding, tracker, peer_supports, keys, ke_pending, handled,
                    completed>>
    BY DEF RetransmitJob, history
  <1> QED BY <1>4, <1>5, <1>6, <1>7 DEF TypeOK, TrackerCount

\* parse_message() derives keys.
LEMMA DeriveKeysType ==
    ASSUME TypeOK, NEW p \in Peers, DeriveKeys(p)
    PROVE  keys' \in [Peers -> Nat] /\ ke_pending' \in [Peers -> BOOLEAN]
  BY PeerTypes DEF DeriveKeys, TypeOK

\* hash_message().
LEMMA HashType ==
    ASSUME TypeOK, NEW p \in Peers, NEW m \in Packet
    PROVE  HashAfter(p, m) \subseteq Packet
  BY PeerTypes DEF HashAfter

\* Messages that are ignored, dropped or answered from the store.
LEMMA IgnoredType ==
    ASSUME TypeOK, NEW p \in Peers, NEW m \in net,
           ResendResponse(p, m) \/ UnexpectedId(p, m) \/ Dropped(p, m)
    PROVE  TypeOK' /\ (TrackerCount => TrackerCount')
  <1>1. m \in Packet
    BY DEF TypeOK
  <1>2. CASE ResendResponse(p, m)
    <2>1. net' \subseteq Packet
      BY <1>2, PeerTypes DEF ResendResponse, TypeOK
    <2> QED BY <1>2, <2>1 DEF ResendResponse, TypeOK, TrackerCount, window, history
  <1>3. CASE UnexpectedId(p, m)
    <2>1. /\ AckedTracker(p, m) \in TrackerType
          /\ Counted(tracker[p]) => Counted(AckedTracker(p, m))
      BY <1>1, AckedTrackerType
    <2>2. tracker' \in [Peers -> TrackerType] /\ (TrackerCount => TrackerCount')
      BY <1>3, <2>1 DEF UnexpectedId, TypeOK, TrackerCount, Counted
    <2>3. job' \in [Peers -> BOOLEAN]
      BY <1>3 DEF UnexpectedId, JobAfterAck, TypeOK
    <2>4. keys' \in [Peers -> Nat] /\ ke_pending' \in [Peers -> BOOLEAN]
      BY <1>3, DeriveKeysType DEF UnexpectedId
    <2>5. UNCHANGED <<state, initiating, responding, peer_supports, jobs, corrupt, net,
                      handled, completed>>
      BY <1>3 DEF UnexpectedId, window, history
    <2> QED BY <2>2, <2>3, <2>4, <2>5 DEF TypeOK
  <1>4. CASE Dropped(p, m)
    <2>1. keys' \in [Peers -> Nat] /\ ke_pending' \in [Peers -> BOOLEAN]
      BY <1>4, DeriveKeysType DEF Dropped
    <2> QED BY <1>4, <2>1 DEF Dropped, TypeOK, TrackerCount, window, history
  <1> QED BY <1>2, <1>3, <1>4

\* handle_fragment() with fragments missing.
LEMMA CollectFragmentType ==
    ASSUME TypeOK, NEW p \in Peers, NEW m \in net, CollectFragment(p, m)
    PROVE  TypeOK' /\ (TrackerCount => TrackerCount')
  <1> DEFINE d == Defrag(p, m)
             ok == Accepts(d, m)
             new == IF ~ok THEN d
                    ELSE IF Completes(d, m) THEN NoDefrag ELSE AddFragment(d, m)
  <1>1. m \in Packet
    BY DEF TypeOK
  <1>2. new \in DefragType
    BY <1>1, PeerTypes, AddFragmentType DEF NoDefrag, DefragType
  <1> DEFINE ini == [initiating[p] EXCEPT !.defrag = IF m.req THEN @ ELSE new]
             resp == [responding[p] EXCEPT !.defrag = IF m.req THEN new ELSE @,
                                           !.hash = IF ok THEN HashAfter(p, m) ELSE @]
  <1>3. /\ initiating' = [initiating EXCEPT ![p] = ini]
        /\ responding' = [responding EXCEPT ![p] = resp]
        /\ net' = net \cup AcksFor(p, m)
    BY DEF CollectFragment
  <1>4. initiating' \in [Peers -> InitiatingType]
    <2>1. ASSUME NEW x \in DefragType
          PROVE  [initiating[p] EXCEPT !.defrag = x] \in InitiatingType
      BY PeerTypes DEF InitiatingType
    <2>2. (IF m.req THEN initiating[p].defrag ELSE new) \in DefragType
      BY <1>2, PeerTypes
    <2>3. ini \in InitiatingType
      BY <2>1, <2>2
    <2> HIDE DEF ini
    <2> QED BY <1>3, <2>3 DEF TypeOK
  <1>5. responding' \in [Peers -> RespondingType]
    <2>1. ASSUME NEW x \in DefragType, NEW h \in SUBSET Packet
          PROVE  [responding[p] EXCEPT !.defrag = x, !.hash = h] \in RespondingType
      BY PeerTypes DEF RespondingType
    <2>2. (IF m.req THEN new ELSE responding[p].defrag) \in DefragType
      BY <1>2, PeerTypes
    <2>3. (IF ok THEN HashAfter(p, m) ELSE responding[p].hash) \in SUBSET Packet
      BY <1>1, HashType, PeerTypes
    <2>4. resp \in RespondingType
      BY <2>1, <2>2, <2>3
    <2> HIDE DEF resp
    <2> QED BY <1>3, <2>4 DEF TypeOK
  <1>6. net' \subseteq Packet
    BY <1>1, <1>3, AcksType DEF TypeOK
  <1>7. keys' \in [Peers -> Nat] /\ ke_pending' \in [Peers -> BOOLEAN]
    BY DeriveKeysType DEF CollectFragment
  <1>8. UNCHANGED <<state, tracker, peer_supports, job, jobs, corrupt, handled, completed>>
    BY DEF CollectFragment
  <1> QED BY <1>4, <1>5, <1>6, <1>7, <1>8 DEF TypeOK, TrackerCount

\* The packets of a response, and the window that stores them.
LEMMA ResponseType ==
    ASSUME TypeOK, NEW p \in Peers, NEW m \in Packet
    PROVE  /\ LET packets == Packets(p, FALSE, responding[p].mid, m.type,
                                     RespFrags[m.type], KeysAtParse(p))
              IN  packets \subseteq Packet /\ IsFiniteSet(packets)
           /\ \A packets \in SUBSET Packet : Responded(p, m, packets) \in RespondingType
  <1>1. m.type \in Exchanges
    BY DEF Packet
  <1>2. RespFrags[m.type] \in Nat \ {0}
    BY <1>1, Constants
  <1>3. KeysAtParse(p) \in Nat /\ responding[p].mid \in Nat
    BY PeerTypes
  <1>4. ASSUME NEW packets \in SUBSET Packet
        PROVE  Responded(p, m, packets) \in RespondingType
    <2>1. responding[p] \in RespondingType
      BY PeerTypes
    <2>2. HashAfter(p, m) \in SUBSET Packet
      BY HashType
    <2>3. NoDefrag \in DefragType
      BY DEF NoDefrag, DefragType
    <2>4. ASSUME NEW h \in SUBSET Packet, NEW d \in DefragType, NEW n \in Nat
          PROVE  [responding[p] EXCEPT !.mid = n, !.packets = packets, !.hash = h,
                                       !.prev_hash = h, !.defrag = d]
                     \in RespondingType
      BY <2>1 DEF RespondingType
    <2>5. responding[p].mid + 1 \in Nat
      BY <1>3
    <2>6. responding[p].defrag \in DefragType
      BY PeerTypes
    <2> QED BY <2>2, <2>3, <2>4, <2>5, <2>6 DEF Responded
  <1> QED BY <1>1, <1>2, <1>3, <1>4, PacketsType

\* process_request() and build_response().
LEMMA ProcessRequestType ==
    ASSUME TypeOK, NEW p \in Peers, NEW m \in net, ProcessRequest(p, m)
    PROVE  TypeOK' /\ (TrackerCount => TrackerCount')
  <1> DEFINE packets == Packets(p, FALSE, responding[p].mid, m.type,
                                RespFrags[m.type], KeysAtParse(p))
             t == TrackerAfter(p, AckedTracker(p, m), responding[p].mid, packets)
  <1>1. m \in Packet
    BY DEF TypeOK
  <1>2. packets \subseteq Packet /\ IsFiniteSet(packets)
    BY <1>1, ResponseType
  <1>3. responding' = [responding EXCEPT ![p] = Responded(p, m, packets)]
    BY DEF ProcessRequest
  <1>4. responding' \in [Peers -> RespondingType]
    <2>1. Responded(p, m, packets) \in RespondingType
      BY <1>1, <1>2, ResponseType
    <2> QED BY <1>3, <2>1 DEF TypeOK
  <1>5. t \in TrackerType /\ (Counted(tracker[p]) => Counted(t))
    BY <1>1, <1>2, PeerTypes, AckedTrackerType, TrackerAfterType
  <1>6. /\ tracker' = [tracker EXCEPT ![p] = t]
        /\ corrupt' = Freed(p, Tracks(p, packets) /\ tracker[p].total > 0)
        /\ net' = net \cup AcksFor(p, m) \cup packets
    BY DEF ProcessRequest
  <1> HIDE DEF t, packets
  <1>7. tracker' \in [Peers -> TrackerType] /\ (TrackerCount => TrackerCount')
    BY <1>5, <1>6 DEF TypeOK, TrackerCount, Counted
  <1>8. corrupt' \in [Peers -> BOOLEAN]
    BY <1>6 DEF Freed, TypeOK
  <1>9. net' \subseteq Packet
    BY <1>1, <1>2, <1>6, AcksType DEF TypeOK
  <1>10. state' \in [Peers -> States]
    BY DEF ProcessRequest, RespondingState, TypeOK, States
  <1>11. keys' \in [Peers -> Nat] /\ ke_pending' \in [Peers -> BOOLEAN]
    BY PeerTypes DEF ProcessRequest, TypeOK
  <1>12. peer_supports' \in [Peers -> BOOLEAN]
    BY DEF ProcessRequest, TypeOK
  <1>13. job' \in [Peers -> BOOLEAN]
    BY DEF ProcessRequest, JobAfterAck, TypeOK
  <1>14. handled' \in [Peers -> Seq(Nat)]
    <2>1. m.mid \in Nat
      BY <1>1 DEF Packet
    <2> QED BY <2>1 DEF ProcessRequest, TypeOK
  <1>15. UNCHANGED <<initiating, jobs, completed>>
    BY DEF ProcessRequest
  <1> QED BY <1>4, <1>7, <1>8, <1>9, <1>10, <1>11, <1>12, <1>13, <1>14, <1>15 DEF TypeOK

\* process_request() that ends the IKE_SA.
LEMMA CloseOnRequestType ==
    ASSUME TypeOK, NEW p \in Peers, NEW m \in net, NEW ending,
           CloseOnRequest(p, m, ending)
    PROVE  TypeOK' /\ (TrackerCount => TrackerCount')
  <1> DEFINE response == Packets(p, FALSE, responding[p].mid, m.type,
                                 RespFrags[m.type], KeysAtParse(p))
             packets == IF ending = "reject" THEN {} ELSE response
             t == TrackerAfter(p, AckedTracker(p, m), responding[p].mid, packets)
  <1>1. m \in Packet
    BY DEF TypeOK
  <1>2. packets \subseteq Packet /\ IsFiniteSet(packets)
    BY <1>1, ResponseType, FS_EmptySet
  <1>3. t \in TrackerType /\ (Counted(tracker[p]) => Counted(t))
    BY <1>1, <1>2, PeerTypes, AckedTrackerType, TrackerAfterType
  <1>4. /\ tracker' = [tracker EXCEPT ![p] = t]
        /\ corrupt' = Freed(p, t.total > 0)
        /\ net' = net \cup AcksFor(p, m) \cup packets
    BY DEF CloseOnRequest
  <1> HIDE DEF t, packets
  <1>5. tracker' \in [Peers -> TrackerType] /\ (TrackerCount => TrackerCount')
    BY <1>3, <1>4 DEF TypeOK, TrackerCount, Counted
  <1>6. corrupt' \in [Peers -> BOOLEAN]
    BY <1>4 DEF Freed, TypeOK
  <1>7. net' \subseteq Packet
    BY <1>1, <1>2, <1>4, AcksType DEF TypeOK
  <1>8. state' \in [Peers -> States]
    BY DEF CloseOnRequest, Destroyed, TypeOK, States
  <1>9. keys' \in [Peers -> Nat] /\ ke_pending' \in [Peers -> BOOLEAN]
    BY DeriveKeysType DEF CloseOnRequest
  <1>10. handled' \in [Peers -> Seq(Nat)]
    <2>1. m.mid \in Nat
      BY <1>1 DEF Packet
    <2> QED BY <2>1 DEF CloseOnRequest, TypeOK
  <1>11. UNCHANGED <<initiating, responding, peer_supports, job, jobs, completed>>
    BY DEF CloseOnRequest, window
  <1> QED BY <1>5, <1>6, <1>7, <1>8, <1>9, <1>10, <1>11 DEF TypeOK

\* The windows of a peer that processed a response.
LEMMA IdleType ==
    ASSUME TypeOK, NEW p \in Peers, NEW m \in Packet
    PROVE  /\ Idle(p, m) \in InitiatingType
           /\ [responding EXCEPT ![p].hash = HashAfter(p, m)] \in [Peers -> RespondingType]
           /\ [completed EXCEPT ![p] = IF initiating[p].type = "UNDEFINED" THEN @
                                       ELSE @ \cup {initiating[p].mid}] \in [Peers -> SUBSET Nat]
  <1>1. Idle(p, m) \in InitiatingType
    <2>1. initiating[p] \in InitiatingType /\ initiating[p].mid + 1 \in Nat
      BY PeerTypes
    <2>2. (IF m.total > 1 THEN NoDefrag ELSE initiating[p].defrag) \in DefragType
      BY PeerTypes DEF NoDefrag, DefragType
    <2>3. ASSUME NEW n \in Nat, NEW d \in DefragType
          PROVE  [initiating[p] EXCEPT !.mid = n, !.type = "UNDEFINED", !.packets = {},
                                       !.defrag = d] \in InitiatingType
      BY <2>1 DEF InitiatingType
    <2> QED BY <2>1, <2>2, <2>3 DEF Idle
  <1>2. [responding EXCEPT ![p].hash = HashAfter(p, m)] \in [Peers -> RespondingType]
    <2>1. HashAfter(p, m) \in SUBSET Packet
      BY HashType
    <2>2. ASSUME NEW h \in SUBSET Packet
          PROVE  [responding[p] EXCEPT !.hash = h] \in RespondingType
      BY PeerTypes DEF RespondingType
    <2>3. [responding[p] EXCEPT !.hash = HashAfter(p, m)] \in RespondingType
      BY <2>1, <2>2
    <2> QED BY <2>3 DEF TypeOK
  <1>3. [completed EXCEPT ![p] = IF initiating[p].type = "UNDEFINED" THEN @
                                 ELSE @ \cup {initiating[p].mid}] \in [Peers -> SUBSET Nat]
    <2>1. initiating[p].mid \in Nat
      BY PeerTypes
    <2> QED BY <2>1 DEF TypeOK
  <1> QED BY <1>1, <1>2, <1>3

\* process_response() that leaves the window idle.
LEMMA ProcessResponseType ==
    ASSUME TypeOK, NEW p \in Peers, NEW m \in net, ProcessResponse(p, m)
    PROVE  TypeOK' /\ (TrackerCount => TrackerCount')
  <1>1. m \in Packet
    BY DEF TypeOK
  <1>2. initiating' \in [Peers -> InitiatingType]
    BY <1>1, IdleType DEF ProcessResponse, TypeOK
  <1>3. responding' \in [Peers -> RespondingType]
    BY <1>1, IdleType DEF ProcessResponse
  <1>4. completed' \in [Peers -> SUBSET Nat]
    BY <1>1, IdleType DEF ProcessResponse, Complete
  <1>5. state' \in [Peers -> States]
    BY DEF ProcessResponse, StateAfter, TypeOK, States
  <1>6. job' \in [Peers -> BOOLEAN]
    BY DEF ProcessResponse, TypeOK
  <1>7. net' \subseteq Packet
    BY <1>1, AcksType DEF ProcessResponse, TypeOK
  <1>8. keys' \in [Peers -> Nat] /\ ke_pending' \in [Peers -> BOOLEAN]
    BY DeriveKeysType DEF ProcessResponse
  <1>9. UNCHANGED <<tracker, peer_supports, jobs, corrupt, handled>>
    BY DEF ProcessResponse
  <1> QED BY <1>2, <1>3, <1>4, <1>5, <1>6, <1>7, <1>8, <1>9 DEF TypeOK, TrackerCount

\* process_response() that starts the next exchange.
LEMMA InitiateNextType ==
    ASSUME TypeOK, NEW p \in Peers, NEW m \in net, NEW type \in Exchanges,
           InitiateNext(p, m, type)
    PROVE  TypeOK' /\ (TrackerCount => TrackerCount')
  <1>1. m \in Packet
    BY DEF TypeOK
  <1>2. KeysAfter(p) \in Nat
    BY PeerTypes DEF KeysAfter
  <1>3. Idle(p, m) \in InitiatingType /\ AcksFor(p, m) \in SUBSET Packet
    <2>1. Idle(p, m) \in InitiatingType
      BY <1>1, IdleType
    <2>2. AcksFor(p, m) \in SUBSET Packet
      BY <1>1, AcksType
    <2> QED BY <2>1, <2>2
  <1>4. StartExchange(p, type, Idle(p, m), KeysAfter(p),
                      peer_supports[p] \/ m.sel, AcksFor(p, m))
    BY DEF InitiateNext
  <1>5. /\ initiating' \in [Peers -> InitiatingType]
        /\ tracker' \in [Peers -> TrackerType]
        /\ job' \in [Peers -> BOOLEAN]
        /\ DOMAIN jobs' = Peers
        /\ \A q \in Peers : IsABag(jobs'[q]) /\ DOMAIN jobs'[q] \subseteq Nat
        /\ corrupt' \in [Peers -> BOOLEAN]
        /\ net' \subseteq Packet
        /\ TrackerCount => TrackerCount'
    BY <1>2, <1>3, <1>4, StartExchangeType
  <1>6. responding' \in [Peers -> RespondingType]
    BY <1>1, IdleType DEF InitiateNext
  <1>7. completed' \in [Peers -> SUBSET Nat]
    BY <1>1, IdleType DEF InitiateNext, Complete
  <1>8. keys' \in [Peers -> Nat] /\ peer_supports' \in [Peers -> BOOLEAN]
    BY <1>1, <1>2 DEF InitiateNext, TypeOK
  <1>9. ke_pending' \in [Peers -> BOOLEAN] /\ state' \in [Peers -> States]
    BY DEF InitiateNext, StateAfter, TypeOK, States
  <1>10. handled' = handled
    BY DEF InitiateNext
  <1> QED BY <1>5, <1>6, <1>7, <1>8, <1>9, <1>10 DEF TypeOK

\* process_response() that fails.
LEMMA CloseOnResponseType ==
    ASSUME TypeOK, NEW p \in Peers, NEW m \in net, CloseOnResponse(p, m)
    PROVE  TypeOK' /\ (TrackerCount => TrackerCount')
  <1>1. m \in Packet
    BY DEF TypeOK
  <1>2. responding' \in [Peers -> RespondingType]
    BY <1>1, IdleType DEF CloseOnResponse
  <1>3. state' \in [Peers -> States]
    BY DEF CloseOnResponse, Destroyed, TypeOK, States
  <1>4. corrupt' \in [Peers -> BOOLEAN]
    BY DEF CloseOnResponse, Freed, TypeOK
  <1>5. net' \subseteq Packet
    BY <1>1, AcksType DEF CloseOnResponse, TypeOK
  <1>6. keys' \in [Peers -> Nat] /\ ke_pending' \in [Peers -> BOOLEAN]
    BY DeriveKeysType DEF CloseOnResponse
  <1>7. UNCHANGED <<initiating, tracker, peer_supports, job, jobs, handled, completed>>
    BY DEF CloseOnResponse
  <1> QED BY <1>2, <1>3, <1>4, <1>5, <1>6, <1>7 DEF TypeOK, TrackerCount

\* Types and counts hold initially.
LEMMA InitType == Init => TypeOK /\ TrackerCount
  <1> SUFFICES ASSUME Init PROVE TypeOK /\ TrackerCount
    OBVIOUS
  <1>1. /\ initiating \in [Peers -> InitiatingType]
        /\ responding \in [Peers -> RespondingType]
        /\ tracker \in [Peers -> TrackerType]
    BY Constants DEF Init, InitiatingType, RespondingType, TrackerType, NoTracker,
                     DefragType, NoDefrag
  <1>2. DOMAIN jobs = Peers
        /\ \A p \in Peers : IsABag(jobs[p]) /\ DOMAIN jobs[p] \subseteq Nat
    BY DEF Init, IsABag, EmptyBag, SetToBag
  <1>3. state \in [Peers -> States] /\ keys \in [Peers -> Nat]
    BY DEF Init, States
  <1>4. TrackerCount
    BY FS_EmptySet DEF Init, TrackerCount, NoTracker
  <1>5. handled \in [Peers -> Seq(Nat)] /\ completed \in [Peers -> SUBSET Nat]
    BY DEF Init
  <1> QED BY <1>1, <1>2, <1>3, <1>4, <1>5 DEF Init, TypeOK

\* Every step keeps them.
LEMMA NextType ==
    ASSUME TypeOK, [Next]_vars
    PROVE  TypeOK' /\ (TrackerCount => TrackerCount')
  <1>1. ASSUME NEW p \in Peers, NEW type \in Exchanges, Initiate(p, type)
        PROVE  TypeOK' /\ (TrackerCount => TrackerCount')
    BY <1>1, InitiateType
  <1>2. ASSUME NEW p \in Peers, NEW mid \in DOMAIN jobs[p], RetransmitJob(p, mid)
        PROVE  TypeOK' /\ (TrackerCount => TrackerCount')
    BY <1>2, RetransmitJobType
  <1>3. ASSUME NEW p \in Peers, NEW m \in net, ProcessMessage(p, m)
        PROVE  TypeOK' /\ (TrackerCount => TrackerCount')
    <2>1. CASE ResendResponse(p, m) \/ UnexpectedId(p, m) \/ Dropped(p, m)
      BY <2>1, IgnoredType
    <2>2. CASE CollectFragment(p, m)
      BY <2>2, CollectFragmentType
    <2>3. CASE ProcessRequest(p, m)
      BY <2>3, ProcessRequestType
    <2>4. CASE \E ending \in Endings : CloseOnRequest(p, m, ending)
      BY <2>4, CloseOnRequestType
    <2>5. CASE ProcessResponse(p, m)
      BY <2>5, ProcessResponseType
    <2>6. CASE \E type \in Exchanges : InitiateNext(p, m, type)
      BY <2>6, InitiateNextType
    <2>7. CASE CloseOnResponse(p, m)
      BY <2>7, CloseOnResponseType
    <2> QED BY <1>3, <2>1, <2>2, <2>3, <2>4, <2>5, <2>6, <2>7 DEF ProcessMessage
  <1>4. ASSUME NEW p \in Peers, HalfOpenTimeout(p) \/ HeapAbort(p)
        PROVE  TypeOK' /\ (TrackerCount => TrackerCount')
    <2>1. state' \in [Peers -> States] /\ corrupt' \in [Peers -> BOOLEAN]
      BY <1>4 DEF HalfOpenTimeout, HeapAbort, Destroyed, Freed, TypeOK, States
    <2>2. UNCHANGED <<initiating, responding, tracker, peer_supports, job, jobs, keys,
                      ke_pending, net, seen, handled, completed>>
      BY <1>4 DEF HalfOpenTimeout, HeapAbort, window, history
    <2> QED BY <2>1, <2>2 DEF TypeOK, TrackerCount
  <1>5. CASE UNCHANGED vars
    BY <1>5 DEF vars, TypeOK, TrackerCount, window, history
  <1> QED BY <1>1, <1>2, <1>3, <1>4, <1>5 DEF Next

\* Every variable keeps its type, whatever the peers, the network and the jobs
\* do; in particular no request is sent more than Tries + 1 times.
THEOREM TypeCorrect == Spec => []TypeOK
  <1>1. Init => TypeOK
    BY InitType
  <1>2. TypeOK /\ [Next]_vars => TypeOK'
    BY NextType
  <1> QED BY <1>1, <1>2, PTL DEF Spec

\* The count on which retransmit() decides that a message is acknowledged is
\* exact in every configuration, with acknowledgments lost, repeated and
\* reordered (update_fragment_ack_status).
THEOREM TrackerCountCorrect == Spec => []TrackerCount
  <1>1. Init => TrackerCount
    BY InitType
  <1>2. TypeOK /\ TrackerCount /\ [Next]_vars => TrackerCount'
    BY NextType
  <1> QED BY <1>1, <1>2, TypeCorrect, PTL DEF Spec

-----------------------------------------------------------------------------
(* Messages and their fragments.                                           *)

\* A packet in the network, or stored at a peer to be sent again.
Existing(m) ==
    \/ m \in net
    \/ \E q \in Peers : \/ m \in initiating[q].packets
                        \/ m \in responding[q].packets
                        \/ m \in tracker[q].packets

\* The message IDs below are taken: those of requests p has issued, and those of
\* requests it has answered, a last one perhaps while it ended the IKE_SA.
Taken(p, req) ==
    IF req THEN initiating[p].mid + IF Outstanding(p) THEN 1 ELSE 0
    ELSE responding[p].mid + IF Alive(p) THEN 0 ELSE 1

\* A packet is an acknowledgment, or of a message that took its message ID.
Numbered(m) ==
    /\ m.frag \in 1..m.total
    /\ m.ack.is => m.total = 1 /\ m.req
    /\ ~m.ack.is => m.mid < Taken(m.src, m.req)

SameMessage(x, y) ==
    /\ x.src = y.src /\ x.req = y.req /\ x.mid = y.mid
    /\ ~x.ack.is /\ ~y.ack.is

\* No message ID is used for messages of different numbers of fragments.
MessagesInv ==
    /\ \A m : Existing(m) => Numbered(m)
    /\ \A x, y : Existing(x) /\ Existing(y) /\ SameMessage(x, y) => x.total = y.total

FragmentOf(p, req, mid, f) == [src |-> Other(p), req |-> req, mid |-> mid, frag |-> f]

\* What p collects are fragments it has seen, not all, of a message it was sent.
Collects(p, req, d) ==
    d.total > 0 =>
        /\ d.got \subseteq 1..d.total
        /\ Cardinality(d.got) \in 1..(d.total - 1)
        /\ \E m \in net : /\ m.src = Other(p) /\ m.req = req /\ m.mid = d.mid
                          /\ m.total = d.total /\ ~m.ack.is
        /\ \A f \in d.got : FragmentOf(p, req, d.mid, f) \in seen[p]

Buffer(p, req) == IF req THEN responding[p].defrag ELSE initiating[p].defrag

CollectsInv == \A p \in Peers, req \in BOOLEAN : Collects(p, req, Buffer(p, req))

\* p has processed a request, or a response, with this message ID.
Processed(p, req, mid) ==
    IF req THEN \E i \in DOMAIN handled[p] : handled[p][i] = mid ELSE mid \in completed[p]

\* What p processed took its message ID, and p has seen all fragments of it.
ProcessedInv ==
    \A p \in Peers :
        /\ \A m : Existing(m) /\ m.src = Other(p) /\ m.total > 1 /\ Processed(p, m.req, m.mid)
                      => Fragment(m) \in seen[p]
        /\ \A req \in BOOLEAN, mid \in Nat :
              Processed(p, req, mid) => mid < Taken(Other(p), req)

SeenType ==
    seen \in [Peers -> SUBSET [src : Peers, req : BOOLEAN, mid : Nat, frag : Nat]]

\* The inductive invariant.
FragmentsInv == SeenType /\ MessagesInv /\ CollectsInv /\ ProcessedInv

\* Existing packets are packets, and message IDs are numbers.
ExistingType == \A m : Existing(m) => m \in Packet
TakenType == \A p \in Peers, req \in BOOLEAN : Taken(p, req) \in Nat

\* Packets are packets, and message IDs are numbers.
LEMMA MessagesType == TypeOK => ExistingType /\ TakenType
  <1> SUFFICES ASSUME TypeOK PROVE ExistingType /\ TakenType
    OBVIOUS
  <1>1. ExistingType
    BY DEF ExistingType, Existing, TypeOK, InitiatingType, RespondingType, TrackerType
  <1>2. TakenType
    BY PeerTypes DEF TakenType, Taken
  <1> QED BY <1>1, <1>2

\* The same after a step.
LEMMA MessagesTypeAfter == TypeOK' => ExistingType' /\ TakenType'
  BY MessagesType, PTL

\* Message IDs are not given back.
Onward ==
    \A q \in Peers, r \in BOOLEAN : Taken(q, r) <= Taken(q, r)'

\* The packets of one message.
OfMessage(m, p, req, mid, n) ==
    /\ m.src = p /\ m.req = req /\ m.mid = mid /\ m.total = n
    /\ m.frag \in 1..n /\ ~m.ack.is

\* A step of p brings into being acknowledgments and the packets of at most one
\* message, which takes a message ID.
Emits(p, acks, req, mid, n, new) ==
    /\ \A m \in acks : m.ack.is /\ m.total = 1 /\ m.frag = 1 /\ m.req = TRUE
    /\ \A m \in new : OfMessage(m, p, req, mid, n)
    /\ new # {} => Taken(p, req) <= mid /\ mid < Taken(p, req)'
    /\ \A m : Existing(m)' => Existing(m) \/ m \in acks \/ m \in new

\* Such a step keeps the messages apart.
LEMMA MessagesKept ==
    ASSUME TypeOK, TypeOK', MessagesInv, Onward,
           NEW p \in Peers, NEW acks, NEW req \in BOOLEAN, NEW mid \in Nat, NEW n \in Nat,
           NEW new, Emits(p, acks, req, mid, n, new)
    PROVE  MessagesInv'
  <1>1. \A q \in Peers, r \in BOOLEAN : Taken(q, r) \in Nat /\ Taken(q, r)' \in Nat
    BY MessagesType, MessagesTypeAfter DEF TakenType
  <1>2. ASSUME NEW m, Existing(m) PROVE Numbered(m) /\ m \in Packet
    BY <1>2, MessagesType DEF MessagesInv, ExistingType
  <1>3. ASSUME NEW m, Existing(m)' PROVE Numbered(m)'
    <2>1. CASE Existing(m)
      <3>1. Numbered(m) /\ m.src \in Peers /\ m.req \in BOOLEAN /\ m.mid \in Nat
        BY <1>2, <2>1 DEF Packet
      <3>2. Taken(m.src, m.req) <= Taken(m.src, m.req)' /\ Taken(m.src, m.req) \in Nat
            /\ Taken(m.src, m.req)' \in Nat
        BY <1>1, <3>1 DEF Onward
      <3> QED BY <3>1, <3>2 DEF Numbered
    <2>2. CASE m \in acks
      BY <2>2 DEF Emits, Numbered
    <2>3. CASE m \in new
      BY <2>3 DEF Emits, Numbered, OfMessage
    <2> QED BY <1>3, <2>1, <2>2, <2>3 DEF Emits
  <1>4. ASSUME NEW x, NEW y, x \in new, Existing(y), SameMessage(x, y) PROVE FALSE
    <2>1. /\ y.mid = mid /\ y.src = p /\ y.req = req /\ ~y.ack.is
          /\ Taken(p, req) <= mid
      BY <1>4 DEF SameMessage, Emits, OfMessage
    <2>2. mid < Taken(p, req) /\ Taken(p, req) \in Nat
      BY <1>1, <1>2, <1>4, <2>1 DEF Numbered
    <2> QED BY <2>1, <2>2
  <1>5. ASSUME NEW x, NEW y, Existing(x)', Existing(y)', SameMessage(x, y)
        PROVE  x.total = y.total
    <2>1. x \notin acks /\ y \notin acks
      BY <1>5 DEF SameMessage, Emits
    <2>2. CASE x \in new
      <3>1. ~Existing(y)
        BY <1>4, <1>5, <2>2
      <3> QED BY <1>5, <2>1, <2>2, <3>1 DEF Emits, OfMessage
    <2>3. CASE y \in new
      <3>1. SameMessage(y, x)
        BY <1>5 DEF SameMessage
      <3>2. ~Existing(x)
        BY <1>4, <2>3, <3>1
      <3> QED BY <1>5, <2>1, <2>3, <3>2 DEF Emits, OfMessage
    <2>4. CASE x \notin new /\ y \notin new
      BY <1>5, <2>1, <2>4 DEF Emits, MessagesInv
    <2> QED BY <2>2, <2>3, <2>4
  <1>6. \A x, y : SameMessage(x, y)' <=> SameMessage(x, y)
    BY DEF SameMessage
  <1> QED BY <1>3, <1>5, <1>6 DEF MessagesInv

-----------------------------------------------------------------------------
(* Reassembly.                                                             *)

\* A fragment that is accepted is of the message that is collected.
LEMMA SameTotal ==
    ASSUME TypeOK, FragmentsInv, NEW p \in Peers, NEW m \in net, m.src = Other(p),
           m.total > 1, Accepts(Defrag(p, m), m), Defrag(p, m).total > 0
    PROVE  /\ Defrag(p, m).total = m.total /\ Defrag(p, m).mid = m.mid
           /\ Kept(Defrag(p, m), m) = Defrag(p, m).got
  <1> DEFINE d == Defrag(p, m)
  <1>1. m \in Packet /\ d \in DefragType
    BY PeerTypes DEF TypeOK
  <1>2. Collects(p, m.req, d)
    <2>1. m.req \in BOOLEAN
      BY <1>1 DEF Packet
    <2> QED BY <2>1 DEF Defrag, Buffer, FragmentsInv, CollectsInv
  <1>3. d.mid = m.mid
    BY DEF Accepts
  <1> HIDE DEF d
  <1>4. PICK x \in net : /\ x.src = Other(p) /\ x.req = m.req /\ x.mid = d.mid
                         /\ x.total = d.total /\ ~x.ack.is
    BY <1>2 DEF Collects, d
  <1>5. Existing(m) /\ Existing(x)
    BY DEF Existing
  <1>6. Numbered(m)
    BY <1>5 DEF FragmentsInv, MessagesInv
  <1>7. ~m.ack.is
    BY <1>1, <1>6 DEF Numbered, Packet
  <1>8. SameMessage(x, m)
    BY <1>3, <1>4, <1>7 DEF SameMessage
  <1>9. x.total = m.total
    BY <1>5, <1>8 DEF FragmentsInv, MessagesInv
  <1>10. ~(m.total > d.total)
    BY <1>1, <1>4, <1>9 DEF Packet
  <1> QED BY <1>3, <1>4, <1>9, <1>10 DEF Kept, d

\* The fragment that completes a message was the only one missing.
LEMMA OneMissing ==
    ASSUME TypeOK, FragmentsInv, NEW p \in Peers, NEW m \in net, m.src = Other(p),
           LastFragment(p, m)
    PROVE  /\ Defrag(p, m).total > 0 /\ Defrag(p, m).mid = m.mid
           /\ Defrag(p, m).got \cup {m.frag} = 1..m.total
  <1> DEFINE d == Defrag(p, m)
             k == Kept(d, m)
  <1>1. /\ m \in Packet /\ m.total > 1 /\ m.total \in Nat /\ m.req \in BOOLEAN
        /\ Accepts(d, m) /\ m.frag \notin k /\ Cardinality(k \cup {m.frag}) = m.total
    BY DEF TypeOK, LastFragment, Completes, Packet
  <1>2. Collects(p, m.req, d) /\ d \in DefragType
    BY <1>1, PeerTypes DEF Defrag, Buffer, FragmentsInv, CollectsInv
  <1>3. m.frag \in 1..m.total
    <2>1. Existing(m)
      BY DEF Existing
    <2> QED BY <2>1 DEF FragmentsInv, MessagesInv, Numbered
  <1>4. d.total > 0
    <2>1. SUFFICES ASSUME ~(d.total > 0) PROVE FALSE
      OBVIOUS
    <2>2. d.total = 0
      BY <1>2, <2>1 DEF DefragType
    <2>3. k = {}
      BY <1>1, <2>2 DEF Kept
    <2>4. Cardinality({m.frag}) = 1
      BY FS_Singleton
    <2>5. k \cup {m.frag} = {m.frag}
      BY <2>3
    <2> HIDE DEF k
    <2> QED BY <1>1, <2>4, <2>5
  <1>5. d.total = m.total /\ d.mid = m.mid /\ k = d.got
    BY <1>1, <1>4, SameTotal
  <1> HIDE DEF k, d
  <1>6. k \subseteq 1..m.total
    BY <1>2, <1>4, <1>5 DEF Collects
  <1>7. k \cup {m.frag} = 1..m.total
    <2> DEFINE S == k \cup {m.frag}
               T == 1..m.total
    <2>1. S \subseteq T
      BY <1>3, <1>6
    <2>2. IsFiniteSet(T) /\ Cardinality(T) = m.total
      <3>1. 1 \in Int /\ m.total \in Int /\ ~(1 > m.total) /\ m.total - 1 + 1 = m.total
        BY <1>1
      <3> QED BY <3>1, FS_Interval
    <2>3. Cardinality(S) = Cardinality(T)
      BY <1>1, <2>2
    <2> HIDE DEF S, T
    <2>4. S = T
      BY <2>1, <2>2, <2>3, FS_Subset
    <2> QED BY <2>4 DEF S, T
  <1> QED BY <1>4, <1>5, <1>7 DEF d

\* The other fragments were seen before.
LEMMA AllSeen ==
    ASSUME TypeOK, FragmentsInv, NEW p \in Peers, NEW m \in net, m.src = Other(p),
           LastFragment(p, m), NEW f \in 1..m.total, f # m.frag
    PROVE  FragmentOf(p, m.req, m.mid, f) \in seen[p]
  <1> DEFINE d == Defrag(p, m)
  <1>1. d.total > 0 /\ d.mid = m.mid /\ f \in d.got
    BY OneMissing
  <1>2. m.req \in BOOLEAN
    BY DEF TypeOK, Packet
  <1>3. Collects(p, m.req, d)
    BY <1>2 DEF Defrag, Buffer, FragmentsInv, CollectsInv
  <1> HIDE DEF d
  <1> QED BY <1>1, <1>3 DEF Collects

\* A message to p of which all fragments are seen after the step.
Reassembled(p, m) ==
    /\ Existing(m) /\ m.src = Other(p) /\ ~m.ack.is
    /\ \A x : Existing(x) /\ SameMessage(x, m) /\ x.total > 1 => Fragment(x) \in seen'[p]

\* The fragments of a message that is processed have all been seen.
LEMMA WholeSeen ==
    ASSUME TypeOK, FragmentsInv, NEW p \in Peers, NEW m \in net, m.src = Other(p),
           Whole(p, m), ~m.ack.is, See(p, m)
    PROVE  Reassembled(p, m)
  <1>0. m \in Packet /\ Existing(m)
    BY DEF Existing, TypeOK
  <1>1. ASSUME NEW x, Existing(x), SameMessage(x, m), x.total > 1
        PROVE  Fragment(x) \in seen'[p]
    <2>1. x \in Packet
      BY <1>1, MessagesType DEF ExistingType
    <2>2. x.total = m.total /\ x.frag \in 1..x.total
      BY <1>0, <1>1 DEF FragmentsInv, MessagesInv, Numbered
    <2>3. LastFragment(p, m)
      BY <1>0, <1>1, <2>2 DEF Whole, Packet
    <2>4. seen'[p] = seen[p] \cup {Fragment(m)}
      BY <2>3 DEF See, LastFragment, FragmentsInv, SeenType
    <2>5. Fragment(x) = FragmentOf(p, m.req, m.mid, x.frag)
      BY <1>1 DEF SameMessage, Fragment, FragmentOf
    <2>6. CASE x.frag = m.frag
      BY <1>1, <2>4, <2>6 DEF SameMessage, Fragment
    <2>7. CASE x.frag # m.frag
      BY <2>2, <2>3, <2>4, <2>5, <2>7, AllSeen
    <2> QED BY <2>6, <2>7
  <1> QED BY <1>0, <1>1 DEF Reassembled

\* What a step processes has been reassembled.
Processes ==
    \A q \in Peers, req \in BOOLEAN, mid \in Nat :
        Processed(q, req, mid)' =>
            \/ Processed(q, req, mid)
            \/ \E y : Reassembled(q, y) /\ y.req = req /\ y.mid = mid

\* A step that keeps what is collected in order and processes what has been
\* reassembled keeps the invariant.
LEMMA FragmentsKept ==
    ASSUME TypeOK, TypeOK', FragmentsInv, Onward,
           NEW p \in Peers, NEW acks, NEW req \in BOOLEAN, NEW mid \in Nat, NEW n \in Nat,
           NEW new, Emits(p, acks, req, mid, n, new),
           net \subseteq net', SeenType', \A q \in Peers : seen[q] \subseteq seen'[q],
           \A q \in Peers, r \in BOOLEAN :
               Buffer(q, r)' = Buffer(q, r) \/ Collects(q, r, Buffer(q, r))',
           Processes
    PROVE  FragmentsInv'
  <1>1. MessagesInv'
    BY MessagesKept DEF FragmentsInv
  <1>2. CollectsInv'
    <2> SUFFICES ASSUME NEW q \in Peers, NEW r \in BOOLEAN
                 PROVE  Collects(q, r, Buffer(q, r))'
      BY DEF CollectsInv
    <2>1. CASE Buffer(q, r)' = Buffer(q, r)
      <3>1. Collects(q, r, Buffer(q, r))
        BY DEF FragmentsInv, CollectsInv
      <3>2. ASSUME NEW d, Collects(q, r, d) PROVE d.total > 0 =>
                /\ d.got \subseteq 1..d.total
                /\ Cardinality(d.got) \in 1..(d.total - 1)
                /\ \E m \in net' : /\ m.src = Other(q) /\ m.req = r /\ m.mid = d.mid
                                   /\ m.total = d.total /\ ~m.ack.is
                /\ \A f \in d.got : FragmentOf(q, r, d.mid, f) \in seen'[q]
        BY <3>2 DEF Collects
      <3> QED BY <2>1, <3>1, <3>2 DEF Collects, FragmentOf
    <2> QED BY <2>1
  <1>3. \A q \in Peers, r \in BOOLEAN : /\ Taken(q, r) \in Nat /\ Taken(q, r)' \in Nat
                                        /\ Taken(q, r) <= Taken(q, r)'
    BY MessagesType, MessagesTypeAfter DEF TakenType, Onward
  <1>4. ASSUME NEW q \in Peers, NEW r \in BOOLEAN, NEW k \in Nat, Processed(q, r, k)'
        PROVE  k < Taken(Other(q), r)
    <2>1. CASE Processed(q, r, k)
      BY <2>1 DEF FragmentsInv, ProcessedInv
    <2>2. ASSUME NEW y, Reassembled(q, y), y.req = r, y.mid = k PROVE k < Taken(Other(q), r)
      BY <2>2 DEF Reassembled, FragmentsInv, MessagesInv, Numbered
    <2> QED BY <1>4, <2>1, <2>2 DEF Processes
  <1>5. ASSUME NEW q \in Peers, NEW m, Existing(m)', m.src = Other(q), m.total > 1,
               Processed(q, m.req, m.mid)'
        PROVE  Fragment(m) \in seen'[q]
    <2>1. m \in Packet /\ m.req \in BOOLEAN /\ m.mid \in Nat /\ m.total \in Nat
      BY <1>5, MessagesTypeAfter DEF ExistingType, Packet
    <2>2. Numbered(m)'
      BY <1>1, <1>5 DEF MessagesInv
    <2>3. ~m.ack.is
      BY <1>5, <2>1, <2>2 DEF Numbered
    <2>4. m.mid < Taken(Other(q), m.req)
      BY <1>4, <1>5, <2>1
    <2>5. Existing(m)
      <3>1. m \notin acks
        BY <2>3 DEF Emits
      <3>2. ASSUME m \in new PROVE FALSE
        <4>1. m.src = p /\ m.req = req /\ m.mid = mid /\ Taken(p, req) <= mid
          BY <3>2 DEF Emits, OfMessage
        <4>2. Taken(p, req) \in Nat
          BY <1>3
        <4> QED BY <1>5, <2>1, <2>4, <4>1, <4>2
      <3> QED BY <1>5, <3>1, <3>2 DEF Emits
    <2>6. CASE Processed(q, m.req, m.mid)
      <3>1. Fragment(m) \in seen[q]
        BY <1>5, <2>5, <2>6 DEF FragmentsInv, ProcessedInv
      <3> QED BY <3>1
    <2>7. ASSUME NEW y, Reassembled(q, y), y.req = m.req, y.mid = m.mid
          PROVE  Fragment(m) \in seen'[q]
      <3>1. SameMessage(m, y)
        BY <1>5, <2>3, <2>7 DEF SameMessage, Reassembled
      <3> QED BY <1>5, <2>5, <2>7, <3>1 DEF Reassembled
    <2> QED BY <1>5, <2>1, <2>6, <2>7 DEF Processes
  <1>6. ProcessedInv'
    <2>1. ASSUME NEW q \in Peers, NEW r \in BOOLEAN, NEW k \in Nat, Processed(q, r, k)'
          PROVE  k < Taken(Other(q), r)'
      <3>1. k < Taken(Other(q), r)
        BY <1>4, <2>1
      <3>2. Other(q) \in Peers
        BY Constants
      <3>3. /\ Taken(Other(q), r) \in Nat /\ Taken(Other(q), r)' \in Nat
            /\ Taken(Other(q), r) <= Taken(Other(q), r)'
        BY <1>3, <3>2
      <3> QED BY <3>1, <3>3
    <2>2. \A m : Fragment(m)' = Fragment(m)
      BY DEF Fragment
    <2> QED BY <1>5, <2>1, <2>2 DEF ProcessedInv
  <1> QED BY <1>1, <1>2, <1>6 DEF FragmentsInv

\* The same of a step that generates no message.
LEMMA FragmentsKeptQuietly ==
    ASSUME TypeOK, TypeOK', FragmentsInv, Onward,
           NEW acks, \A m \in acks : m.ack.is /\ m.total = 1 /\ m.frag = 1 /\ m.req = TRUE,
           \A m : Existing(m)' => Existing(m) \/ m \in acks,
           net \subseteq net', SeenType', \A q \in Peers : seen[q] \subseteq seen'[q],
           \A q \in Peers, r \in BOOLEAN :
               Buffer(q, r)' = Buffer(q, r) \/ Collects(q, r, Buffer(q, r))',
           Processes
    PROVE  FragmentsInv'
  <1>0. PICK none : none = {}
    OBVIOUS
  <1>1. PICK p \in Peers : TRUE
    BY Constants
  <1>2. Emits(p, acks, TRUE, 0, 0, none)
    BY <1>0 DEF Emits
  <1> QED BY <1>2, FragmentsKept

\* Nothing is processed by a step that leaves the histories alone.
LEMMA ProcessesNothing == ASSUME UNCHANGED <<handled, completed>> PROVE Processes
  BY DEF Processes, Processed

-----------------------------------------------------------------------------
(* What is sent, and what is seen.                                         *)

\* The packets of a message.
LEMMA PacketsOf ==
    ASSUME NEW p, NEW req, NEW mid, NEW type, NEW n, NEW key,
           NEW m \in Packets(p, req, mid, type, n, key)
    PROVE  OfMessage(m, p, req, mid, n) /\ m.type = type
  BY DEF Packets, OfMessage, NoAck

\* The acknowledgment of a fragment.
LEMMA AcksOf ==
    ASSUME NEW p, NEW m, NEW x \in AcksFor(p, m)
    PROVE  x.ack.is /\ x.total = 1 /\ x.frag = 1 /\ x.req = TRUE
  BY DEF AcksFor, AckPacket, FragmentAck

\* A tracker keeps the packets it was created with.
LEMMA TrackerPackets ==
    ASSUME TypeOK, NEW p \in Peers, NEW m
    PROVE  AckedTracker(p, m).packets = tracker[p].packets
  <1>1. tracker[p] \in TrackerType
    BY PeerTypes
  <1>2. ASSUME NEW bits PROVE UpdateAckStatus(tracker[p], bits).packets = tracker[p].packets
    BY <1>1 DEF UpdateAckStatus, TrackerType
  <1> QED BY <1>2 DEF AckedTracker, ProcessFragmentAck

\* retransmit() sends what is stored.
LEMMA RetransmitSends ==
    ASSUME TypeOK, NEW p \in Peers, NEW mid, NEW ini \in InitiatingType,
           NEW t, NEW sup, NEW pending, NEW out,
           Retransmit(p, mid, ini, t, sup, pending, out)
    PROVE  /\ initiating'[p].mid = ini.mid /\ initiating'[p].type = ini.type
           /\ initiating'[p].packets = ini.packets /\ initiating'[p].defrag = ini.defrag
           /\ \A q \in Peers \ {p} : initiating'[q] = initiating[q]
           /\ net \subseteq net' /\ net' \subseteq net \cup out \cup ini.packets \cup t.packets
  <1>1. net \subseteq net' /\ net' \subseteq net \cup out \cup ini.packets \cup t.packets
    BY DEF Retransmit, Resent, MissingPackets
  <1>2. initiating' = [initiating EXCEPT ![p] = 
               IF Resends(p, mid, ini, t) THEN [ini EXCEPT !.retransmitted = @ + 1] ELSE ini]
    BY DEF Retransmit
  <1>3. LET x == [ini EXCEPT !.retransmitted = @ + 1]
        IN  x.mid = ini.mid /\ x.type = ini.type /\ x.packets = ini.packets
            /\ x.defrag = ini.defrag
    BY DEF InitiatingType
  <1> QED BY <1>1, <1>2, <1>3 DEF TypeOK

\* A tracker that was just created.
Watches(t, mid, n, packets) ==
    t.mid = mid /\ t.acked = {} /\ t.packets = packets /\ n # 1

\* A message that is not fragmented is one packet.
LEMMA SinglePacket ==
    ASSUME NEW p, NEW req, NEW mid, NEW type, NEW key
    PROVE  Cardinality(Packets(p, req, mid, type, 1, key)) = 1
  <1> DEFINE P == Packets(p, req, mid, type, 1, key)
             G(f) == [src |-> p, req |-> req, mid |-> mid, type |-> type, frag |-> f,
                      total |-> 1, key |-> IF type = "IKE_SA_INIT" THEN 0 ELSE key,
                      sel |-> type = "IKE_SA_INIT" /\ Selective[p], ack |-> NoAck]
  <1>1. P = {G(f) : f \in 1..1}
    BY DEF Packets
  <1>2. 1..1 = {1}
    OBVIOUS
  <1> HIDE DEF P, G
  <1>3. P = {G(1)}
    BY <1>1, <1>2
  <1>4. Cardinality(P) = 1
    BY <1>3, FS_Singleton
  <1> QED BY <1>4 DEF P

\* generate_message() keeps the tracker or creates one for the message.
LEMMA TrackerKept ==
    ASSUME NEW p, NEW t, NEW req, NEW mid, NEW type, NEW n, NEW key
    PROVE  LET packets == Packets(p, req, mid, type, n, key)
               u == TrackerAfter(p, t, mid, packets)
           IN  u = t \/ Watches(u, mid, n, packets)
  <1> DEFINE packets == Packets(p, req, mid, type, n, key)
  <1>1. Tracks(p, packets) => n # 1
    BY SinglePacket DEF Tracks
  <1> HIDE DEF packets
  <1>2. \/ TrackerAfter(p, t, mid, packets) = t
        \/ Watches(TrackerAfter(p, t, mid, packets), mid, n, packets)
    BY <1>1 DEF TrackerAfter, NewTracker, Watches
  <1> QED BY <1>2 DEF packets

\* initiate() sends what is stored and the packets of the new request.
Starts(p, mid, type, d, old, out) ==
    /\ initiating'[p].mid = mid /\ initiating'[p].type = type
    /\ initiating'[p].defrag = d
    /\ \A q \in Peers \ {p} : initiating'[q] = initiating[q] /\ tracker'[q] = tracker[q]
    /\ net \subseteq net'
    /\ \E new : /\ \A m \in new : OfMessage(m, p, TRUE, mid, ReqFrags[type]) /\ m.type = type
                /\ tracker'[p] = tracker[p] \/ Watches(tracker'[p], mid, ReqFrags[type], new)
                /\ initiating'[p].packets = old \cup new
                /\ tracker'[p].packets \subseteq tracker[p].packets \cup new
                /\ net' \subseteq net \cup out \cup old \cup tracker[p].packets \cup new

\* StartExchange is such a start.
LEMMA StartExchangeSends ==
    ASSUME TypeOK, NEW p \in Peers, NEW type \in Exchanges, NEW ini \in InitiatingType,
           NEW key \in Nat, NEW sup, NEW out, StartExchange(p, type, ini, key, sup, out)
    PROVE  Starts(p, ini.mid, type, ini.defrag, ini.packets, out)
  <1> DEFINE packets == Packets(p, TRUE, ini.mid, type, ReqFrags[type], key)
             started == [ini EXCEPT !.type = type, !.retransmitted = 0,
                                    !.packets = @ \cup packets]
             t == TrackerAfter(p, tracker[p], ini.mid, packets)
  <1>1. ini.mid \in Nat
    BY DEF InitiatingType
  <1>2. packets \subseteq Packet
    BY <1>1, PacketsType, Constants
  <1>3. \A m \in packets : OfMessage(m, p, TRUE, ini.mid, ReqFrags[type]) /\ m.type = type
    <2>1. ASSUME NEW m \in packets
          PROVE  OfMessage(m, p, TRUE, ini.mid, ReqFrags[type])
      BY PacketsOf
    <2>2. ASSUME NEW m \in packets PROVE m.type = type
      BY DEF Packets
    <2> QED BY <2>1, <2>2
  <1>4. /\ tracker' = [tracker EXCEPT ![p] = t]
        /\ Retransmit(p, ini.mid, started, t, sup, jobs[p], out)
    BY DEF StartExchange
  <1>5. /\ t.packets \subseteq tracker[p].packets \cup packets
        /\ t = tracker[p] \/ Watches(t, ini.mid, ReqFrags[type], packets)
    BY TrackerKept DEF TrackerAfter, NewTracker
  <1>6. /\ started \in InitiatingType /\ started.mid = ini.mid
        /\ started.type = type /\ started.packets = ini.packets \cup packets
        /\ started.defrag = ini.defrag
    <2> HIDE DEF packets
    <2>1. ASSUME NEW x \in SUBSET Packet
          PROVE  LET y == [ini EXCEPT !.type = type, !.retransmitted = 0, !.packets = x]
                 IN  /\ y \in InitiatingType
                     /\ y.mid = ini.mid /\ y.type = type /\ y.packets = x
                     /\ y.defrag = ini.defrag
      <3>1. 0 \in 0..(Tries + 1)
        BY Constants
      <3> QED BY <3>1 DEF InitiatingType
    <2>2. ini.packets \cup packets \in SUBSET Packet
      BY <1>2 DEF InitiatingType
    <2> QED BY <2>1, <2>2
  <1> HIDE DEF packets, started, t
  <1>7. tracker'[p] = t /\ \A q \in Peers \ {p} : tracker'[q] = tracker[q]
    BY <1>4 DEF TypeOK
  <1>8. /\ initiating'[p].mid = started.mid /\ initiating'[p].type = started.type
        /\ initiating'[p].packets = started.packets /\ initiating'[p].defrag = started.defrag
        /\ \A q \in Peers \ {p} : initiating'[q] = initiating[q]
        /\ net \subseteq net' /\ net' \subseteq net \cup out \cup started.packets \cup t.packets
    BY <1>4, <1>6, RetransmitSends
  <1>9. /\ initiating'[p].packets = ini.packets \cup packets
        /\ tracker'[p].packets \subseteq tracker[p].packets \cup packets
        /\ tracker'[p] = tracker[p] \/ Watches(tracker'[p], ini.mid, ReqFrags[type], packets)
        /\ net' \subseteq net \cup out \cup ini.packets \cup tracker[p].packets \cup packets
    BY <1>5, <1>6, <1>7, <1>8
  <1> QED BY <1>3, <1>6, <1>7, <1>8, <1>9 DEF Starts

\* A fragment that arrives is seen.
LEMMA SeeFragment ==
    ASSUME TypeOK, SeenType, NEW p \in Peers, NEW m \in net, See(p, m)
    PROVE  SeenType' /\ \A q \in Peers : seen[q] \subseteq seen'[q]
  <1>1. Fragment(m) \in [src : Peers, req : BOOLEAN, mid : Nat, frag : Nat]
    BY DEF Fragment, TypeOK, Packet
  <1> QED BY <1>1 DEF See, SeenType

\* A fragment is added to the ones collected.
LEMMA Added ==
    ASSUME TypeOK, FragmentsInv, NEW p \in Peers, NEW m \in net, m.src = Other(p),
           m.total > 1, Accepts(Defrag(p, m), m), ~Completes(Defrag(p, m), m),
           See(p, m), net \subseteq net'
    PROVE  LET d == AddFragment(Defrag(p, m), m)
           IN  /\ d.got \subseteq 1..d.total
               /\ Cardinality(d.got) \in 1..(d.total - 1)
               /\ \E x \in net' : /\ x.src = Other(p) /\ x.req = m.req /\ x.mid = d.mid
                                  /\ x.total = d.total /\ ~x.ack.is
               /\ \A f \in d.got : FragmentOf(p, m.req, d.mid, f) \in seen'[p]
  <1> DEFINE d == Defrag(p, m)
             k == Kept(d, m)
             e == AddFragment(d, m)
  <1>1. /\ m \in Packet /\ m.total \in Nat /\ m.req \in BOOLEAN /\ Existing(m)
        /\ ~(k = {} /\ m.total = 1)
    BY DEF TypeOK, Packet, Existing
  <1>2. Collects(p, m.req, d) /\ d \in DefragType
    BY <1>1, PeerTypes DEF Defrag, Buffer, FragmentsInv, CollectsInv
  <1>3. m.frag \in 1..m.total /\ ~m.ack.is
    BY <1>1 DEF FragmentsInv, MessagesInv, Numbered
  <1>4. seen'[p] = seen[p] \cup {Fragment(m)}
    BY DEF See, FragmentsInv, SeenType
  <1>5. Fragment(m) = FragmentOf(p, m.req, m.mid, m.frag)
    BY DEF Fragment, FragmentOf
  <1>6. m.frag \notin k => Cardinality(k \cup {m.frag}) # m.total
    BY DEF Completes
  <1>7. CASE d.total = 0
    <2>1. k = {} /\ e.total = m.total /\ e.mid = m.mid /\ e.got = {m.frag}
      BY <1>1, <1>7 DEF Kept, AddFragment
    <2>2. Cardinality({m.frag}) = 1
      BY FS_Singleton
    <2> HIDE DEF k, d, e
    <2>3. Cardinality(e.got) \in 1..(e.total - 1)
      BY <1>1, <2>1, <2>2
    <2> QED BY <1>1, <1>3, <1>4, <1>5, <2>1, <2>3 DEF e, d
  <1>8. CASE d.total # 0
    <2>1. d.total > 0
      BY <1>2, <1>8 DEF DefragType
    <2>2. d.total = m.total /\ d.mid = m.mid /\ k = d.got
      BY <2>1, SameTotal
    <2>3. /\ d.got \subseteq 1..m.total /\ Cardinality(d.got) \in 1..(m.total - 1)
          /\ \A f \in d.got : FragmentOf(p, m.req, m.mid, f) \in seen[p]
      BY <1>2, <2>1, <2>2 DEF Collects
    <2>4. e.total = m.total /\ e.mid = m.mid /\ e.got = k \cup {m.frag}
      BY <2>2 DEF AddFragment
    <2> HIDE DEF k, d, e
    <2>5. IsFiniteSet(k)
      <3>1. k \in SUBSET (1..m.total)
        BY <2>2, <2>3
      <3> QED BY <1>1, <3>1, FiniteNumbers
    <2>6. Cardinality(e.got) \in 1..(e.total - 1)
      <3>1. CASE m.frag \in k
        <4>1. e.got = k
          BY <2>4, <3>1
        <4> QED BY <2>2, <2>3, <2>4, <4>1
      <3>2. CASE m.frag \notin k
        <4>1. Cardinality(k \cup {m.frag}) = Cardinality(k) + 1
          BY <2>5, <3>2, FS_AddElement
        <4>2. Cardinality(k) + 1 # m.total
          BY <1>6, <3>2, <4>1
        <4> QED BY <1>1, <2>2, <2>3, <2>4, <4>1, <4>2
      <3> QED BY <3>1, <3>2
    <2> QED BY <1>1, <1>3, <1>4, <1>5, <2>2, <2>3, <2>4, <2>6 DEF e, d
  <1> QED BY <1>7, <1>8

-----------------------------------------------------------------------------
(* The actions.                                                            *)

\* The message IDs do not move.
LEMMA Standing ==
    ASSUME TypeOK, TypeOK',
           \A q \in Peers : /\ initiating'[q].mid = initiating[q].mid
                            /\ initiating'[q].type = initiating[q].type
                            /\ responding'[q].mid = responding[q].mid
                            /\ Alive(q)' => Alive(q)
    PROVE  Onward
  <1> SUFFICES ASSUME NEW q \in Peers, NEW r \in BOOLEAN PROVE Taken(q, r) <= Taken(q, r)'
    BY DEF Onward
  <1>1. initiating[q].mid \in Nat /\ responding[q].mid \in Nat
    BY PeerTypes
  <1> QED BY <1>1 DEF Taken, Outstanding

\* A step that at most sends what is stored, and reads nothing.
LEMMA Repeats ==
    ASSUME TypeOK, TypeOK', FragmentsInv,
           \A q \in Peers : /\ initiating'[q].mid = initiating[q].mid
                            /\ initiating'[q].type = initiating[q].type
                            /\ initiating'[q].packets = initiating[q].packets
                            /\ initiating'[q].defrag = initiating[q].defrag
                            /\ responding'[q] = responding[q]
                            /\ tracker'[q].packets = tracker[q].packets
                            /\ Alive(q)' => Alive(q),
           net \subseteq net', \A m \in net' : Existing(m),
           UNCHANGED history
    PROVE  FragmentsInv'
  <1>1. Onward
    BY Standing
  <1>0. PICK none : none = {}
    OBVIOUS
  <1>2. /\ \A m : Existing(m)' => Existing(m) \/ m \in none
        /\ \A m \in none : m.ack.is /\ m.total = 1 /\ m.frag = 1 /\ m.req = TRUE
    BY <1>0 DEF Existing
  <1>3. \A q \in Peers, r \in BOOLEAN : Buffer(q, r)' = Buffer(q, r)
    BY DEF Buffer
  <1>4. seen' = seen /\ SeenType' /\ UNCHANGED <<handled, completed>>
    BY DEF history, SeenType, FragmentsInv
  <1> QED BY <1>1, <1>2, <1>3, <1>4, ProcessesNothing, FragmentsKeptQuietly

\* retransmit() sends stored packets.
LEMMA RetransmitJobFragments ==
    ASSUME TypeOK, TypeOK', FragmentsInv, NEW p \in Peers, NEW mid, RetransmitJob(p, mid)
    PROVE  FragmentsInv'
  <1>1. initiating[p] \in InitiatingType
    BY PeerTypes
  <1>2. Retransmit(p, Effective(p, mid), initiating[p], tracker[p], peer_supports[p],
                   jobs[p] (-) SetToBag({mid}), {})
    BY DEF RetransmitJob
  <1>3. /\ initiating'[p].mid = initiating[p].mid /\ initiating'[p].type = initiating[p].type
        /\ initiating'[p].packets = initiating[p].packets
        /\ initiating'[p].defrag = initiating[p].defrag
        /\ \A q \in Peers \ {p} : initiating'[q] = initiating[q]
        /\ net \subseteq net'
        /\ net' \subseteq net \cup {} \cup initiating[p].packets \cup tracker[p].packets
    BY <1>1, <1>2, RetransmitSends
  <1>4. \A m \in net' : Existing(m)
    BY <1>3 DEF Existing
  <1>5. \A q \in Peers : Alive(q)' => Alive(q)
    BY DEF RetransmitJob, Destroyed, Alive, TypeOK
  <1>6. UNCHANGED <<responding, tracker, history>>
    BY DEF RetransmitJob
  <1> QED BY <1>3, <1>4, <1>5, <1>6, Repeats

\* A message outside the window is not collected.
LEMMA IgnoredFragments ==
    ASSUME TypeOK, TypeOK', FragmentsInv, NEW p \in Peers, NEW m \in net,
           ResendResponse(p, m) \/ UnexpectedId(p, m) \/ Dropped(p, m)
    PROVE  FragmentsInv'
  <1>1. UNCHANGED <<initiating, responding, history>> /\ state' = state
    BY DEF ResendResponse, UnexpectedId, Dropped, window
  <1>2. \A q \in Peers : tracker'[q].packets = tracker[q].packets
    <2>1. CASE ResendResponse(p, m) \/ Dropped(p, m)
      BY <2>1 DEF ResendResponse, Dropped
    <2>2. CASE UnexpectedId(p, m)
      <3>1. tracker' = [tracker EXCEPT ![p] = IF Readable(p, m) THEN AckedTracker(p, m) ELSE @]
        BY <2>2 DEF UnexpectedId
      <3> QED BY <3>1, TrackerPackets DEF TypeOK
    <2> QED BY <2>1, <2>2
  <1>3. net \subseteq net' /\ net' \subseteq net \cup responding[p].packets
    BY DEF ResendResponse, UnexpectedId, Dropped
  <1>4. \A x \in net' : Existing(x)
    BY <1>3 DEF Existing
  <1>5. \A q \in Peers : Alive(q)' => Alive(q)
    BY <1>1 DEF Alive
  <1> QED BY <1>1, <1>2, <1>3, <1>4, <1>5, Repeats

\* The end of an IKE_SA changes no message.
LEMMA EndsFragments ==
    ASSUME TypeOK, TypeOK', FragmentsInv, NEW p \in Peers,
           HalfOpenTimeout(p) \/ HeapAbort(p)
    PROVE  FragmentsInv'
  <1>1. UNCHANGED <<initiating, responding, tracker, history, net>>
    BY DEF HalfOpenTimeout, HeapAbort, window
  <1>2. \A x \in net' : Existing(x)
    BY <1>1 DEF Existing
  <1>3. \A q \in Peers : Alive(q)' => Alive(q)
    BY DEF HalfOpenTimeout, HeapAbort, Destroyed, Alive, TypeOK
  <1> QED BY <1>1, <1>2, <1>3, Repeats

\* initiate() takes the next message ID for the request.
LEMMA InitiateFragments ==
    ASSUME TypeOK, TypeOK', FragmentsInv, NEW p \in Peers, NEW type \in Exchanges,
           Initiate(p, type)
    PROVE  FragmentsInv'
  <1> DEFINE ini == initiating[p]
  <1>1. /\ ini \in InitiatingType /\ keys[p] \in Nat /\ ini.type = "UNDEFINED" /\ ini.mid \in Nat
        /\ StartExchange(p, type, ini, keys[p], peer_supports[p], {})
    BY PeerTypes DEF Initiate
  <1>2. Starts(p, ini.mid, type, ini.defrag, ini.packets, {})
    BY <1>1, StartExchangeSends
  <1>3. PICK new :
          /\ \A m \in new : OfMessage(m, p, TRUE, ini.mid, ReqFrags[type])
          /\ initiating'[p].packets = ini.packets \cup new
          /\ tracker'[p].packets \subseteq tracker[p].packets \cup new
          /\ net' \subseteq net \cup {} \cup ini.packets \cup tracker[p].packets \cup new
    BY <1>2 DEF Starts
  <1>4. UNCHANGED <<responding, handled, completed, seen>>
    BY DEF Initiate, history
  <1>5. \A q \in Peers : Alive(q)' => Alive(q)
    BY DEF Initiate, Alive, TypeOK
  <1>n. PICK none : none = {}
    OBVIOUS
  <1>0. PICK req \in BOOLEAN : req = TRUE
    OBVIOUS
  <1>6. Taken(p, req) = ini.mid /\ Taken(p, req)' = ini.mid + 1
    <2>1. type # "UNDEFINED"
      BY DEF Exchanges
    <2> QED BY <1>0, <1>1, <1>2, <2>1 DEF Taken, Outstanding, Starts
  <1>7. Onward
    <2> SUFFICES ASSUME NEW q \in Peers, NEW r \in BOOLEAN PROVE Taken(q, r) <= Taken(q, r)'
      BY DEF Onward
    <2>1. CASE r = FALSE
      <3>1. responding[q].mid \in Nat
        BY PeerTypes
      <3> QED BY <1>4, <1>5, <2>1, <3>1 DEF Taken
    <2>2. CASE r = req /\ q = p
      BY <1>1, <1>6, <2>2
    <2>3. CASE r = req /\ q # p
      <3>1. initiating[q].mid \in Nat
        BY PeerTypes
      <3> QED BY <1>0, <1>2, <2>3, <3>1 DEF Taken, Outstanding, Starts
    <2> QED BY <1>0, <2>1, <2>2, <2>3
  <1>8. \A m : Existing(m)' => Existing(m) \/ m \in none \/ m \in new
    BY <1>2, <1>3, <1>4 DEF Existing, Starts
  <1>9. Emits(p, none, req, ini.mid, ReqFrags[type], new)
    <2>1. \A m \in new : OfMessage(m, p, req, ini.mid, ReqFrags[type])
      BY <1>0, <1>3 DEF OfMessage
    <2>2. Taken(p, req) <= ini.mid /\ ini.mid < Taken(p, req)'
      BY <1>1, <1>6
    <2> QED BY <1>n, <1>8, <2>1, <2>2 DEF Emits
  <1>10. \A q \in Peers, r \in BOOLEAN : Buffer(q, r)' = Buffer(q, r)
    BY <1>2, <1>4 DEF Buffer, Starts
  <1>11. SeenType' /\ Processes /\ net \subseteq net' /\ ReqFrags[type] \in Nat
    BY <1>2, <1>4, ProcessesNothing, Constants DEF SeenType, FragmentsInv, Starts
  <1> QED BY <1>1, <1>4, <1>7, <1>9, <1>10, <1>11, FragmentsKept

\* A fragment that is not the last joins the ones collected.
LEMMA CollectFragmentFragments ==
    ASSUME TypeOK, TypeOK', FragmentsInv, NEW p \in Peers, NEW m \in net, m.src = Other(p),
           CollectFragment(p, m)
    PROVE  FragmentsInv'
  <1> DEFINE d == Defrag(p, m)
             new == IF ~Accepts(d, m) THEN d
                    ELSE IF Completes(d, m) THEN NoDefrag ELSE AddFragment(d, m)
  <1>0. m \in Packet /\ m.req \in BOOLEAN /\ See(p, m) /\ m.total > 1
    BY DEF TypeOK, Packet, CollectFragment
  <1>1. \A q \in Peers : /\ initiating'[q].mid = initiating[q].mid
                         /\ initiating'[q].type = initiating[q].type
                         /\ initiating'[q].packets = initiating[q].packets
    BY DEF CollectFragment, TypeOK, InitiatingType
  <1>2. \A q \in Peers : /\ responding'[q].mid = responding[q].mid
                         /\ responding'[q].packets = responding[q].packets
    BY DEF CollectFragment, TypeOK, RespondingType
  <1>3. /\ net' = net \cup AcksFor(p, m) /\ state' = state
        /\ UNCHANGED <<tracker, handled, completed>>
    BY DEF CollectFragment
  <1>4. \A q \in Peers : Alive(q)' => Alive(q)
    BY <1>3 DEF Alive
  <1>5. Onward
    BY <1>1, <1>2, <1>4, Standing
  <1>6. \A x : Existing(x)' => Existing(x) \/ x \in AcksFor(p, m)
    BY <1>1, <1>2, <1>3 DEF Existing
  <1>7. SeenType' /\ \A q \in Peers : seen[q] \subseteq seen'[q]
    BY <1>0, SeeFragment DEF FragmentsInv
  <1>8. /\ Buffer(p, m.req)' = new /\ \A r \in BOOLEAN : r # m.req => Buffer(p, r)' = Buffer(p, r)
        /\ \A q \in Peers \ {p}, r \in BOOLEAN : Buffer(q, r)' = Buffer(q, r)
    <2>1. /\ initiating'[p].defrag = (IF m.req THEN initiating[p].defrag ELSE new)
          /\ \A q \in Peers \ {p} : initiating'[q] = initiating[q]
      <3> HIDE DEF new
      <3> QED BY DEF CollectFragment, TypeOK, InitiatingType, new
    <2>2. /\ responding'[p].defrag = (IF m.req THEN new ELSE responding[p].defrag)
          /\ \A q \in Peers \ {p} : responding'[q] = responding[q]
      <3> HIDE DEF new
      <3> QED BY DEF CollectFragment, TypeOK, RespondingType, new
    <2> HIDE DEF new
    <2> QED BY <1>0, <2>1, <2>2 DEF Buffer
  <1>9. Buffer(p, m.req)' = Buffer(p, m.req) \/ Collects(p, m.req, Buffer(p, m.req))'
    <2>1. CASE ~Accepts(d, m)
      <3>1. d = Buffer(p, m.req)
        BY DEF Defrag, Buffer
      <3> QED BY <1>8, <2>1, <3>1
    <2>2. CASE Accepts(d, m) /\ Completes(d, m)
      <3>1. Buffer(p, m.req)' = NoDefrag
        BY <1>8, <2>2
      <3> QED BY <3>1 DEF Collects, NoDefrag
    <2>3. CASE Accepts(d, m) /\ ~Completes(d, m)
      <3>1. Buffer(p, m.req)' = AddFragment(d, m)
        BY <1>8, <2>3
      <3> DEFINE e == AddFragment(d, m)
      <3>2. /\ e.got \subseteq 1..e.total
            /\ Cardinality(e.got) \in 1..(e.total - 1)
            /\ \E x \in net' : /\ x.src = Other(p) /\ x.req = m.req /\ x.mid = e.mid
                               /\ x.total = e.total /\ ~x.ack.is
            /\ \A f \in e.got : FragmentOf(p, m.req, e.mid, f) \in seen'[p]
        BY <1>0, <1>3, <2>3, Added
      <3> HIDE DEF e, new, d
      <3>3. Buffer(p, m.req)' = e
        BY <3>1 DEF e
      <3> QED BY <3>2, <3>3 DEF Collects, FragmentOf
    <2> QED BY <2>1, <2>2, <2>3
  <1> HIDE DEF new, d
  <1>10. \A q \in Peers, r \in BOOLEAN :
             Buffer(q, r)' = Buffer(q, r) \/ Collects(q, r, Buffer(q, r))'
    BY <1>8, <1>9
  <1>11. Processes /\ net \subseteq net'
    BY <1>3, ProcessesNothing
  <1> QED BY <1>5, <1>6, <1>7, <1>10, <1>11, AcksOf, FragmentsKeptQuietly

\* p answers m with the packets new, if any, or ends the IKE_SA.
Answers(p, m, req, n, new) ==
    /\ Alive(p) /\ m.req /\ Whole(p, m) /\ See(p, m) /\ ~req
    /\ \A x \in new : OfMessage(x, p, req, responding[p].mid, n)
    /\ \/ responding'[p].mid = responding[p].mid + 1
       \/ responding'[p].mid = responding[p].mid /\ ~Alive(p)'
    /\ responding'[p].packets \subseteq responding[p].packets \cup new
    /\ responding'[p].defrag = responding[p].defrag \/ responding'[p].defrag = NoDefrag
    /\ tracker'[p].packets \subseteq tracker[p].packets \cup new
    /\ \A q \in Peers \ {p} : /\ responding'[q] = responding[q] /\ tracker'[q] = tracker[q]
                              /\ Alive(q)' => Alive(q)
    /\ net' = net \cup AcksFor(p, m) \cup new
    /\ \/ handled' = [handled EXCEPT ![p] = Append(@, m.mid)] /\ ~m.ack.is
       \/ handled' = handled
    /\ UNCHANGED <<initiating, completed>>

\* A response takes the message ID of the request, whether or not it is the last
\* message of the IKE_SA.
LEMMA AnswersFragments ==
    ASSUME TypeOK, TypeOK', FragmentsInv, NEW p \in Peers, NEW m \in net, m.src = Other(p),
           NEW req \in BOOLEAN, NEW n \in Nat, NEW new, Answers(p, m, req, n, new)
    PROVE  FragmentsInv'
  <1>0. req = FALSE
    BY DEF Answers
  <1>1. /\ responding[p].mid \in Nat /\ responding'[p].mid \in Nat
        /\ m \in Packet /\ m.req \in BOOLEAN /\ m.mid \in Nat
    <2>1. responding[p].mid \in Nat
      BY PeerTypes
    <2>2. responding'[p].mid \in Nat
      BY <2>1 DEF Answers
    <2> QED BY <2>1, <2>2 DEF TypeOK, Answers, Packet
  <1>2. /\ Taken(p, req) = responding[p].mid
        /\ \/ Taken(p, req)' = responding[p].mid + 1
           \/ Taken(p, req)' = responding[p].mid + 2
    <2> DEFINE c == responding[p].mid
               d == responding'[p].mid
    <2>1. Taken(p, req) = c + 0 /\ Taken(p, req)' = d + IF Alive(p)' THEN 0 ELSE 1
      BY <1>0 DEF Taken, Answers
    <2>2. (d = c \/ d = c + 1) /\ (d = c + 1 \/ ~Alive(p)')
      BY DEF Answers
    <2> HIDE DEF c, d
    <2>3. c \in Nat /\ d \in Nat
      BY <1>1 DEF c, d
    <2>4. Taken(p, req) = c /\ (Taken(p, req)' = c + 1 \/ Taken(p, req)' = c + 2)
      BY <2>1, <2>2, <2>3
    <2> QED BY <2>4 DEF c
  <1>3. Onward
    <2> SUFFICES ASSUME NEW q \in Peers, NEW r \in BOOLEAN PROVE Taken(q, r) <= Taken(q, r)'
      BY DEF Onward
    <2>1. CASE r = TRUE
      <3>1. initiating[q].mid \in Nat
        BY PeerTypes
      <3> QED BY <2>1, <3>1 DEF Taken, Outstanding, Answers
    <2>2. CASE r = req /\ q = p
      BY <1>1, <1>2, <2>2
    <2>3. CASE r = req /\ q # p
      <3>1. responding[q].mid \in Nat
        BY PeerTypes
      <3> QED BY <1>0, <2>3, <3>1 DEF Taken, Answers
    <2> QED BY <1>0, <2>1, <2>2, <2>3
  <1>4. \A x : Existing(x)' => Existing(x) \/ x \in AcksFor(p, m) \/ x \in new
    BY DEF Existing, Answers
  <1>5. Emits(p, AcksFor(p, m), req, responding[p].mid, n, new)
    <2>2. Taken(p, req) <= responding[p].mid /\ responding[p].mid < Taken(p, req)'
      BY <1>1, <1>2
    <2> QED BY <1>4, <2>2, AcksOf DEF Emits, Answers
  <1>6. SeenType' /\ \A q \in Peers : seen[q] \subseteq seen'[q]
    BY SeeFragment DEF FragmentsInv, Answers
  <1>7. \A q \in Peers, r \in BOOLEAN :
            Buffer(q, r)' = Buffer(q, r) \/ Collects(q, r, Buffer(q, r))'
    <2> TAKE q \in Peers, r \in BOOLEAN
    <2>1. Buffer(q, r)' = Buffer(q, r) \/ Buffer(q, r)' = NoDefrag
      BY DEF Buffer, Answers
    <2>2. CASE Buffer(q, r)' = NoDefrag
      BY <2>2 DEF Collects, NoDefrag
    <2> QED BY <2>1, <2>2
  <1>8. Processes
    <2> SUFFICES ASSUME NEW q \in Peers, NEW r \in BOOLEAN, NEW k \in Nat, Processed(q, r, k)'
                 PROVE  \/ Processed(q, r, k)
                        \/ \E y : Reassembled(q, y) /\ y.req = r /\ y.mid = k
      BY DEF Processes
    <2>1. CASE handled'[q] = handled[q]
      BY <2>1 DEF Processed, Answers
    <2>2. CASE q = p /\ ~m.ack.is /\ handled'[p] = Append(handled[p], m.mid)
      <3>1. Reassembled(p, m)
        BY <2>2, WholeSeen DEF Answers
      <3>2. CASE r = FALSE
        BY <3>2 DEF Processed, Answers
      <3>3. CASE r = TRUE
        <4>1. handled[p] \in Seq(Nat)
          BY DEF TypeOK
        <4>2. PICK i \in DOMAIN handled'[p] : handled'[p][i] = k
          BY <2>2, <3>3 DEF Processed
        <4>3. (i \in DOMAIN handled[p] /\ handled[p][i] = k) \/ k = m.mid
          BY <1>1, <2>2, <4>1, <4>2
        <4> QED BY <1>1, <2>2, <3>1, <3>3, <4>3 DEF Processed, Answers
      <3> QED BY <3>2, <3>3
    <2> QED BY <2>1, <2>2 DEF TypeOK, Answers
  <1>9. net \subseteq net'
    BY DEF Answers
  <1> QED BY <1>1, <1>3, <1>5, <1>6, <1>7, <1>8, <1>9, FragmentsKept

\* A request is processed when it is whole, and answered.
LEMMA ProcessRequestFragments ==
    ASSUME TypeOK, TypeOK', FragmentsInv, NEW p \in Peers, NEW m \in net, m.src = Other(p),
           Alive(p), ProcessRequest(p, m)
    PROVE  FragmentsInv'
  <1> DEFINE packets == Packets(p, FALSE, responding[p].mid, m.type,
                                RespFrags[m.type], KeysAtParse(p))
             t == TrackerAfter(p, AckedTracker(p, m), responding[p].mid, packets)
  <1>1. m \in Packet /\ m.type \in Exchanges /\ RespFrags[m.type] \in Nat
    BY Constants DEF TypeOK, Packet
  <1>2. \A x \in packets : OfMessage(x, p, FALSE, responding[p].mid, RespFrags[m.type])
    BY PacketsOf
  <1>3. t.packets \subseteq tracker[p].packets \cup packets
    BY TrackerPackets DEF TrackerAfter, NewTracker
  <1>4. /\ m.req /\ Whole(p, m) /\ See(p, m)
        /\ responding' = [responding EXCEPT ![p] = Responded(p, m, packets)]
        /\ tracker' = [tracker EXCEPT ![p] = t]
        /\ net' = net \cup AcksFor(p, m) \cup packets
        /\ handled' = [handled EXCEPT ![p] = IF m.ack.is THEN @ ELSE Append(@, m.mid)]
        /\ UNCHANGED <<initiating, completed>>
    BY DEF ProcessRequest
  <1>5. /\ Responded(p, m, packets).mid = responding[p].mid + 1
        /\ Responded(p, m, packets).packets = packets
        /\ Responded(p, m, packets).defrag \in {responding[p].defrag, NoDefrag}
    BY PeerTypes DEF Responded, RespondingType
  <1> HIDE DEF packets, t
  <1>6. /\ responding'[p] = Responded(p, m, packets) /\ tracker'[p] = t
        /\ \A q \in Peers \ {p} : responding'[q] = responding[q] /\ tracker'[q] = tracker[q]
    BY <1>4 DEF TypeOK
  <1>7. \A q \in Peers \ {p} : Alive(q)' => Alive(q)
    BY DEF ProcessRequest, RespondingState, Alive, TypeOK
  <1>8. (handled' = [handled EXCEPT ![p] = Append(@, m.mid)] /\ ~m.ack.is) \/ handled' = handled
    BY <1>4 DEF TypeOK
  <1>9. /\ responding'[p].mid = responding[p].mid + 1
        /\ responding'[p].packets = packets
        /\ responding'[p].defrag \in {responding[p].defrag, NoDefrag}
        /\ tracker'[p].packets \subseteq tracker[p].packets \cup packets
    BY <1>3, <1>5, <1>6
  <1>10. PICK req \in BOOLEAN : req = FALSE
    OBVIOUS
  <1>11. \A x \in packets : OfMessage(x, p, req, responding[p].mid, RespFrags[m.type])
    BY <1>2, <1>10 DEF OfMessage
  <1>12. Answers(p, m, req, RespFrags[m.type], packets)
    BY <1>4, <1>6, <1>7, <1>8, <1>9, <1>10, <1>11 DEF Answers
  <1> QED BY <1>1, <1>12, AnswersFragments

\* The same with a request that ends the IKE_SA.
LEMMA CloseOnRequestFragments ==
    ASSUME TypeOK, TypeOK', FragmentsInv, NEW p \in Peers, NEW m \in net, m.src = Other(p),
           Alive(p), NEW ending, CloseOnRequest(p, m, ending)
    PROVE  FragmentsInv'
  <1> DEFINE response == Packets(p, FALSE, responding[p].mid, m.type,
                                 RespFrags[m.type], KeysAtParse(p))
             packets == IF ending = "reject" THEN {} ELSE response
             t == TrackerAfter(p, AckedTracker(p, m), responding[p].mid, packets)
  <1>1. m \in Packet /\ m.type \in Exchanges /\ RespFrags[m.type] \in Nat
    BY Constants DEF TypeOK, Packet
  <1>2. \A x \in packets : OfMessage(x, p, FALSE, responding[p].mid, RespFrags[m.type])
    <2>1. \A x \in response : OfMessage(x, p, FALSE, responding[p].mid, RespFrags[m.type])
      BY PacketsOf
    <2> HIDE DEF response
    <2> QED BY <2>1
  <1>3. t.packets \subseteq tracker[p].packets \cup packets
    BY TrackerPackets DEF TrackerAfter, NewTracker
  <1>4. /\ m.req /\ Whole(p, m) /\ See(p, m) /\ ~m.ack.is
        /\ tracker' = [tracker EXCEPT ![p] = t]
        /\ net' = net \cup AcksFor(p, m) \cup packets
        /\ handled' = [handled EXCEPT ![p] = IF ending = "close" THEN Append(@, m.mid) ELSE @]
        /\ UNCHANGED <<initiating, responding, completed>>
    BY DEF CloseOnRequest, window
  <1> HIDE DEF packets, t
  <1>5. tracker'[p] = t /\ \A q \in Peers \ {p} : tracker'[q] = tracker[q]
    BY <1>4 DEF TypeOK
  <1>6. ~Alive(p)' /\ \A q \in Peers \ {p} : Alive(q)' => Alive(q)
    BY DEF CloseOnRequest, Destroyed, Alive, TypeOK
  <1>7. (handled' = [handled EXCEPT ![p] = Append(@, m.mid)] /\ ~m.ack.is) \/ handled' = handled
    BY <1>4 DEF TypeOK
  <1>10. PICK req \in BOOLEAN : req = FALSE
    OBVIOUS
  <1>11. \A x \in packets : OfMessage(x, p, req, responding[p].mid, RespFrags[m.type])
    BY <1>2, <1>10 DEF OfMessage
  <1>12. responding'[p] = responding[p] /\ \A q \in Peers \ {p} : responding'[q] = responding[q]
    BY <1>4
  <1>13. Answers(p, m, req, RespFrags[m.type], packets)
    BY <1>3, <1>4, <1>5, <1>6, <1>7, <1>10, <1>11, <1>12 DEF Answers
  <1> QED BY <1>1, <1>13, AnswersFragments

\* The response that completes a request was reassembled.
LEMMA CompleteProcesses ==
    ASSUME TypeOK, FragmentsInv, NEW p \in Peers, NEW m \in net, m.src = Other(p),
           ~m.req, Arrives(p, m), Whole(p, m), See(p, m), Complete(p), handled' = handled
    PROVE  Processes
  <1>1. /\ m \in Packet /\ m.req = FALSE /\ Existing(m) /\ m.mid = initiating[p].mid
        /\ m.mid \in Nat
    BY DEF TypeOK, Packet, Existing, Arrives, Expected
  <1>2. ~m.ack.is
    BY <1>1 DEF FragmentsInv, MessagesInv, Numbered
  <1>3. Reassembled(p, m)
    BY <1>2, WholeSeen
  <1>4. /\ completed'[p] \subseteq completed[p] \cup {m.mid}
        /\ \A q \in Peers \ {p} : completed'[q] = completed[q]
    BY <1>1 DEF Complete, TypeOK
  <1> SUFFICES ASSUME NEW q \in Peers, NEW r \in BOOLEAN, NEW k \in Nat, Processed(q, r, k)'
               PROVE  \/ Processed(q, r, k)
                      \/ \E y : Reassembled(q, y) /\ y.req = r /\ y.mid = k
    BY DEF Processes
  <1>5. CASE r = TRUE
    BY <1>5 DEF Processed
  <1>6. CASE r = FALSE /\ q # p
    BY <1>4, <1>6 DEF Processed
  <1>7. CASE r = FALSE /\ q = p
    <2>1. k \in completed[p] \/ k = m.mid
      BY <1>4, <1>7 DEF Processed
    <2> QED BY <1>1, <1>3, <1>7, <2>1 DEF Processed
  <1> QED BY <1>5, <1>6, <1>7

\* The request window afterwards.
LEMMA IdleWindow ==
    ASSUME TypeOK, NEW p \in Peers, NEW m \in Packet
    PROVE  /\ Idle(p, m) \in InitiatingType
           /\ Idle(p, m).mid = initiating[p].mid + 1 /\ Idle(p, m).type = "UNDEFINED"
           /\ Idle(p, m).packets = {}
           /\ Idle(p, m).defrag = initiating[p].defrag \/ Idle(p, m).defrag = NoDefrag
  <1>1. initiating[p] \in InitiatingType
    BY PeerTypes
  <1>2. Idle(p, m) \in InitiatingType
    BY IdleType
  <1> QED BY <1>1, <1>2 DEF Idle, InitiatingType

\* The buffers after a response was processed.
LEMMA ResponseBuffers ==
    ASSUME TypeOK, NEW p \in Peers,
           initiating'[p].defrag = initiating[p].defrag \/ initiating'[p].defrag = NoDefrag,
           \A q \in Peers \ {p} : initiating'[q] = initiating[q],
           \A q \in Peers : responding'[q].defrag = responding[q].defrag
    PROVE  \A q \in Peers, r \in BOOLEAN :
               Buffer(q, r)' = Buffer(q, r) \/ Collects(q, r, Buffer(q, r))'
  <1> TAKE q \in Peers, r \in BOOLEAN
  <1>1. Buffer(q, r)' = Buffer(q, r) \/ Buffer(q, r)' = NoDefrag
    BY DEF Buffer
  <1>2. CASE Buffer(q, r)' = NoDefrag
    BY <1>2 DEF Collects, NoDefrag
  <1> QED BY <1>1, <1>2

\* p completes its request with m, and goes on with the packets new, if any.
Finishes(p, m, req, n, new) ==
    /\ ~m.req /\ Arrives(p, m) /\ Whole(p, m) /\ See(p, m) /\ Complete(p) /\ req
    /\ \A x \in new : OfMessage(x, p, req, initiating[p].mid + 1, n)
    /\ initiating'[p].mid = initiating[p].mid + 1
    /\ new # {} => initiating'[p].type # "UNDEFINED"
    /\ initiating'[p].packets \subseteq new
    /\ initiating'[p].defrag = initiating[p].defrag \/ initiating'[p].defrag = NoDefrag
    /\ tracker'[p].packets \subseteq tracker[p].packets \cup new
    /\ \A q \in Peers \ {p} : initiating'[q] = initiating[q] /\ tracker'[q] = tracker[q]
    /\ \A q \in Peers : /\ responding'[q].mid = responding[q].mid
                        /\ responding'[q].packets = responding[q].packets
                        /\ responding'[q].defrag = responding[q].defrag
                        /\ Alive(q)' => Alive(q)
    /\ net \subseteq net'
    /\ net' \subseteq net \cup AcksFor(p, m) \cup tracker[p].packets \cup new
    /\ handled' = handled

\* A response is processed when it is whole, and a next request takes the next ID.
LEMMA FinishesFragments ==
    ASSUME TypeOK, TypeOK', FragmentsInv, NEW p \in Peers, NEW m \in net, m.src = Other(p),
           NEW req \in BOOLEAN, NEW n \in Nat, NEW new, Finishes(p, m, req, n, new)
    PROVE  FragmentsInv'
  <1>0. req = TRUE
    BY DEF Finishes
  <1>1. initiating[p].mid \in Nat
    BY PeerTypes
  <1>2. /\ Taken(p, req) <= initiating[p].mid + 1
        /\ new # {} => initiating[p].mid + 1 < Taken(p, req)'
        /\ initiating[p].mid + 1 <= Taken(p, req)'
    <2>1. /\ Taken(p, req) = initiating[p].mid + IF Outstanding(p) THEN 1 ELSE 0
          /\ Taken(p, req)' = initiating[p].mid + 1 + IF Outstanding(p)' THEN 1 ELSE 0
      BY <1>0 DEF Taken, Finishes
    <2>2. new # {} => Outstanding(p)'
      BY DEF Finishes, Outstanding
    <2> QED BY <1>1, <2>1, <2>2
  <1>3. Onward
    <2> SUFFICES ASSUME NEW q \in Peers, NEW r \in BOOLEAN PROVE Taken(q, r) <= Taken(q, r)'
      BY DEF Onward
    <2>0. /\ initiating[q].mid \in Nat /\ responding[q].mid \in Nat
          /\ Taken(q, r) \in Nat /\ Taken(q, r)' \in Nat
      BY PeerTypes, MessagesType, MessagesTypeAfter DEF TakenType
    <2>1. CASE r = FALSE
      BY <2>0, <2>1 DEF Taken, Finishes
    <2>2. CASE r = req /\ q = p
      BY <1>1, <1>2, <2>0, <2>2
    <2>3. CASE r = req /\ q # p
      BY <1>0, <2>0, <2>3 DEF Taken, Outstanding, Finishes
    <2> QED BY <1>0, <2>1, <2>2, <2>3
  <1>4. \A x : Existing(x)' => Existing(x) \/ x \in AcksFor(p, m) \/ x \in new
    BY DEF Existing, Finishes
  <1>5. Emits(p, AcksFor(p, m), req, initiating[p].mid + 1, n, new)
    BY <1>2, <1>4, AcksOf DEF Emits, Finishes
  <1>6. SeenType' /\ \A q \in Peers : seen[q] \subseteq seen'[q]
    BY SeeFragment DEF FragmentsInv, Finishes
  <1>7. \A q \in Peers, r \in BOOLEAN :
            Buffer(q, r)' = Buffer(q, r) \/ Collects(q, r, Buffer(q, r))'
    BY ResponseBuffers DEF Finishes
  <1>8. Processes /\ net \subseteq net'
    BY CompleteProcesses DEF Finishes
  <1> QED BY <1>1, <1>3, <1>5, <1>6, <1>7, <1>8, FragmentsKept

\* The last response of the exchanges.
LEMMA ProcessResponseFragments ==
    ASSUME TypeOK, TypeOK', FragmentsInv, NEW p \in Peers, NEW m \in net, m.src = Other(p),
           Alive(p), ProcessResponse(p, m)
    PROVE  FragmentsInv'
  <1>0. PICK none : none = {}
    OBVIOUS
  <1>1. m \in Packet
    BY DEF TypeOK
  <1>2. /\ initiating' = [initiating EXCEPT ![p] = Idle(p, m)]
        /\ net' = net \cup AcksFor(p, m) /\ UNCHANGED <<tracker, handled>>
        /\ ~m.req /\ Arrives(p, m) /\ Whole(p, m) /\ See(p, m) /\ Complete(p)
    BY DEF ProcessResponse
  <1>3. /\ initiating'[p] = Idle(p, m) /\ \A q \in Peers \ {p} : initiating'[q] = initiating[q]
    BY <1>2 DEF TypeOK
  <1>4. /\ initiating'[p].mid = initiating[p].mid + 1 /\ initiating'[p].packets = {}
        /\ initiating'[p].defrag = initiating[p].defrag \/ initiating'[p].defrag = NoDefrag
    BY <1>1, <1>3, IdleWindow
  <1>5. \A q \in Peers : /\ responding'[q].mid = responding[q].mid
                         /\ responding'[q].packets = responding[q].packets
                         /\ responding'[q].defrag = responding[q].defrag
    BY DEF ProcessResponse, TypeOK, RespondingType
  <1>6. \A q \in Peers : Alive(q)' => Alive(q)
    BY DEF ProcessResponse, StateAfter, Alive, TypeOK
  <1>7. Finishes(p, m, TRUE, 0, none)
    BY <1>0, <1>2, <1>3, <1>4, <1>5, <1>6 DEF Finishes
  <1> QED BY <1>7, FinishesFragments

\* A response that the next request follows.
LEMMA InitiateNextFragments ==
    ASSUME TypeOK, TypeOK', FragmentsInv, NEW p \in Peers, NEW m \in net, m.src = Other(p),
           Alive(p), NEW type \in Exchanges, InitiateNext(p, m, type)
    PROVE  FragmentsInv'
  <1>1. m \in Packet /\ KeysAfter(p) \in Nat /\ ReqFrags[type] \in Nat /\ type # "UNDEFINED"
    <2>1. KeysAtParse(p) \in Nat
      BY PeerTypes
    <2>2. KeysAfter(p) \in Nat
      BY <2>1 DEF KeysAfter
    <2>3. type # "UNDEFINED"
      BY DEF Exchanges
    <2> QED BY <2>2, <2>3, Constants DEF TypeOK
  <1>2. /\ Idle(p, m) \in InitiatingType
        /\ Idle(p, m).mid = initiating[p].mid + 1 /\ Idle(p, m).packets = {}
        /\ Idle(p, m).defrag = initiating[p].defrag \/ Idle(p, m).defrag = NoDefrag
    BY <1>1, IdleWindow
  <1>3. StartExchange(p, type, Idle(p, m), KeysAfter(p), peer_supports[p] \/ m.sel, AcksFor(p, m))
    BY DEF InitiateNext
  <1>4. Starts(p, Idle(p, m).mid, type, Idle(p, m).defrag, Idle(p, m).packets, AcksFor(p, m))
    BY <1>1, <1>2, <1>3, StartExchangeSends
  <1>5. Starts(p, initiating[p].mid + 1, type, Idle(p, m).defrag, {}, AcksFor(p, m))
    BY <1>2, <1>4
  <1>6. PICK new :
          /\ \A x \in new : OfMessage(x, p, TRUE, initiating[p].mid + 1, ReqFrags[type])
          /\ initiating'[p].packets = {} \cup new
          /\ tracker'[p].packets \subseteq tracker[p].packets \cup new
          /\ net' \subseteq net \cup AcksFor(p, m) \cup {} \cup tracker[p].packets \cup new
    BY <1>5 DEF Starts
  <1>7. /\ initiating'[p].mid = initiating[p].mid + 1 /\ initiating'[p].type = type
        /\ initiating'[p].defrag = initiating[p].defrag \/ initiating'[p].defrag = NoDefrag
        /\ \A q \in Peers \ {p} : initiating'[q] = initiating[q] /\ tracker'[q] = tracker[q]
        /\ net \subseteq net'
    BY <1>2, <1>5 DEF Starts
  <1>8. \A q \in Peers : /\ responding'[q].mid = responding[q].mid
                         /\ responding'[q].packets = responding[q].packets
                         /\ responding'[q].defrag = responding[q].defrag
    BY DEF InitiateNext, TypeOK, RespondingType
  <1>9. \A q \in Peers : Alive(q)' => Alive(q)
    BY DEF InitiateNext, StateAfter, Alive, TypeOK
  <1>10. /\ ~m.req /\ Arrives(p, m) /\ Whole(p, m) /\ See(p, m) /\ Complete(p)
         /\ handled' = handled
    BY DEF InitiateNext
  <1>11. PICK req \in BOOLEAN : req = TRUE
    OBVIOUS
  <1>12. \A x \in new : OfMessage(x, p, req, initiating[p].mid + 1, ReqFrags[type])
    BY <1>6, <1>11 DEF OfMessage
  <1>13. Finishes(p, m, req, ReqFrags[type], new)
    BY <1>1, <1>6, <1>7, <1>8, <1>9, <1>10, <1>11, <1>12 DEF Finishes
  <1> QED BY <1>1, <1>13, FinishesFragments

\* A response that ends the IKE_SA.
LEMMA CloseOnResponseFragments ==
    ASSUME TypeOK, TypeOK', FragmentsInv, NEW p \in Peers, NEW m \in net, CloseOnResponse(p, m)
    PROVE  FragmentsInv'
  <1>1. /\ net' = net \cup AcksFor(p, m) /\ See(p, m)
        /\ UNCHANGED <<initiating, tracker, handled, completed>>
    BY DEF CloseOnResponse
  <1>2. \A q \in Peers : /\ responding'[q].mid = responding[q].mid
                         /\ responding'[q].packets = responding[q].packets
                         /\ responding'[q].defrag = responding[q].defrag
    BY DEF CloseOnResponse, TypeOK, RespondingType
  <1>3. \A q \in Peers : Alive(q)' => Alive(q)
    BY DEF CloseOnResponse, Destroyed, Alive, TypeOK
  <1>4. Onward
    BY <1>1, <1>2, <1>3, Standing
  <1>5. \A x : Existing(x)' => Existing(x) \/ x \in AcksFor(p, m)
    BY <1>1, <1>2 DEF Existing
  <1>6. SeenType' /\ \A q \in Peers : seen[q] \subseteq seen'[q]
    BY <1>1, SeeFragment DEF FragmentsInv
  <1>7. \A q \in Peers, r \in BOOLEAN : Buffer(q, r)' = Buffer(q, r)
    BY <1>1, <1>2 DEF Buffer
  <1>8. Processes /\ net \subseteq net'
    BY <1>1, ProcessesNothing
  <1> QED BY <1>4, <1>5, <1>6, <1>7, <1>8, AcksOf, FragmentsKeptQuietly

\* There are no packets initially.
LEMMA InitFragments == Init => FragmentsInv
  <1> SUFFICES ASSUME Init PROVE FragmentsInv
    OBVIOUS
  <1>1. ASSUME NEW p \in Peers
        PROVE  /\ initiating[p].packets = {} /\ responding[p].packets = {}
               /\ tracker[p].packets = {} /\ handled[p] = <<>> /\ completed[p] = {}
               /\ initiating[p].defrag = NoDefrag /\ responding[p].defrag = NoDefrag
    BY DEF Init, NoTracker
  <1>2. \A m : ~Existing(m)
    BY <1>1 DEF Existing, Init
  <1>3. CollectsInv
    BY <1>1 DEF CollectsInv, Collects, Buffer, NoDefrag
  <1>4. \A p \in Peers, req \in BOOLEAN, mid \in Nat : ~Processed(p, req, mid)
    <2>1. DOMAIN <<>> = {}
      OBVIOUS
    <2> QED BY <1>1, <2>1 DEF Processed
  <1>5. SeenType
    BY DEF Init, SeenType
  <1> QED BY <1>2, <1>3, <1>4, <1>5 DEF FragmentsInv, MessagesInv, ProcessedInv

\* Every step keeps the invariant.
LEMMA NextFragments ==
    ASSUME TypeOK, TypeOK', FragmentsInv, [Next]_vars
    PROVE  FragmentsInv'
  <1>1. ASSUME NEW p \in Peers, NEW type \in Exchanges, Initiate(p, type)
        PROVE  FragmentsInv'
    BY <1>1, InitiateFragments
  <1>2. ASSUME NEW p \in Peers, NEW mid \in DOMAIN jobs[p], RetransmitJob(p, mid)
        PROVE  FragmentsInv'
    BY <1>2, RetransmitJobFragments
  <1>3. ASSUME NEW p \in Peers, NEW m \in net, ProcessMessage(p, m)
        PROVE  FragmentsInv'
    <2>0. Alive(p) /\ m.src = Other(p)
      BY <1>3 DEF ProcessMessage
    <2>1. CASE ResendResponse(p, m) \/ UnexpectedId(p, m) \/ Dropped(p, m)
      BY <2>1, IgnoredFragments
    <2>2. CASE CollectFragment(p, m)
      BY <2>0, <2>2, CollectFragmentFragments
    <2>3. CASE ProcessRequest(p, m)
      BY <2>0, <2>3, ProcessRequestFragments
    <2>4. CASE \E ending \in Endings : CloseOnRequest(p, m, ending)
      BY <2>0, <2>4, CloseOnRequestFragments
    <2>5. CASE ProcessResponse(p, m)
      BY <2>0, <2>5, ProcessResponseFragments
    <2>6. CASE \E type \in Exchanges : InitiateNext(p, m, type)
      BY <2>0, <2>6, InitiateNextFragments
    <2>7. CASE CloseOnResponse(p, m)
      BY <2>7, CloseOnResponseFragments
    <2> QED BY <1>3, <2>1, <2>2, <2>3, <2>4, <2>5, <2>6, <2>7 DEF ProcessMessage
  <1>4. ASSUME NEW p \in Peers, HalfOpenTimeout(p) \/ HeapAbort(p)
        PROVE  FragmentsInv'
    BY <1>4, EndsFragments
  <1>5. CASE UNCHANGED vars
    <2>1. UNCHANGED <<initiating, responding, tracker, history, net, state>>
      BY <1>5 DEF vars, window
    <2>2. \A q \in Peers : Alive(q)' => Alive(q)
      BY <2>1 DEF Alive
    <2>3. \A m \in net' : Existing(m)
      BY <2>1 DEF Existing
    <2> QED BY <2>1, <2>2, <2>3, Repeats
  <1> QED BY <1>1, <1>2, <1>3, <1>4, <1>5 DEF Next

\* So it holds throughout.
LEMMA FragmentsCorrect == Spec => []FragmentsInv
  <1>1. Init => FragmentsInv
    BY InitFragments
  <1>2. TypeOK /\ TypeOK' /\ FragmentsInv /\ [Next]_vars => FragmentsInv'
    BY NextFragments
  <1> QED BY <1>1, <1>2, TypeCorrect, PTL DEF Spec

\* In every configuration, with selective retransmission or without, a message is
\* processed only when all of its fragments were received, and no complete set of
\* fragments is kept unmerged (add_fragment_v2 and handle_fragment).
THEOREM ReassemblySoundCorrect == Spec => []ReassemblySound
  <1>1. TypeOK /\ FragmentsInv => ReassemblySound
    <2> SUFFICES ASSUME TypeOK, FragmentsInv PROVE ReassemblySound
      OBVIOUS
    <2>1. ReassemblyOpen
      <3> SUFFICES ASSUME NEW p \in Peers
                   PROVE  \A d \in {initiating[p].defrag, responding[p].defrag} :
                              d.total > 0 => Cardinality(d.got) \in 1..(d.total - 1)
        BY DEF ReassemblyOpen
      <3>1. Collects(p, FALSE, initiating[p].defrag) /\ Collects(p, TRUE, responding[p].defrag)
        BY DEF FragmentsInv, CollectsInv, Buffer
      <3> QED BY <3>1 DEF Collects
    <2>2. ProcessedIsReassembled
      <3> SUFFICES ASSUME NEW p \in Peers, NEW m \in net, m.src = Other(p), m.total > 1,
                          \/ m.req /\ \E i \in DOMAIN handled[p] : handled[p][i] = m.mid
                          \/ ~m.req /\ m.mid \in completed[p]
                   PROVE  Fragment(m) \in seen[p]
        BY DEF ProcessedIsReassembled
      <3>1. Existing(m) /\ Processed(p, m.req, m.mid)
        BY DEF Existing, Processed
      <3> QED BY <3>1 DEF FragmentsInv, ProcessedInv
    <2> QED BY <2>1, <2>2 DEF ReassemblySound
  <1> QED BY <1>1, TypeCorrect, FragmentsCorrect, PTL

-----------------------------------------------------------------------------
(* Acknowledgments.                                                        *)

\* Only the key exchanges and the authentication of an IKE_SA are fragmented, and
\* their message IDs fit the 16 bits of the FRAGMENT_ACK notify.
InitialFragments ==
    /\ \A e \in {"CREATE_CHILD_SA", "INFORMATIONAL"} : ReqFrags[e] = 1 /\ RespFrags[e] = 1
    /\ Additional + MaxRequests + 1 < 65536

Long == {"IKE_INTERMEDIATE", "IKE_AUTH"}

\* Fragmented messages are requests of the initiator or responses to it.
Directed(m) ==
    /\ m.total # 1 => m.type \in Long
    /\ m.type \in Long => (m.req <=> m.src = I) /\ m.mid < 65536

\* What an acknowledgment names was seen by the peer that sent it.
AckSound(m) ==
    m.ack.is => \A f \in m.ack.bits :
        [src |-> Other(m.src), req |-> m.src = R, mid |-> m.ack.mid, frag |-> f] \in seen[m.src]

\* A tracker is for one fragmented message, and its marks are true.
MarksTrue(p, t) ==
    \A x \in t.packets :
        /\ x.src = p /\ x.mid = t.mid /\ x.total # 1
        /\ x.frag \in t.acked => Fragment(x) \in seen[Other(p)]

\* The initial exchanges are the initiator's, one after the other.
InitialExchange(p) ==
    initiating[p].type \in {"IKE_SA_INIT", "IKE_INTERMEDIATE"} =>
        p = I /\ initiating[p].mid <= Additional + MaxRequests

\* The inductive invariant.
AcksInv ==
    /\ \A m : Existing(m) => Directed(m) /\ AckSound(m)
    /\ \A p \in Peers : MarksTrue(p, tracker[p]) /\ InitialExchange(p)

\* Marks and acknowledgments stay true, as nothing seen is forgotten.
LEMMA AcksKept ==
    ASSUME TypeOK, TypeOK', AcksInv, \A q \in Peers : seen[q] \subseteq seen'[q],
           NEW acks, \A x \in acks : Directed(x) /\ AckSound(x)',
           NEW new, \A x \in new : Directed(x) /\ ~x.ack.is,
           \A x : Existing(x)' => Existing(x) \/ x \in acks \/ x \in new,
           \A q \in Peers : tracker'[q] = tracker[q] \/ MarksTrue(q, tracker[q])',
           \A q \in Peers : InitialExchange(q)'
    PROVE  AcksInv'
  <1>1. ASSUME NEW x, Existing(x)' PROVE Directed(x)' /\ AckSound(x)'
    <2>1. CASE Existing(x)
      <3>1. Directed(x) /\ AckSound(x) /\ x.src \in Peers
        BY <2>1, MessagesType DEF AcksInv, ExistingType, Packet
      <3> QED BY <3>1 DEF Directed, AckSound
    <2>2. CASE x \in acks
      BY <2>2 DEF Directed
    <2>3. CASE x \in new
      BY <2>3 DEF Directed, AckSound
    <2> QED BY <1>1, <2>1, <2>2, <2>3
  <1>2. ASSUME NEW q \in Peers PROVE MarksTrue(q, tracker[q])'
    <2>1. CASE tracker'[q] = tracker[q]
      <3>1. MarksTrue(q, tracker[q]) /\ Other(q) \in Peers
        BY Constants DEF AcksInv
      <3>2. \A x : Fragment(x)' = Fragment(x)
        BY DEF Fragment
      <3> QED BY <2>1, <3>1, <3>2 DEF MarksTrue
    <2> QED BY <2>1
  <1> QED BY <1>1, <1>2 DEF AcksInv

\* A fragment is acknowledged with the ones seen before.
LEMMA AcksForSound ==
    ASSUME TypeOK, FragmentsInv, AcksInv, NEW p \in Peers, NEW m \in net, m.src = Other(p),
           See(p, m), net \subseteq net', NEW x \in AcksFor(p, m)
    PROVE  Directed(x) /\ AckSound(x)'
  <1> DEFINE d == Defrag(p, m)
             ids == IF Completes(d, m) THEN ReassembledAck(m) ELSE AddFragment(d, m).got
  <1>1. /\ m.total > 1 /\ Accepts(d, m)
        /\ x = AckPacket(p, KeysAtParse(p), FragmentAck(d, m))
    BY DEF AcksFor
  <1>2. m \in Packet /\ m.mid \in Nat /\ m.req \in BOOLEAN /\ m.total \in Nat /\ Existing(m)
    BY DEF TypeOK, Packet, Existing
  <1>3. (m.req <=> m.src = I) /\ m.mid < 65536
    BY <1>1, <1>2 DEF AcksInv, Directed
  <1>4. /\ x.src = p /\ x.total = 1 /\ x.type = "INFORMATIONAL" /\ x.ack.mid = m.mid % 65536
        /\ x.ack.bits \subseteq ids
    BY <1>1 DEF AckPacket, FragmentAck
  <1>5. m.mid % 65536 = m.mid
    BY <1>2, <1>3
  <1>6. m.frag \in 1..m.total
    BY <1>2 DEF FragmentsInv, MessagesInv, Numbered
  <1>7. ASSUME NEW f \in ids PROVE FragmentOf(p, m.req, m.mid, f) \in seen'[p]
    <2>1. seen'[p] = seen[p] \cup {Fragment(m)}
      BY <1>1 DEF See, FragmentsInv, SeenType
    <2>2. CASE Completes(d, m)
      <3>1. f \in 1..m.total
        BY <1>2, <1>6, <1>7, <2>2 DEF ReassembledAck
      <3>2. LastFragment(p, m)
        BY <1>1, <2>2 DEF LastFragment
      <3>3. CASE f = m.frag
        BY <2>1, <3>3 DEF Fragment, FragmentOf
      <3>4. CASE f # m.frag
        BY <2>1, <3>1, <3>2, <3>4, AllSeen
      <3> QED BY <3>3, <3>4
    <2>3. CASE ~Completes(d, m)
      <3>1. \A g \in AddFragment(d, m).got :
               FragmentOf(p, m.req, AddFragment(d, m).mid, g) \in seen'[p]
        BY <1>1, <2>3, Added
      <3>2. AddFragment(d, m).mid = m.mid
        BY DEF AddFragment
      <3> QED BY <1>7, <2>3, <3>1, <3>2
    <2> QED BY <2>2, <2>3
  <1> HIDE DEF ids
  <1>8. m.req = (p = R)
    BY <1>2, <1>3, Constants DEF Peers, Other
  <1>9. ASSUME NEW f \in x.ack.bits
        PROVE  [src |-> Other(x.src), req |-> x.src = R, mid |-> x.ack.mid, frag |-> f]
                  \in seen'[x.src]
    <2>1. FragmentOf(p, m.req, m.mid, f) \in seen'[p]
      BY <1>4, <1>7, <1>9
    <2>2. FragmentOf(p, m.req, m.mid, f)
            = [src |-> Other(x.src), req |-> x.src = R, mid |-> x.ack.mid, frag |-> f]
      BY <1>4, <1>5, <1>8 DEF FragmentOf
    <2> QED BY <1>4, <2>1, <2>2
  <1>10. AckSound(x)'
    BY <1>9 DEF AckSound
  <1> QED BY <1>4, <1>10 DEF Directed, Long

\* The marks an acknowledgment adds are true.
LEMMA AckedMarksTrue ==
    ASSUME TypeOK, FragmentsInv, AcksInv, NEW p \in Peers, NEW m \in net, m.src = Other(p)
    PROVE  MarksTrue(p, AckedTracker(p, m))
  <1> DEFINE t == tracker[p]
             u == UpdateAckStatus(t, m.ack.bits)
  <1>1. m \in Packet /\ Existing(m) /\ t \in TrackerType /\ MarksTrue(p, t)
    BY PeerTypes DEF TypeOK, Existing, AcksInv
  <1>2. CASE ~m.ack.is \/ t.total = 0 \/ t.mid # m.ack.mid
    <2>1. AckedTracker(p, m) = t
      BY <1>2 DEF AckedTracker, ProcessFragmentAck
    <2> QED BY <1>1, <2>1
  <1>3. CASE m.ack.is /\ t.total # 0 /\ t.mid = m.ack.mid
    <2>1. AckedTracker(p, m) = u
      BY <1>3 DEF AckedTracker, ProcessFragmentAck
    <2>2. u.packets = t.packets /\ u.mid = t.mid /\ u.acked \subseteq t.acked \cup m.ack.bits
      BY <1>1 DEF UpdateAckStatus, TrackerType
    <2>3. \A f \in m.ack.bits :
             [src |-> Other(m.src), req |-> m.src = R, mid |-> m.ack.mid, frag |-> f]
                 \in seen[m.src]
      BY <1>1, <1>3 DEF AcksInv, AckSound
    <2> HIDE DEF u, t
    <2>4. ASSUME NEW x \in t.packets, x.frag \in m.ack.bits
          PROVE  Fragment(x) \in seen[Other(p)]
      <3>1. x.src = p /\ x.mid = t.mid /\ x.total # 1
        BY <1>1 DEF MarksTrue
      <3>2. Existing(x) /\ x \in Packet
        BY <1>1 DEF Existing, TrackerType, t
      <3>3. (x.req <=> p = I) /\ x.req \in BOOLEAN
        BY <3>1, <3>2 DEF AcksInv, Directed, Packet
      <3>4. Other(Other(p)) = p /\ (Other(p) = R) = (p = I)
        BY Constants DEF Peers, Other
      <3>5. Fragment(x)
              = [src |-> Other(m.src), req |-> m.src = R, mid |-> m.ack.mid, frag |-> x.frag]
        <4>1. x.req = (m.src = R)
          BY <3>3, <3>4
        <4> QED BY <1>3, <3>1, <3>4, <4>1 DEF Fragment
      <3> QED BY <2>3, <2>4, <3>5
    <2>5. MarksTrue(p, u)
      BY <1>1, <2>2, <2>4 DEF MarksTrue
    <2> QED BY <2>1, <2>5
  <1> QED BY <1>2, <1>3

\* A tracker keeps its marks while nothing seen is forgotten.
LEMMA MarksStay ==
    ASSUME NEW p \in Peers, NEW t, MarksTrue(p, t), tracker'[p] = t,
           \A q \in Peers : seen[q] \subseteq seen'[q]
    PROVE  MarksTrue(p, tracker[p])'
  <1>1. Other(p) \in Peers
    BY Constants
  <1>2. \A x : Fragment(x)' = Fragment(x)
    BY DEF Fragment
  <1> QED BY <1>1, <1>2 DEF MarksTrue

\* Only the messages of the initial exchanges are long.
LEMMA LongMessages ==
    ASSUME InitialFragments, NEW type \in Exchanges
    PROVE  (ReqFrags[type] # 1 => type \in Long) /\ (RespFrags[type] # 1 => type \in Long)
  BY FragsAssumption DEF InitialFragments, Long, Exchanges

\* The exchange stays the same.
LEMMA ExchangeStays ==
    ASSUME AcksInv, \A q \in Peers : /\ initiating'[q].type = initiating[q].type
                                     /\ initiating'[q].mid = initiating[q].mid
    PROVE  \A q \in Peers : InitialExchange(q)'
  BY DEF AcksInv, InitialExchange

\* A step that sends acknowledgments and what is stored.
LEMMA AcksKeptQuietly ==
    ASSUME TypeOK, TypeOK', AcksInv, \A q \in Peers : seen[q] \subseteq seen'[q],
           NEW acks, \A x \in acks : Directed(x) /\ AckSound(x)',
           \A x : Existing(x)' => Existing(x) \/ x \in acks,
           \A q \in Peers : tracker'[q] = tracker[q] \/ MarksTrue(q, tracker[q])',
           \A q \in Peers : /\ initiating'[q].type = initiating[q].type
                            /\ initiating'[q].mid = initiating[q].mid
    PROVE  AcksInv'
  <1>1. PICK none : none = {}
    OBVIOUS
  <1>2. \A q \in Peers : InitialExchange(q)'
    BY ExchangeStays
  <1>3. \A x \in none : Directed(x) /\ ~x.ack.is
    BY <1>1
  <1> QED BY <1>2, <1>3, AcksKept

\* A step that only sends what is stored.
LEMMA AcksKeptIdly ==
    ASSUME TypeOK, TypeOK', AcksInv, seen' = seen, \A x : Existing(x)' => Existing(x),
           \A q \in Peers : tracker'[q] = tracker[q] \/ MarksTrue(q, tracker[q])',
           \A q \in Peers : /\ initiating'[q].type = initiating[q].type
                            /\ initiating'[q].mid = initiating[q].mid
    PROVE  AcksInv'
  <1>1. PICK none : none = {}
    OBVIOUS
  <1>3. \A x \in none : Directed(x) /\ AckSound(x)'
    BY <1>1
  <1> QED BY <1>3, AcksKeptQuietly

\* retransmit() sends stored packets.
LEMMA RetransmitJobAcks ==
    ASSUME TypeOK, TypeOK', AcksInv, NEW p \in Peers, NEW mid, RetransmitJob(p, mid)
    PROVE  AcksInv'
  <1>1. initiating[p] \in InitiatingType
    BY PeerTypes
  <1>2. Retransmit(p, Effective(p, mid), initiating[p], tracker[p], peer_supports[p],
                   jobs[p] (-) SetToBag({mid}), {})
    BY DEF RetransmitJob
  <1>3. /\ initiating'[p].mid = initiating[p].mid /\ initiating'[p].type = initiating[p].type
        /\ initiating'[p].packets = initiating[p].packets
        /\ \A q \in Peers \ {p} : initiating'[q] = initiating[q]
        /\ net' \subseteq net \cup {} \cup initiating[p].packets \cup tracker[p].packets
    BY <1>1, <1>2, RetransmitSends
  <1>4. UNCHANGED <<responding, tracker, seen>>
    BY DEF RetransmitJob, history
  <1>5. \A x : Existing(x)' => Existing(x)
    BY <1>3, <1>4 DEF Existing
  <1> QED BY <1>3, <1>4, <1>5, AcksKeptIdly

\* A message that is ignored may still carry an acknowledgment.
LEMMA IgnoredAcks ==
    ASSUME TypeOK, TypeOK', FragmentsInv, AcksInv, NEW p \in Peers, NEW m \in net,
           m.src = Other(p), ResendResponse(p, m) \/ UnexpectedId(p, m) \/ Dropped(p, m)
    PROVE  AcksInv'
  <1>1. UNCHANGED <<initiating, responding, seen>>
    BY DEF ResendResponse, UnexpectedId, Dropped, window, history
  <1>2. net' \subseteq net \cup responding[p].packets
    BY DEF ResendResponse, UnexpectedId, Dropped
  <1>3. CASE ResendResponse(p, m) \/ Dropped(p, m)
    <2>1. tracker' = tracker
      BY <1>3 DEF ResendResponse, Dropped
    <2>2. \A x : Existing(x)' => Existing(x)
      BY <1>1, <1>2, <2>1 DEF Existing
    <2> QED BY <1>1, <2>1, <2>2, AcksKeptIdly
  <1>4. CASE UnexpectedId(p, m)
    <2>1. tracker' = [tracker EXCEPT ![p] = IF Readable(p, m) THEN AckedTracker(p, m) ELSE @]
      BY <1>4 DEF UnexpectedId
    <2>2. /\ tracker'[p] = tracker[p] \/ tracker'[p] = AckedTracker(p, m)
          /\ \A q \in Peers \ {p} : tracker'[q] = tracker[q]
      BY <2>1 DEF TypeOK
    <2>3. \A q \in Peers : tracker'[q].packets = tracker[q].packets
      BY <2>2, TrackerPackets
    <2>4. MarksTrue(p, AckedTracker(p, m))
      BY AckedMarksTrue
    <2>5. \A q \in Peers : tracker'[q] = tracker[q] \/ MarksTrue(q, tracker[q])'
      <3>1. CASE tracker'[p] = AckedTracker(p, m)
        <4>1. MarksTrue(p, tracker[p])'
          BY <1>1, <2>4, <3>1, MarksStay
        <4> QED BY <2>2, <4>1
      <3> QED BY <2>2, <3>1
    <2>6. \A x : Existing(x)' => Existing(x)
      BY <1>1, <1>2, <2>3 DEF Existing
    <2> QED BY <1>1, <2>5, <2>6, AcksKeptIdly
  <1> QED BY <1>3, <1>4

\* The end of an IKE_SA changes no message.
LEMMA EndsAcks ==
    ASSUME TypeOK, TypeOK', AcksInv, NEW p \in Peers, HalfOpenTimeout(p) \/ HeapAbort(p)
    PROVE  AcksInv'
  <1>1. UNCHANGED <<initiating, responding, tracker, seen, net>>
    BY DEF HalfOpenTimeout, HeapAbort, window, history
  <1>2. \A x : Existing(x)' => Existing(x)
    BY <1>1 DEF Existing
  <1> QED BY <1>1, <1>2, AcksKeptIdly

\* Peer p may send n packets of an exchange with this message ID.
Proper(p, req, mid, n, type) ==
    /\ n # 1 => type \in Long
    /\ type \in Long => (req <=> p = I) /\ mid < 65536

\* A step of p sends acknowledgments and generates the packets new of one message,
\* which is tracked, or else the tracker is t.
Generates(p, req, mid, n, type, acks, new, t) ==
    /\ \A x \in acks : Directed(x) /\ AckSound(x)'
    /\ \A x \in new : OfMessage(x, p, req, mid, n) /\ x.type = type
    /\ \A x : Existing(x)' => Existing(x) \/ x \in acks \/ x \in new
    /\ tracker'[p] = t \/ Watches(tracker'[p], mid, n, new)
    /\ \A q \in Peers \ {p} : tracker'[q] = tracker[q]
    /\ \A q \in Peers : seen[q] \subseteq seen'[q]
    /\ \A q \in Peers : InitialExchange(q)'

\* Such a step keeps the invariant.
LEMMA GeneratesAcks ==
    ASSUME TypeOK, TypeOK', AcksInv, NEW p \in Peers, NEW req \in BOOLEAN, NEW mid \in Nat,
           NEW n, NEW type, NEW acks, NEW new, NEW t, MarksTrue(p, t),
           Proper(p, req, mid, n, type), Generates(p, req, mid, n, type, acks, new, t)
    PROVE  AcksInv'
  <1>1. \A x \in new : Directed(x) /\ ~x.ack.is
    BY DEF OfMessage, Directed, Proper, Generates
  <1>2. tracker'[p] = t => MarksTrue(p, tracker[p])'
    BY MarksStay DEF Generates
  <1>3. Watches(tracker'[p], mid, n, new) => MarksTrue(p, tracker[p])'
    BY DEF Watches, OfMessage, MarksTrue, Generates
  <1>4. \A q \in Peers : tracker'[q] = tracker[q] \/ MarksTrue(q, tracker[q])'
    BY <1>2, <1>3 DEF Generates
  <1>5. /\ \A q \in Peers : seen[q] \subseteq seen'[q] /\ InitialExchange(q)'
        /\ \A x \in acks : Directed(x) /\ AckSound(x)'
        /\ \A x : Existing(x)' => Existing(x) \/ x \in acks \/ x \in new
    BY DEF Generates
  <1> QED BY <1>1, <1>4, <1>5, AcksKept

\* What initiate() needs of the state.
Startable(p, mid, type, old, acks) ==
    /\ \A q \in Peers : /\ seen[q] \subseteq seen'[q]
                        /\ responding'[q].packets = responding[q].packets
    /\ \A x \in acks : Directed(x) /\ AckSound(x)'
    /\ \A x \in old : Existing(x)
    /\ type \in Long => p = I /\ mid < 65536
    /\ InitialExchange(p)'

\* A request that starts an exchange.
LEMMA StartsAcks ==
    ASSUME InitialFragments, TypeOK, TypeOK', AcksInv, NEW p \in Peers, NEW mid \in Nat,
           NEW type \in Exchanges, NEW d, NEW old, NEW acks, Starts(p, mid, type, d, old, acks),
           Startable(p, mid, type, old, acks)
    PROVE  AcksInv'
  <1>0. PICK req \in BOOLEAN : req = TRUE
    OBVIOUS
  <1>1. PICK new :
          /\ \A x \in new : OfMessage(x, p, req, mid, ReqFrags[type]) /\ x.type = type
          /\ tracker'[p] = tracker[p] \/ Watches(tracker'[p], mid, ReqFrags[type], new)
          /\ initiating'[p].packets = old \cup new
          /\ tracker'[p].packets \subseteq tracker[p].packets \cup new
          /\ net' \subseteq net \cup acks \cup old \cup tracker[p].packets \cup new
    BY <1>0 DEF Starts, OfMessage
  <1>2. Proper(p, req, mid, ReqFrags[type], type)
    BY <1>0, LongMessages DEF Proper, Startable
  <1>3. \A x : Existing(x)' => Existing(x) \/ x \in acks \/ x \in new
    <2>1. \A q \in Peers \ {p} : initiating'[q] = initiating[q] /\ tracker'[q] = tracker[q]
      BY DEF Starts
    <2> QED BY <1>1, <2>1 DEF Existing, Startable
  <1>4. \A q \in Peers : InitialExchange(q)'
    <2>1. ASSUME NEW q \in Peers, q # p PROVE InitialExchange(q)'
      BY <2>1 DEF Starts, AcksInv, InitialExchange
    <2> QED BY <2>1 DEF Startable
  <1>5. Generates(p, req, mid, ReqFrags[type], type, acks, new, tracker[p])
    <2>1. \A q \in Peers \ {p} : tracker'[q] = tracker[q]
      BY DEF Starts
    <2>2. /\ \A x \in acks : Directed(x) /\ AckSound(x)'
          /\ \A q \in Peers : seen[q] \subseteq seen'[q]
      BY DEF Startable
    <2> QED BY <1>1, <1>3, <1>4, <2>1, <2>2 DEF Generates
  <1>6. MarksTrue(p, tracker[p])
    BY DEF AcksInv
  <1> QED BY <1>2, <1>5, <1>6, GeneratesAcks

\* initiate() in an idle window.
LEMMA InitiateAcks ==
    ASSUME InitialFragments, TypeOK, TypeOK', AcksInv, NEW p \in Peers,
           NEW type \in Exchanges, Initiate(p, type)
    PROVE  AcksInv'
  <1> DEFINE ini == initiating[p]
  <1>1. /\ ini \in InitiatingType /\ keys[p] \in Nat /\ ini.mid \in Nat
        /\ ini.mid < MaxRequests
        /\ StartExchange(p, type, ini, keys[p], peer_supports[p], {})
    BY PeerTypes DEF Initiate
  <1>2. (type = "IKE_SA_INIT" /\ p = I) \/ type \in {"CREATE_CHILD_SA", "INFORMATIONAL"}
    BY DEF Initiate
  <1>3. UNCHANGED <<responding, seen>>
    BY DEF Initiate, history
  <1>4. PICK none : none = {}
    OBVIOUS
  <1>5. Starts(p, ini.mid, type, ini.defrag, ini.packets, none)
    BY <1>1, <1>4, StartExchangeSends
  <1>6. type \notin Long
    BY <1>2 DEF Long
  <1>7. InitialExchange(p)'
    <2>1. initiating'[p].mid = ini.mid /\ initiating'[p].type = type
      BY <1>5 DEF Starts
    <2>2. ini.mid <= Additional + MaxRequests
      BY <1>1, Constants
    <2> QED BY <1>2, <2>1, <2>2 DEF InitialExchange
  <1>8. \A x \in ini.packets : Existing(x)
    BY DEF Existing
  <1>9. Startable(p, ini.mid, type, ini.packets, none)
    BY <1>3, <1>4, <1>6, <1>7, <1>8 DEF Startable
  <1> HIDE DEF ini
  <1> QED BY <1>1, <1>5, <1>9, StartsAcks

\* A fragment is acknowledged when it is added.
LEMMA CollectFragmentAcks ==
    ASSUME TypeOK, TypeOK', FragmentsInv, AcksInv, NEW p \in Peers, NEW m \in net,
           m.src = Other(p), CollectFragment(p, m)
    PROVE  AcksInv'
  <1>1. /\ net' = net \cup AcksFor(p, m) /\ See(p, m) /\ tracker' = tracker
        /\ net \subseteq net'
    BY DEF CollectFragment
  <1>2. \A q \in Peers : /\ initiating'[q].mid = initiating[q].mid
                         /\ initiating'[q].type = initiating[q].type
                         /\ initiating'[q].packets = initiating[q].packets
    BY DEF CollectFragment, TypeOK, InitiatingType
  <1>3. \A q \in Peers : responding'[q].packets = responding[q].packets
    BY DEF CollectFragment, TypeOK, RespondingType
  <1>4. \A x : Existing(x)' => Existing(x) \/ x \in AcksFor(p, m)
    BY <1>1, <1>2, <1>3 DEF Existing
  <1>5. \A q \in Peers : seen[q] \subseteq seen'[q]
    BY <1>1, SeeFragment DEF FragmentsInv
  <1>6. \A x \in AcksFor(p, m) : Directed(x) /\ AckSound(x)'
    BY <1>1, AcksForSound
  <1> QED BY <1>1, <1>2, <1>4, <1>5, <1>6, AcksKeptQuietly

\* p answers the request m with the packets new, if any.
Replies(p, m, req, mid, new) ==
    /\ req = FALSE /\ mid = m.mid /\ m.req /\ See(p, m)
    /\ \A x \in new : OfMessage(x, p, req, mid, RespFrags[m.type]) /\ x.type = m.type
    /\ responding'[p].packets \subseteq responding[p].packets \cup new
    /\ \A q \in Peers \ {p} : responding'[q] = responding[q] /\ tracker'[q] = tracker[q]
    /\ \/ tracker'[p] = AckedTracker(p, m)
       \/ Watches(tracker'[p], mid, RespFrags[m.type], new)
    /\ net' = net \cup AcksFor(p, m) \cup new
    /\ initiating' = initiating

\* A fragmented response goes to the initiator.
LEMMA RepliesAcks ==
    ASSUME InitialFragments, TypeOK, TypeOK', FragmentsInv, AcksInv, NEW p \in Peers,
           NEW m \in net, m.src = Other(p), NEW req \in BOOLEAN, NEW mid \in Nat, NEW new,
           Replies(p, m, req, mid, new)
    PROVE  AcksInv'
  <1>1. m \in Packet /\ m.type \in Exchanges /\ Existing(m) /\ mid = m.mid
    BY DEF TypeOK, Packet, Existing, Replies
  <1>2. Proper(p, req, mid, RespFrags[m.type], m.type)
    <2>1. RespFrags[m.type] # 1 => m.type \in Long
      BY <1>1, LongMessages
    <2>2. m.type \in Long => m.src = I /\ m.mid < 65536
      BY <1>1 DEF AcksInv, Directed, Replies
    <2>3. m.src = I => p # I
      BY Constants DEF Other
    <2> QED BY <1>1, <2>1, <2>2, <2>3 DEF Proper, Replies
  <1>3. MarksTrue(p, AckedTracker(p, m))
    BY AckedMarksTrue
  <1>4. \A q \in Peers : seen[q] \subseteq seen'[q]
    BY SeeFragment DEF FragmentsInv, Replies
  <1>5. \A x \in AcksFor(p, m) : Directed(x) /\ AckSound(x)'
    <2>1. net \subseteq net' /\ See(p, m)
      BY DEF Replies
    <2> QED BY <2>1, AcksForSound
  <1>6. tracker'[p].packets \subseteq tracker[p].packets \cup new
    BY TrackerPackets DEF Replies, Watches
  <1>7. \A x : Existing(x)' => Existing(x) \/ x \in AcksFor(p, m) \/ x \in new
    BY <1>6 DEF Existing, Replies
  <1>8. \A q \in Peers : InitialExchange(q)'
    BY DEF AcksInv, InitialExchange, Replies
  <1>9. Generates(p, req, mid, RespFrags[m.type], m.type, AcksFor(p, m), new,
                  AckedTracker(p, m))
    <2>1. /\ \A x \in new : OfMessage(x, p, req, mid, RespFrags[m.type]) /\ x.type = m.type
          /\ \A q \in Peers \ {p} : tracker'[q] = tracker[q]
          /\ \/ tracker'[p] = AckedTracker(p, m)
             \/ Watches(tracker'[p], mid, RespFrags[m.type], new)
      BY DEF Replies
    <2> QED BY <1>4, <1>5, <1>7, <1>8, <2>1 DEF Generates
  <1> QED BY <1>2, <1>3, <1>9, GeneratesAcks

\* A response is tracked, or the tracker has the marks of the request.
LEMMA ProcessRequestAcks ==
    ASSUME InitialFragments, TypeOK, TypeOK', FragmentsInv, AcksInv, NEW p \in Peers,
           NEW m \in net, m.src = Other(p), ProcessRequest(p, m)
    PROVE  AcksInv'
  <1>0. PICK req \in BOOLEAN : req = FALSE
    OBVIOUS
  <1> DEFINE mid == responding[p].mid
             n == RespFrags[m.type]
             packets == Packets(p, req, mid, m.type, n, KeysAtParse(p))
             t == TrackerAfter(p, AckedTracker(p, m), mid, packets)
  <1>1. m.mid = mid /\ mid \in Nat
    BY PeerTypes DEF ProcessRequest, Arrives, Expected
  <1>2. \A x \in packets : OfMessage(x, p, req, mid, n) /\ x.type = m.type
    BY PacketsOf
  <1>3. t = AckedTracker(p, m) \/ Watches(t, mid, n, packets)
    BY TrackerKept
  <1>4. /\ m.req /\ See(p, m)
        /\ responding' = [responding EXCEPT ![p] = Responded(p, m, packets)]
        /\ tracker' = [tracker EXCEPT ![p] = t]
        /\ net' = net \cup AcksFor(p, m) \cup packets
        /\ initiating' = initiating
    BY <1>0 DEF ProcessRequest
  <1>5. Responded(p, m, packets).packets = packets
    BY PeerTypes DEF Responded, RespondingType
  <1> HIDE DEF packets, t
  <1>6. /\ responding'[p].packets = packets /\ tracker'[p] = t
        /\ \A q \in Peers \ {p} : responding'[q] = responding[q] /\ tracker'[q] = tracker[q]
    BY <1>4, <1>5 DEF TypeOK
  <1>7. Replies(p, m, req, mid, packets)
    BY <1>0, <1>1, <1>2, <1>3, <1>4, <1>6 DEF Replies
  <1> HIDE DEF mid
  <1> QED BY <1>1, <1>7, RepliesAcks

\* The same with a request that ends the IKE_SA.
LEMMA CloseOnRequestAcks ==
    ASSUME InitialFragments, TypeOK, TypeOK', FragmentsInv, AcksInv, NEW p \in Peers,
           NEW m \in net, m.src = Other(p), NEW ending, CloseOnRequest(p, m, ending)
    PROVE  AcksInv'
  <1>0. PICK req \in BOOLEAN : req = FALSE
    OBVIOUS
  <1> DEFINE mid == responding[p].mid
             n == RespFrags[m.type]
             response == Packets(p, req, mid, m.type, n, KeysAtParse(p))
             packets == IF ending = "reject" THEN {} ELSE response
             t == TrackerAfter(p, AckedTracker(p, m), mid, packets)
  <1>1. m.mid = mid /\ mid \in Nat
    BY PeerTypes DEF CloseOnRequest, Arrives, Expected
  <1>2. \A x \in response : OfMessage(x, p, req, mid, n) /\ x.type = m.type
    BY PacketsOf
  <1>3. t = AckedTracker(p, m) \/ Watches(t, mid, n, packets)
    <2>1. CASE ending = "reject"
      <3>1. ~Tracks(p, {})
        BY FS_EmptySet DEF Tracks
      <3> QED BY <2>1, <3>1 DEF TrackerAfter
    <2>2. CASE ending # "reject"
      BY <2>2, TrackerKept
    <2> QED BY <2>1, <2>2
  <1>4. /\ m.req /\ See(p, m)
        /\ tracker' = [tracker EXCEPT ![p] = t]
        /\ net' = net \cup AcksFor(p, m) \cup packets
        /\ UNCHANGED <<initiating, responding>>
    BY <1>0 DEF CloseOnRequest, window
  <1> HIDE DEF response, t
  <1>5. \A x \in packets : OfMessage(x, p, req, mid, n) /\ x.type = m.type
    BY <1>2
  <1> HIDE DEF packets
  <1>6. tracker'[p] = t /\ \A q \in Peers \ {p} : tracker'[q] = tracker[q]
    BY <1>4 DEF TypeOK
  <1>7. Replies(p, m, req, mid, packets)
    BY <1>0, <1>1, <1>3, <1>4, <1>5, <1>6 DEF Replies
  <1> HIDE DEF mid
  <1> QED BY <1>1, <1>7, RepliesAcks

\* The last response of the exchanges.
LEMMA ProcessResponseAcks ==
    ASSUME TypeOK, TypeOK', FragmentsInv, AcksInv, NEW p \in Peers,
           NEW m \in net, m.src = Other(p), ProcessResponse(p, m)
    PROVE  AcksInv'
  <1>0. PICK none : none = {}
    OBVIOUS
  <1>1. /\ initiating' = [initiating EXCEPT ![p] = Idle(p, m)]
        /\ net' = net \cup AcksFor(p, m) /\ net \subseteq net' /\ tracker' = tracker
        /\ See(p, m)
    BY DEF ProcessResponse
  <1>2. /\ initiating'[p].type = "UNDEFINED" /\ initiating'[p].packets = {}
        /\ \A q \in Peers \ {p} : initiating'[q] = initiating[q]
    <2>1. m \in Packet
      BY DEF TypeOK
    <2> QED BY <1>1, <2>1, IdleWindow DEF TypeOK
  <1>3. \A q \in Peers : responding'[q].packets = responding[q].packets
    BY DEF ProcessResponse, TypeOK, RespondingType
  <1>4. \A x : Existing(x)' => Existing(x) \/ x \in AcksFor(p, m) \/ x \in none
    BY <1>1, <1>2, <1>3 DEF Existing
  <1>5. \A q \in Peers : seen[q] \subseteq seen'[q]
    BY <1>1, SeeFragment DEF FragmentsInv
  <1>6. \A x \in AcksFor(p, m) : Directed(x) /\ AckSound(x)'
    BY <1>1, AcksForSound
  <1>7. \A q \in Peers : InitialExchange(q)'
    BY <1>2 DEF AcksInv, InitialExchange
  <1>8. \A x \in none : Directed(x) /\ ~x.ack.is
    BY <1>0
  <1> QED BY <1>1, <1>4, <1>5, <1>6, <1>7, <1>8, AcksKept

\* The request that follows a response.
LEMMA InitiateNextAcks ==
    ASSUME InitialFragments, TypeOK, TypeOK', FragmentsInv, AcksInv, NEW p \in Peers,
           NEW m \in net, m.src = Other(p), NEW type \in Exchanges, InitiateNext(p, m, type)
    PROVE  AcksInv'
  <1>1. /\ m \in Packet /\ KeysAfter(p) \in Nat /\ initiating[p].mid \in Nat
        /\ m.mid = initiating[p].mid
    <2>1. KeysAtParse(p) \in Nat /\ initiating[p].mid \in Nat
      BY PeerTypes
    <2>2. KeysAfter(p) \in Nat
      BY <2>1 DEF KeysAfter
    <2>3. m.mid = initiating[p].mid
      BY DEF InitiateNext, Arrives, Expected
    <2> QED BY <2>1, <2>2, <2>3 DEF TypeOK
  <1>2. /\ Idle(p, m) \in InitiatingType /\ Idle(p, m).mid = initiating[p].mid + 1
        /\ Idle(p, m).packets = {}
    BY <1>1, IdleWindow
  <1>3. Starts(p, Idle(p, m).mid, type, Idle(p, m).defrag, Idle(p, m).packets, AcksFor(p, m))
    BY <1>1, <1>2, StartExchangeSends DEF InitiateNext
  <1>4. /\ initiating'[p].mid = initiating[p].mid + 1 /\ initiating'[p].type = type
        /\ net \subseteq net'
    BY <1>2, <1>3 DEF Starts
  <1>5. /\ See(p, m) /\ type \in Following(p, m)
        /\ \A q \in Peers : responding'[q].packets = responding[q].packets
    BY DEF InitiateNext, TypeOK, RespondingType
  <1>6. \A q \in Peers : seen[q] \subseteq seen'[q]
    BY <1>5, SeeFragment DEF FragmentsInv
  <1>7. \A x \in AcksFor(p, m) : Directed(x) /\ AckSound(x)'
    BY <1>4, <1>5, AcksForSound
  <1>8. /\ type \in Long => p = I /\ Idle(p, m).mid < 65536
        /\ InitialExchange(p)'
    <2>1. Additional \in Nat /\ MaxRequests \in Nat /\ Additional + MaxRequests + 1 < 65536
      BY Constants DEF InitialFragments
    <2>2. CASE Continues(p)
      <3>1. p = I /\ initiating[p].mid <= Additional + MaxRequests
        BY <2>2 DEF Continues, AcksInv, InitialExchange
      <3>2. \/ type = "IKE_INTERMEDIATE" /\ initiating[p].mid < Additional
            \/ type = "IKE_AUTH"
        BY <1>1, <1>5, <2>2 DEF Following, NextExchange
      <3>3. type = "IKE_INTERMEDIATE" => initiating[p].mid + 1 <= Additional + MaxRequests
        BY <1>1, <2>1, <3>2
      <3>4. Idle(p, m).mid < 65536
        BY <1>1, <1>2, <2>1, <3>1
      <3> QED BY <1>4, <3>1, <3>2, <3>3, <3>4 DEF InitialExchange
    <2>3. CASE ~Continues(p)
      <3>1. type \in {"CREATE_CHILD_SA", "INFORMATIONAL"}
        BY <1>5, <2>3 DEF Following
      <3> QED BY <1>4, <3>1 DEF InitialExchange, Long
    <2> QED BY <2>2, <2>3
  <1>9. Startable(p, Idle(p, m).mid, type, Idle(p, m).packets, AcksFor(p, m))
    BY <1>2, <1>5, <1>6, <1>7, <1>8 DEF Startable
  <1>10. Idle(p, m).mid \in Nat
    BY <1>1, <1>2
  <1> QED BY <1>3, <1>9, <1>10, StartsAcks

\* A response that ends the IKE_SA.
LEMMA CloseOnResponseAcks ==
    ASSUME TypeOK, TypeOK', FragmentsInv, AcksInv, NEW p \in Peers, NEW m \in net,
           m.src = Other(p), CloseOnResponse(p, m)
    PROVE  AcksInv'
  <1>1. /\ net' = net \cup AcksFor(p, m) /\ See(p, m) /\ net \subseteq net'
        /\ UNCHANGED <<initiating, tracker>>
    BY DEF CloseOnResponse
  <1>2. \A q \in Peers : responding'[q].packets = responding[q].packets
    BY DEF CloseOnResponse, TypeOK, RespondingType
  <1>3. \A x : Existing(x)' => Existing(x) \/ x \in AcksFor(p, m)
    BY <1>1, <1>2 DEF Existing
  <1>4. \A q \in Peers : seen[q] \subseteq seen'[q]
    BY <1>1, SeeFragment DEF FragmentsInv
  <1>5. \A x \in AcksFor(p, m) : Directed(x) /\ AckSound(x)'
    BY <1>1, AcksForSound
  <1> QED BY <1>1, <1>3, <1>4, <1>5, AcksKeptQuietly

\* Nothing was sent or tracked initially.
LEMMA InitAcks == Init => AcksInv
  <1> SUFFICES ASSUME Init PROVE AcksInv
    OBVIOUS
  <1>1. ASSUME NEW p \in Peers
        PROVE  /\ initiating[p].packets = {} /\ responding[p].packets = {}
               /\ tracker[p].packets = {} /\ initiating[p].type = "UNDEFINED"
    BY DEF Init, NoTracker
  <1>2. \A m : ~Existing(m)
    BY <1>1 DEF Existing, Init
  <1> QED BY <1>1, <1>2 DEF AcksInv, MarksTrue, InitialExchange

\* Every step keeps the invariant.
LEMMA NextAcks ==
    ASSUME InitialFragments, TypeOK, TypeOK', FragmentsInv, AcksInv, [Next]_vars
    PROVE  AcksInv'
  <1>1. ASSUME NEW p \in Peers, NEW type \in Exchanges, Initiate(p, type) PROVE AcksInv'
    BY <1>1, InitiateAcks
  <1>2. ASSUME NEW p \in Peers, NEW mid \in DOMAIN jobs[p], RetransmitJob(p, mid)
        PROVE  AcksInv'
    BY <1>2, RetransmitJobAcks
  <1>3. ASSUME NEW p \in Peers, NEW m \in net, ProcessMessage(p, m) PROVE AcksInv'
    <2>0. m.src = Other(p)
      BY <1>3 DEF ProcessMessage
    <2>1. CASE ResendResponse(p, m) \/ UnexpectedId(p, m) \/ Dropped(p, m)
      BY <2>0, <2>1, IgnoredAcks
    <2>2. CASE CollectFragment(p, m)
      BY <2>0, <2>2, CollectFragmentAcks
    <2>3. CASE ProcessRequest(p, m)
      BY <2>0, <2>3, ProcessRequestAcks
    <2>4. CASE \E ending \in Endings : CloseOnRequest(p, m, ending)
      BY <2>0, <2>4, CloseOnRequestAcks
    <2>5. CASE ProcessResponse(p, m)
      BY <2>0, <2>5, ProcessResponseAcks
    <2>6. CASE \E type \in Exchanges : InitiateNext(p, m, type)
      BY <2>0, <2>6, InitiateNextAcks
    <2>7. CASE CloseOnResponse(p, m)
      BY <2>0, <2>7, CloseOnResponseAcks
    <2> QED BY <1>3, <2>1, <2>2, <2>3, <2>4, <2>5, <2>6, <2>7 DEF ProcessMessage
  <1>4. ASSUME NEW p \in Peers, HalfOpenTimeout(p) \/ HeapAbort(p) PROVE AcksInv'
    BY <1>4, EndsAcks
  <1>5. CASE UNCHANGED vars
    <2>1. UNCHANGED <<initiating, responding, tracker, seen, net>>
      BY <1>5 DEF vars, window, history
    <2>2. \A x : Existing(x)' => Existing(x)
      BY <2>1 DEF Existing
    <2> QED BY <2>1, <2>2, AcksKeptIdly
  <1> QED BY <1>1, <1>2, <1>3, <1>4, <1>5 DEF Next

\* The invariant holds in every reachable state.
LEMMA AcksCorrect == ASSUME InitialFragments PROVE Spec => []AcksInv
  <1>1. Init => AcksInv
    BY InitAcks
  <1>2. TypeOK /\ TypeOK' /\ FragmentsInv /\ AcksInv /\ [Next]_vars => AcksInv'
    BY NextAcks
  <1> QED BY <1>1, <1>2, TypeCorrect, FragmentsCorrect, PTL DEF Spec

\* When only the messages of the initial exchanges are fragmented, whatever the peers
\* select and however acknowledgments are lost, repeated or delayed, a fragment that
\* update_fragment_ack_status marked has arrived at the other peer.  ACKs name no more
\* than a message ID, so a longer CREATE_CHILD_SA response could be marked by ACKs of
\* another message.
THEOREM AckedWasReceivedCorrect ==
    ASSUME InitialFragments
    PROVE  Spec => []AckedWasReceived
  <1>1. AcksInv => AckedWasReceived
    BY DEF AcksInv, MarksTrue, AckedWasReceived
  <1> QED BY <1>1, AcksCorrect, PTL

\* The reassembly of a request at p ends.
Ends(p) == responding[p].defrag.total > 0 /\ responding'[p].defrag.total = 0

\* handle_fragment() drops no request that is complete: only an IKE_SA that is not yet
\* established gets fragmented ones.
LEMMA CollectFragmentEndsNone ==
    ASSUME TypeOK, AcksInv, NEW p \in Peers, NEW m \in net, CollectFragment(p, m)
    PROVE  \A q \in Peers : ~Ends(q)
  <1> DEFINE d == responding[p].defrag
             new == IF ~Accepts(d, m) THEN d
                    ELSE IF Completes(d, m) THEN NoDefrag ELSE AddFragment(d, m)
  <1>1. /\ m \in Packet /\ Arrives(p, m) /\ m.total > 1 /\ m.total \in Nat /\ ~Whole(p, m)
    BY DEF CollectFragment, TypeOK, Packet
  <1>2. \A q \in Peers \ {p} : responding'[q] = responding[q]
    BY DEF CollectFragment, TypeOK
  <1>3. CASE ~m.req
    <2>1. responding'[p].defrag = d
      BY <1>3 DEF CollectFragment, TypeOK, RespondingType
    <2> QED BY <1>2, <2>1, PeerTypes DEF Ends
  <1>4. CASE m.req
    <2>1. m.type \in Long
      <3>1. Existing(m)
        BY DEF Existing
      <3> QED BY <1>1, <3>1 DEF AcksInv, Directed
    <2>2. state[p] # "ESTABLISHED"
      BY <1>1, <1>4, <2>1 DEF Arrives, RejectRequest, Long
    <2>3. Defrag(p, m) = d
      BY <1>4 DEF Defrag
    <2>4. ~(Accepts(d, m) /\ Completes(d, m))
      BY <1>1, <2>2, <2>3 DEF Whole, LastFragment, AlreadyProcessed
    <2>5. responding'[p].defrag = new
      <3>1. responding'[p] = [responding[p] EXCEPT
              !.defrag = new, !.hash = IF Accepts(d, m) THEN HashAfter(p, m) ELSE @]
        <4> HIDE DEF d
        <4> QED BY <1>4, <2>3 DEF CollectFragment, TypeOK
      <3> HIDE DEF new, d
      <3>2. responding[p] \in RespondingType
        BY PeerTypes
      <3> QED BY <3>1, <3>2 DEF RespondingType
    <2>6. new.total > 0 \/ new = d
      <3>1. AddFragment(d, m).total > 0
        <4>1. d.total \in Nat
          BY PeerTypes DEF DefragType
        <4> HIDE DEF d
        <4> QED BY <1>1, <4>1 DEF AddFragment
      <3>2. new = d \/ new = AddFragment(d, m)
        BY <2>4
      <3> HIDE DEF new, d
      <3> QED BY <1>1, <3>1, <3>2
    <2> HIDE DEF new, d
    <2>7. ~Ends(p)
      <3>1. d.total > 0 => new.total > 0
        BY <2>6
      <3>2. new.total > 0 => new.total # 0
        OBVIOUS
      <3> QED BY <2>5, <3>1, <3>2 DEF Ends, d
    <2> QED BY <1>2, <2>7 DEF Ends
  <1> QED BY <1>3, <1>4

\* A step that ends the reassembly of a request has processed it.
LEMMA EndsProcessed ==
    ASSUME TypeOK, AcksInv, Next, NEW q \in Peers, Ends(q)
    PROVE  responding'[q].mid = responding[q].mid + 1
  <1>0. responding[q] \in RespondingType /\ responding[q].defrag.total \in Nat
    BY PeerTypes DEF RespondingType, DefragType
  <1>1. responding'[q] # responding[q] /\ responding'[q].defrag # responding[q].defrag
    BY <1>0 DEF Ends
  <1>2. PICK p \in Peers, m \in net : ProcessMessage(p, m)
    BY <1>1 DEF Next, Initiate, RetransmitJob, HalfOpenTimeout, HeapAbort, window
  <1>3. ASSUME responding' = [responding EXCEPT ![p].hash = HashAfter(p, m)] PROVE FALSE
    BY <1>0, <1>1, <1>3 DEF TypeOK, RespondingType
  <1>4. ASSUME ProcessRequest(p, m) PROVE responding'[q].mid = responding[q].mid + 1
    <2>1. PICK packets : responding' = [responding EXCEPT ![p] = Responded(p, m, packets)]
      BY <1>4 DEF ProcessRequest
    <2>2. p = q
      BY <1>1, <2>1 DEF TypeOK
    <2> QED BY <1>0, <2>1, <2>2 DEF Responded, RespondingType, TypeOK
  <1>5. CASE ResendResponse(p, m) \/ UnexpectedId(p, m) \/ Dropped(p, m)
    BY <1>1, <1>5 DEF ResendResponse, UnexpectedId, Dropped, window
  <1>6. CASE CollectFragment(p, m)
    BY <1>6, CollectFragmentEndsNone
  <1>7. CASE \E ending \in Endings : CloseOnRequest(p, m, ending)
    BY <1>1, <1>7 DEF CloseOnRequest, window
  <1>8. CASE ProcessResponse(p, m)
    BY <1>3, <1>8 DEF ProcessResponse
  <1>9. CASE \E type \in Exchanges : InitiateNext(p, m, type)
    BY <1>3, <1>9 DEF InitiateNext
  <1>10. CASE CloseOnResponse(p, m)
    BY <1>3, <1>10 DEF CloseOnResponse
  <1> QED BY <1>2, <1>4, <1>5, <1>6, <1>7, <1>8, <1>9, <1>10 DEF ProcessMessage

\* When only the messages of the initial exchanges are fragmented, a request whose
\* fragments are complete is processed in the step that completes it (handle_fragment,
\* its test for a message processed before).  It ignores a fragmented request of an
\* established IKE_SA, whose message ID is the one expected.
THEOREM ReassembledIsProcessedCorrect ==
    ASSUME InitialFragments
    PROVE  Spec => ReassembledIsProcessed
  <1> DEFINE Done == \A p \in Peers :
                 responding[p].defrag.total > 0 /\ responding'[p].defrag.total = 0 =>
                     ~Alive(p)' \/ responding'[p].mid = responding[p].mid + 1
  <1>1. ASSUME TypeOK, AcksInv, Next PROVE Done
    BY <1>1, EndsProcessed DEF Ends
  <1>2. TypeOK /\ AcksInv /\ [Next]_vars => [Done]_vars
    BY <1>1
  <1> QED BY <1>2, TypeCorrect, AcksCorrect, PTL DEF Spec, ReassembledIsProcessed

-----------------------------------------------------------------------------
(* The initial exchanges.                                                  *)

Initials == {"IKE_SA_INIT", "IKE_INTERMEDIATE", "IKE_AUTH"}

\* The exchange with this message ID, of an initiator that is not done with them.
Phase(mid) ==
    IF mid = 0 THEN "IKE_SA_INIT"
    ELSE IF mid <= Additional THEN "IKE_INTERMEDIATE" ELSE "IKE_AUTH"

\* The responder went through all initial exchanges.
Ready == state[R] \notin {"CREATED", "CONNECTING"} /\ KeysAtParse(R) = Additional + 1

\* A packet fits the exchanges so far.
InPhase(m) ==
    /\ m.ack.is => m.req /\ m.mid = 0 /\ m.type = "INFORMATIONAL"
    /\ m.src = I /\ m.req /\ ~m.ack.is =>
          IF m.mid <= Additional + 1 THEN m.type = Phase(m.mid) ELSE m.type \notin Initials
    /\ m.src = R /\ m.type = "IKE_AUTH" => Ready
    /\ state[R] = "CREATED" => (m.src = R => m.total = 1) /\ (m.ack.is => m.src = R)
    /\ state[I] # "CREATED"

\* The keys of the initiator, and its exchange, follow its message ID.
InitiatorInPhase ==
    LET ini == initiating[I] IN
    /\ ~ke_pending[I]
    /\ state[I] = "CREATED" =>
          /\ ini.type = "UNDEFINED" /\ ini.mid = 0 /\ keys[I] = 0
          /\ state[R] # "ESTABLISHED"
    /\ state[I] = "CONNECTING" =>
          ini.mid <= Additional + 1 /\ ini.type = Phase(ini.mid) /\ keys[I] = ini.mid
    /\ state[I] = "ESTABLISHED" =>
          /\ ini.mid > Additional + 1 /\ ini.type \notin Initials
          /\ keys[I] = Additional + 1 /\ Ready

\* The keys of the responder follow the message ID it expects.
ResponderInPhase ==
    /\ initiating[R].type \notin Initials
    /\ state[R] = "CREATED" => responding[R].mid = 0 /\ KeysAtParse(R) = 0
    /\ state[R] = "CONNECTING" =>
          responding[R].mid \in 1..(Additional + 1) /\ KeysAtParse(R) = responding[R].mid
    /\ state[R] = "ESTABLISHED" => KeysAtParse(R) = Additional + 1

\* The inductive invariant, of an IKE_SA that starts with the initial exchanges.
PhaseInv == (\A m : Existing(m) => InPhase(m)) /\ InitiatorInPhase /\ ResponderInPhase

\* The message IDs the invariant compares are numbers.
LEMMA PhaseNumbers ==
    TypeOK => /\ initiating[I].mid \in Nat /\ responding[R].mid \in Nat
              /\ keys[I] \in Nat /\ KeysAtParse(I) \in Nat /\ KeysAtParse(R) \in Nat
              /\ Additional \in Nat /\ I \in Peers /\ R \in Peers /\ I # R
              /\ \A q \in Peers : q = I \/ q = R
  BY PeerTypes, Constants DEF Peers

\* parse_message() derives what it would derive again.
LEMMA DeriveStays ==
    ASSUME TypeOK, NEW p \in Peers, DeriveKeys(p)
    PROVE  \A q \in Peers : /\ KeysAtParse(q)' = KeysAtParse(q)
                            /\ ke_pending'[q] => ke_pending[q]
  <1> TAKE q \in Peers
  <1>1. CASE q = p
    <2>1. keys'[q] = KeysAtParse(q) /\ ke_pending'[q] = FALSE
      BY <1>1 DEF DeriveKeys, TypeOK
    <2> QED BY <2>1 DEF KeysAtParse
  <1>2. CASE q # p
    <2>1. keys'[q] = keys[q] /\ ke_pending'[q] = ke_pending[q]
      BY <1>2 DEF DeriveKeys, TypeOK
    <2> QED BY <2>1 DEF KeysAtParse
  <1> QED BY <1>1, <1>2

\* A step without progress in the initial exchanges.
Stands ==
    /\ initiating'[I].mid = initiating[I].mid /\ initiating'[I].type = initiating[I].type
    /\ initiating'[R].type = initiating[R].type \/ initiating'[R].type \notin Initials
    /\ \/ responding'[R].mid = responding[R].mid
       \/ state'[R] \notin {"CREATED", "CONNECTING"}
    /\ \A q \in Peers : /\ KeysAtParse(q)' = KeysAtParse(q)
                        /\ ke_pending'[q] => ke_pending[q]
                        /\ state'[q] = state[q] \/ ~Alive(q)'
    /\ \A x : Existing(x)' => Existing(x) \/ InPhase(x)'

\* Such a step keeps the invariant.
LEMMA StandsPhase ==
    ASSUME TypeOK, TypeOK', PhaseInv, Stands
    PROVE  PhaseInv'
  <1>1. /\ I \in Peers /\ R \in Peers
        /\ state'[I] = state[I] \/ ~Alive(I)'
        /\ state'[R] = state[R] \/ ~Alive(R)'
    BY PhaseNumbers DEF Stands
  <1>2. /\ state'[R] = "CREATED" => state[R] = "CREATED"
        /\ state'[R] = "CONNECTING" => state[R] = "CONNECTING"
        /\ state'[R] = "ESTABLISHED" => state[R] = "ESTABLISHED"
        /\ state'[I] = "CREATED" => state[I] = "CREATED"
        /\ state'[I] = "CONNECTING" => state[I] = "CONNECTING"
        /\ state'[I] = "ESTABLISHED" => state[I] = "ESTABLISHED"
    BY <1>1, PhaseNumbers DEF Stands, Alive
  <1>3. KeysAtParse(I)' = KeysAtParse(I) /\ KeysAtParse(R)' = KeysAtParse(R)
    BY <1>1 DEF Stands
  <1>4. Ready => Ready'
    BY <1>2, <1>3 DEF Ready
  <1>5. \A x : Existing(x)' => InPhase(x)'
    <2>1. ASSUME NEW x, InPhase(x) PROVE InPhase(x)'
      BY <1>2, <1>4, <2>1 DEF InPhase
    <2> QED BY <2>1 DEF Stands, PhaseInv
  <1>6. InitiatorInPhase'
    <2>1. ~ke_pending[I] /\ ~ke_pending'[I]
      BY <1>1 DEF PhaseInv, InitiatorInPhase, Stands
    <2>2. keys'[I] = keys[I]
      BY <1>3, <2>1 DEF KeysAtParse
    <2>3. initiating'[I].mid = initiating[I].mid /\ initiating'[I].type = initiating[I].type
      BY DEF Stands
    <2> QED BY <1>2, <1>4, <2>1, <2>2, <2>3 DEF PhaseInv, InitiatorInPhase
  <1>7. ResponderInPhase'
    <2>1. initiating'[R].type \notin Initials
      BY DEF Stands, PhaseInv, ResponderInPhase
    <2>2. \/ responding'[R].mid = responding[R].mid
          \/ state'[R] \notin {"CREATED", "CONNECTING"}
      BY DEF Stands
    <2> QED BY <1>2, <1>3, <2>1, <2>2 DEF PhaseInv, ResponderInPhase
  <1> QED BY <1>5, <1>6, <1>7 DEF PhaseInv

\* An initiator that receives something has left its first state.
LEMMA Received ==
    ASSUME PhaseInv, NEW m \in net
    PROVE  InPhase(m) /\ state[I] # "CREATED"
  BY DEF PhaseInv, Existing, InPhase

\* The acknowledgment of a fragment fits.
LEMMA AcksInPhase ==
    ASSUME TypeOK, PhaseInv, NEW p \in Peers, NEW m \in net, m.src = Other(p),
           NEW x \in AcksFor(p, m),
           state'[R] = "CREATED" => state[R] = "CREATED",
           state'[I] = "CREATED" => state[I] = "CREATED"
    PROVE  InPhase(x)'
  <1>1. InPhase(m) /\ state[I] # "CREATED"
    BY Received
  <1>2. /\ x.src = p /\ x.ack.is /\ x.req /\ x.mid = 0 /\ x.type = "INFORMATIONAL"
        /\ x.total = 1 /\ m.total > 1
    BY DEF AcksFor, AckPacket, FragmentAck
  <1>3. state[R] = "CREATED" => p = R
    <2>1. m.total # 1
      BY <1>2
    <2> QED BY <1>1, <2>1, PhaseNumbers DEF InPhase, Other
  <1> QED BY <1>1, <1>2, <1>3 DEF InPhase

\* A peer that sends a response has sent nothing that does not fit.
LEMMA ResponsesInPhase ==
    ASSUME NEW p \in Peers, NEW x, x.src = p, ~x.req, ~x.ack.is,
           p = R => x.type # "IKE_AUTH" \/ Ready',
           p = R => state'[R] # "CREATED", state'[I] # "CREATED"
    PROVE  InPhase(x)'
  BY DEF InPhase

\* retransmit() sends stored packets.
LEMMA RetransmitJobPhase ==
    ASSUME TypeOK, TypeOK', PhaseInv, NEW p \in Peers, NEW mid, RetransmitJob(p, mid)
    PROVE  PhaseInv'
  <1>1. initiating[p] \in InitiatingType
    BY PeerTypes
  <1>2. Retransmit(p, Effective(p, mid), initiating[p], tracker[p], peer_supports[p],
                   jobs[p] (-) SetToBag({mid}), {})
    BY DEF RetransmitJob
  <1>3. /\ initiating'[p].mid = initiating[p].mid /\ initiating'[p].type = initiating[p].type
        /\ initiating'[p].packets = initiating[p].packets
        /\ \A q \in Peers \ {p} : initiating'[q] = initiating[q]
        /\ net' \subseteq net \cup {} \cup initiating[p].packets \cup tracker[p].packets
    BY <1>1, <1>2, RetransmitSends
  <1>4. UNCHANGED <<responding, tracker, keys, ke_pending>>
    BY DEF RetransmitJob
  <1>5. \A x : Existing(x)' => Existing(x)
    BY <1>3, <1>4 DEF Existing
  <1>6. \A q \in Peers : state'[q] = state[q] \/ ~Alive(q)'
    BY DEF RetransmitJob, Destroyed, Alive, TypeOK
  <1>7. Stands
    BY <1>3, <1>4, <1>5, <1>6, PhaseNumbers DEF Stands, KeysAtParse
  <1> QED BY <1>7, StandsPhase

\* A message that is ignored, though keys are derived.
LEMMA IgnoredPhase ==
    ASSUME TypeOK, TypeOK', PhaseInv, NEW p \in Peers, NEW m \in net,
           ResendResponse(p, m) \/ UnexpectedId(p, m) \/ Dropped(p, m)
    PROVE  PhaseInv'
  <1>1. UNCHANGED <<initiating, responding, state>>
    BY DEF ResendResponse, UnexpectedId, Dropped, window
  <1>2. net' \subseteq net \cup responding[p].packets
    BY DEF ResendResponse, UnexpectedId, Dropped
  <1>3. \A q \in Peers : tracker'[q].packets = tracker[q].packets
    <2>1. CASE ResendResponse(p, m) \/ Dropped(p, m)
      BY <2>1 DEF ResendResponse, Dropped
    <2>2. CASE UnexpectedId(p, m)
      <3>1. tracker' = [tracker EXCEPT ![p] = IF Readable(p, m) THEN AckedTracker(p, m) ELSE @]
        BY <2>2 DEF UnexpectedId
      <3> QED BY <3>1, TrackerPackets DEF TypeOK
    <2> QED BY <2>1, <2>2
  <1>4. \A x : Existing(x)' => Existing(x)
    BY <1>1, <1>2, <1>3 DEF Existing
  <1>5. \A q \in Peers : /\ KeysAtParse(q)' = KeysAtParse(q)
                         /\ ke_pending'[q] => ke_pending[q]
    <2>1. CASE ResendResponse(p, m)
      BY <2>1 DEF ResendResponse, KeysAtParse
    <2>2. CASE UnexpectedId(p, m) \/ Dropped(p, m)
      BY <2>2, DeriveStays DEF UnexpectedId, Dropped
    <2> QED BY <2>1, <2>2
  <1>6. Stands
    BY <1>1, <1>4, <1>5, PhaseNumbers DEF Stands
  <1> QED BY <1>6, StandsPhase

\* The end of an IKE_SA, or nothing at all.
LEMMA EndsPhase ==
    ASSUME TypeOK, TypeOK', PhaseInv,
           (\E p \in Peers : HalfOpenTimeout(p) \/ HeapAbort(p)) \/ UNCHANGED vars
    PROVE  PhaseInv'
  <1>1. UNCHANGED <<initiating, responding, tracker, net, keys, ke_pending>>
    BY DEF HalfOpenTimeout, HeapAbort, window, vars
  <1>2. \A q \in Peers : state'[q] = state[q] \/ ~Alive(q)'
    BY DEF HalfOpenTimeout, HeapAbort, vars, Destroyed, Alive, TypeOK
  <1>3. \A x : Existing(x)' => Existing(x)
    BY <1>1 DEF Existing
  <1>4. Stands
    BY <1>1, <1>2, <1>3, PhaseNumbers DEF Stands, KeysAtParse
  <1> QED BY <1>4, StandsPhase

\* A fragment is collected and acknowledged.
LEMMA CollectFragmentPhase ==
    ASSUME TypeOK, TypeOK', PhaseInv, NEW p \in Peers, NEW m \in net, m.src = Other(p),
           CollectFragment(p, m)
    PROVE  PhaseInv'
  <1>1. /\ net' = net \cup AcksFor(p, m) /\ DeriveKeys(p) /\ UNCHANGED <<state, tracker>>
    BY DEF CollectFragment
  <1>2. \A q \in Peers : /\ initiating'[q].mid = initiating[q].mid
                         /\ initiating'[q].type = initiating[q].type
                         /\ initiating'[q].packets = initiating[q].packets
    BY DEF CollectFragment, TypeOK, InitiatingType
  <1>3. \A q \in Peers : /\ responding'[q].mid = responding[q].mid
                         /\ responding'[q].packets = responding[q].packets
    BY DEF CollectFragment, TypeOK, RespondingType
  <1>4. \A x \in AcksFor(p, m) : InPhase(x)'
    BY <1>1, AcksInPhase
  <1>5. \A x : Existing(x)' => Existing(x) \/ InPhase(x)'
    BY <1>1, <1>2, <1>3, <1>4 DEF Existing
  <1>6. \A q \in Peers : /\ KeysAtParse(q)' = KeysAtParse(q)
                         /\ ke_pending'[q] => ke_pending[q]
    BY <1>1, DeriveStays
  <1>7. Stands
    BY <1>1, <1>2, <1>3, <1>5, <1>6, PhaseNumbers DEF Stands
  <1> QED BY <1>7, StandsPhase

\* A response that ends the IKE_SA.
LEMMA CloseOnResponsePhase ==
    ASSUME TypeOK, TypeOK', PhaseInv, NEW p \in Peers, NEW m \in net, m.src = Other(p),
           CloseOnResponse(p, m)
    PROVE  PhaseInv'
  <1>1. /\ net' = net \cup AcksFor(p, m) /\ DeriveKeys(p)
        /\ UNCHANGED <<initiating, tracker>>
    BY DEF CloseOnResponse
  <1>2. \A q \in Peers : /\ responding'[q].mid = responding[q].mid
                         /\ responding'[q].packets = responding[q].packets
    BY DEF CloseOnResponse, TypeOK, RespondingType
  <1>3. \A q \in Peers : state'[q] = state[q] \/ ~Alive(q)'
    BY DEF CloseOnResponse, Destroyed, Alive, TypeOK
  <1>4. \A x \in AcksFor(p, m) : InPhase(x)'
    BY <1>3, AcksInPhase, PhaseNumbers DEF Alive
  <1>5. \A x : Existing(x)' => Existing(x) \/ InPhase(x)'
    BY <1>1, <1>2, <1>4 DEF Existing
  <1>6. \A q \in Peers : /\ KeysAtParse(q)' = KeysAtParse(q)
                         /\ ke_pending'[q] => ke_pending[q]
    BY <1>1, DeriveStays
  <1>7. Stands
    BY <1>1, <1>2, <1>3, <1>5, <1>6, PhaseNumbers DEF Stands
  <1> QED BY <1>7, StandsPhase

\* A request the responder processes in the initial exchanges is the one of their phase.
LEMMA RequestInPhase ==
    ASSUME TypeOK, PhaseInv, NEW m \in net, m.src = I, m.req, Arrives(R, m),
           state[R] \in {"CREATED", "CONNECTING"}
    PROVE  /\ m.type = Phase(responding[R].mid) /\ responding[R].mid <= Additional + 1
           /\ KeysAtParse(R) = responding[R].mid
  <1>1. InPhase(m) /\ m.mid = responding[R].mid
    BY Received DEF Arrives, Expected
  <1>2. /\ state[R] = "CREATED" => responding[R].mid = 0 /\ KeysAtParse(R) = 0
        /\ state[R] = "CONNECTING" =>
              responding[R].mid \in 1..(Additional + 1) /\ KeysAtParse(R) = responding[R].mid
    BY DEF PhaseInv, ResponderInPhase
  <1>3. ~m.ack.is
    <2>1. CASE state[R] = "CREATED"
      BY <1>1, <2>1, PhaseNumbers DEF InPhase
    <2>2. CASE state[R] = "CONNECTING"
      BY <1>1, <1>2, <2>2, PhaseNumbers DEF InPhase
    <2> QED BY <2>1, <2>2
  <1>4. responding[R].mid <= Additional + 1
    BY <1>2, PhaseNumbers
  <1>5. m.type = Phase(m.mid)
    BY <1>1, <1>3, <1>4 DEF InPhase
  <1> QED BY <1>1, <1>2, <1>4, <1>5

\* A request outside the initial exchanges is none of them.
LEMMA RequestNotInitial ==
    ASSUME TypeOK, PhaseInv, NEW p \in Peers, Alive(p), NEW m \in net, m.src = Other(p),
           m.req, Arrives(p, m), p = I \/ state[p] = "ESTABLISHED"
    PROVE  m.type \notin Initials
  <1>1. InPhase(m) /\ state[I] # "CREATED"
    BY Received
  <1>2. CASE state[p] = "ESTABLISHED"
    BY <1>2 DEF Arrives, RejectRequest, Initials
  <1>3. CASE state[p] # "ESTABLISHED"
    <2>1. p = I /\ state[p] \in {"CREATED", "CONNECTING"}
      BY <1>3 DEF Alive
    <2>2. m.ack.is
      BY <2>1 DEF Arrives, RejectRequest
    <2> QED BY <1>1, <2>2 DEF InPhase, Initials
  <1> QED BY <1>2, <1>3

\* What process_request() sends, and the keys it leaves.
LEMMA ProcessRequestSends ==
    ASSUME TypeOK, NEW p \in Peers, NEW m \in net, ProcessRequest(p, m)
    PROVE  /\ \A x : Existing(x)' => \/ Existing(x) \/ x \in AcksFor(p, m)
                                     \/ x.src = p /\ ~x.req /\ ~x.ack.is /\ x.type = m.type
           /\ \A q \in Peers \ {p} : /\ KeysAtParse(q)' = KeysAtParse(q)
                                     /\ ke_pending'[q] = ke_pending[q]
                                     /\ responding'[q] = responding[q] /\ state'[q] = state[q]
           /\ responding'[p].mid = responding[p].mid + 1 /\ initiating' = initiating
           /\ ke_pending'[p] = (m.type \in {"IKE_SA_INIT", "IKE_INTERMEDIATE"})
           /\ keys'[p] = KeysAtParse(p)
           /\ state'[p] = IF m.type = "IKE_SA_INIT" THEN "CONNECTING"
                          ELSE IF m.type = "IKE_AUTH" THEN "ESTABLISHED" ELSE state[p]
  <1> DEFINE mid == responding[p].mid
             packets == Packets(p, FALSE, mid, m.type, RespFrags[m.type], KeysAtParse(p))
             t == TrackerAfter(p, AckedTracker(p, m), mid, packets)
  <1>1. \A x \in packets : x.src = p /\ ~x.req /\ ~x.ack.is /\ x.type = m.type
    BY DEF Packets, NoAck
  <1>2. /\ responding' = [responding EXCEPT ![p] = Responded(p, m, packets)]
        /\ tracker' = [tracker EXCEPT ![p] = t]
        /\ net' = net \cup AcksFor(p, m) \cup packets /\ initiating' = initiating
    BY DEF ProcessRequest
  <1>3. t.packets \subseteq tracker[p].packets \cup packets
    BY TrackerPackets DEF TrackerAfter, NewTracker
  <1>4. Responded(p, m, packets).packets = packets /\ Responded(p, m, packets).mid = mid + 1
    BY PeerTypes DEF Responded, RespondingType
  <1> HIDE DEF packets, t
  <1>5. /\ responding'[p].packets = packets /\ responding'[p].mid = mid + 1 /\ tracker'[p] = t
        /\ \A q \in Peers \ {p} : responding'[q] = responding[q] /\ tracker'[q] = tracker[q]
    BY <1>2, <1>4 DEF TypeOK
  <1>6. \A x : Existing(x)' => Existing(x) \/ x \in AcksFor(p, m) \/ x \in packets
    BY <1>2, <1>3, <1>5 DEF Existing
  <1>7. /\ ke_pending'[p] = (m.type \in {"IKE_SA_INIT", "IKE_INTERMEDIATE"})
        /\ keys'[p] = KeysAtParse(p)
        /\ \A q \in Peers \ {p} : keys'[q] = keys[q] /\ ke_pending'[q] = ke_pending[q]
    BY DEF ProcessRequest, TypeOK
  <1>8. /\ state'[p] = IF m.type = "IKE_SA_INIT" THEN "CONNECTING"
                       ELSE IF m.type = "IKE_AUTH" THEN "ESTABLISHED" ELSE state[p]
        /\ \A q \in Peers \ {p} : state'[q] = state[q]
    <2>1. state' = RespondingState(p, m)
      BY DEF ProcessRequest
    <2>2. CASE m.type = "IKE_SA_INIT"
      BY <2>1, <2>2 DEF RespondingState, TypeOK
    <2>3. CASE m.type = "IKE_AUTH"
      BY <2>1, <2>3 DEF RespondingState, TypeOK
    <2>4. CASE m.type \notin {"IKE_SA_INIT", "IKE_AUTH"}
      BY <2>1, <2>4 DEF RespondingState, TypeOK
    <2> QED BY <2>2, <2>3, <2>4
  <1>9. \A q \in Peers \ {p} : KeysAtParse(q)' = KeysAtParse(q)
    BY <1>7 DEF KeysAtParse
  <1> QED BY <1>1, <1>2, <1>5, <1>6, <1>7, <1>8, <1>9

\* A request outside the initial exchanges changes nothing about them.
LEMMA LaterRequestPhase ==
    ASSUME TypeOK, TypeOK', PhaseInv, NEW p \in Peers, Alive(p), NEW m \in net,
           m.src = Other(p), ProcessRequest(p, m), p = I \/ state[p] = "ESTABLISHED"
    PROVE  PhaseInv'
  <1>1. m.type \notin Initials
    BY RequestNotInitial DEF ProcessRequest
  <1>2. /\ keys'[p] = KeysAtParse(p) /\ state'[p] = state[p] /\ ~ke_pending'[p]
        /\ \A q \in Peers \ {p} : /\ KeysAtParse(q)' = KeysAtParse(q)
                                  /\ ke_pending'[q] = ke_pending[q]
                                  /\ responding'[q] = responding[q] /\ state'[q] = state[q]
        /\ initiating' = initiating
    BY <1>1, ProcessRequestSends DEF Initials
  <1>3. KeysAtParse(p)' = KeysAtParse(p)
    BY <1>2 DEF KeysAtParse
  <1>4. \A q \in Peers : state'[q] = state[q]
    BY <1>2
  <1>5. \A x \in AcksFor(p, m) : InPhase(x)'
    BY <1>4, AcksInPhase, PhaseNumbers
  <1>6. ASSUME NEW x, x.src = p, ~x.req, ~x.ack.is, x.type = m.type PROVE InPhase(x)'
    <2>1. /\ x.type # "IKE_AUTH" /\ state'[I] # "CREATED"
          /\ p = R => state'[R] # "CREATED"
      BY <1>1, <1>4, <1>6, Received, PhaseNumbers DEF Initials
    <2> QED BY <1>6, <2>1, ResponsesInPhase
  <1>7. \A x : Existing(x)' => Existing(x) \/ InPhase(x)'
    BY <1>5, <1>6, ProcessRequestSends
  <1>8. responding'[R].mid = responding[R].mid \/ state'[R] \notin {"CREATED", "CONNECTING"}
    BY <1>2, <1>4, PhaseNumbers
  <1>9. Stands
    BY <1>2, <1>3, <1>4, <1>7, <1>8, PhaseNumbers DEF Stands
  <1> QED BY <1>9, StandsPhase

\* A request of the initial exchanges takes the responder one exchange further.
LEMMA InitialRequestPhase ==
    ASSUME TypeOK, TypeOK', PhaseInv, NEW m \in net, m.src = Other(R), ProcessRequest(R, m),
           state[R] \in {"CREATED", "CONNECTING"}
    PROVE  PhaseInv'
  <1> DEFINE k == responding[R].mid
  <1>1. /\ k \in Nat /\ Additional \in Nat /\ I \in Peers \ {R} /\ R \in Peers /\ m.src = I
    BY PhaseNumbers DEF Other
  <1>2. m.req /\ Arrives(R, m)
    BY DEF ProcessRequest
  <1>3. m.type = Phase(k) /\ k <= Additional + 1 /\ KeysAtParse(R) = k
    BY <1>1, <1>2, RequestInPhase
  <1>4. /\ ke_pending'[I] = ke_pending[I] /\ state'[I] = state[I]
        /\ KeysAtParse(I)' = KeysAtParse(I)
        /\ responding'[R].mid = k + 1 /\ initiating' = initiating
        /\ ke_pending'[R] = (m.type \in {"IKE_SA_INIT", "IKE_INTERMEDIATE"})
        /\ keys'[R] = k
        /\ state'[R] = IF m.type = "IKE_SA_INIT" THEN "CONNECTING"
                       ELSE IF m.type = "IKE_AUTH" THEN "ESTABLISHED" ELSE state[R]
    BY <1>1, <1>3, ProcessRequestSends
  <1> HIDE DEF k
  <1>5. \/ /\ k <= Additional /\ state'[R] = "CONNECTING" /\ KeysAtParse(R)' = k + 1
           /\ m.type # "IKE_AUTH"
        \/ k = Additional + 1 /\ state'[R] = "ESTABLISHED" /\ KeysAtParse(R)' = k
    <2>1. CASE k = 0
      <3>1. m.type = "IKE_SA_INIT"
        BY <1>3, <2>1 DEF Phase
      <3>2. state'[R] = "CONNECTING" /\ ke_pending'[R] /\ keys'[R] = k
        BY <1>4, <3>1
      <3>3. KeysAtParse(R)' = k + 1
        BY <3>2 DEF KeysAtParse
      <3>4. k <= Additional
        BY <1>1, <2>1
      <3> QED BY <3>1, <3>2, <3>3, <3>4
    <2>2. CASE k # 0 /\ k <= Additional
      <3>1. m.type = "IKE_INTERMEDIATE"
        BY <1>3, <2>2 DEF Phase
      <3>2. state[R] = "CONNECTING"
        BY <1>2, <3>1 DEF Arrives, RejectRequest
      <3> QED BY <1>4, <2>2, <3>1, <3>2 DEF KeysAtParse
    <2>3. CASE k = Additional + 1
      <3>1. m.type = "IKE_AUTH"
        BY <1>1, <1>3, <2>3 DEF Phase
      <3> QED BY <1>4, <2>3, <3>1 DEF KeysAtParse
    <2> QED BY <1>1, <1>3, <2>1, <2>2, <2>3
  <1>6. ~Ready /\ state[I] # "CREATED" /\ state[I] # "ESTABLISHED"
    BY Received DEF Ready, PhaseInv, InitiatorInPhase
  <1>7. ResponderInPhase'
    <2>1. initiating'[R].type \notin Initials
      BY <1>4 DEF PhaseInv, ResponderInPhase
    <2>2. CASE k <= Additional /\ state'[R] = "CONNECTING" /\ KeysAtParse(R)' = k + 1
      <3>1. k + 1 \in 1..(Additional + 1)
        BY <1>1, <2>2
      <3> QED BY <1>4, <2>1, <2>2, <3>1 DEF ResponderInPhase
    <2>3. CASE k = Additional + 1 /\ state'[R] = "ESTABLISHED" /\ KeysAtParse(R)' = k
      BY <2>1, <2>3 DEF ResponderInPhase
    <2> QED BY <1>5, <2>2, <2>3
  <1>8. InitiatorInPhase'
    <2>1. ~ke_pending[I] /\ ~ke_pending'[I]
      BY <1>4 DEF PhaseInv, InitiatorInPhase
    <2>2. keys'[I] = keys[I]
      BY <1>4, <2>1 DEF KeysAtParse
    <2> QED BY <1>4, <1>6, <2>1, <2>2 DEF PhaseInv, InitiatorInPhase
  <1>9. ASSUME NEW x, Existing(x)' PROVE InPhase(x)'
    <2>1. state'[R] # "CREATED" /\ state'[I] # "CREATED"
      BY <1>4, <1>5, <1>6
    <2>2. CASE Existing(x)
      <3>1. InPhase(x)
        BY <2>2 DEF PhaseInv
      <3> QED BY <1>6, <2>1, <3>1 DEF InPhase
    <2>3. CASE x \in AcksFor(R, m)
      BY <1>1, <2>1, <2>3, AcksInPhase
    <2>4. CASE x.src = R /\ ~x.req /\ ~x.ack.is /\ x.type = m.type
      <3>1. x.type = "IKE_AUTH" => Ready'
        BY <1>5, <2>4 DEF Ready
      <3> QED BY <1>1, <2>1, <2>4, <3>1, ResponsesInPhase
    <2> QED BY <1>1, <1>9, <2>2, <2>3, <2>4, ProcessRequestSends
  <1> QED BY <1>7, <1>8, <1>9 DEF PhaseInv

\* process_request() and build_response().
LEMMA ProcessRequestPhase ==
    ASSUME TypeOK, TypeOK', PhaseInv, NEW p \in Peers, Alive(p), NEW m \in net,
           m.src = Other(p), ProcessRequest(p, m)
    PROVE  PhaseInv'
  <1>1. CASE p = I \/ state[p] = "ESTABLISHED"
    BY <1>1, LaterRequestPhase
  <1>2. CASE p # I /\ state[p] # "ESTABLISHED"
    <2>1. p = R /\ state[R] \in {"CREATED", "CONNECTING"}
      BY <1>2, PhaseNumbers DEF Alive
    <2> QED BY <2>1, InitialRequestPhase
  <1> QED BY <1>1, <1>2

\* A request that ends the IKE_SA, perhaps with an IKE_AUTH response.
LEMMA CloseOnRequestPhase ==
    ASSUME TypeOK, TypeOK', PhaseInv, NEW p \in Peers, Alive(p), NEW m \in net,
           m.src = Other(p), NEW ending, CloseOnRequest(p, m, ending)
    PROVE  PhaseInv'
  <1> DEFINE mid == responding[p].mid
             response == Packets(p, FALSE, mid, m.type, RespFrags[m.type], KeysAtParse(p))
             packets == IF ending = "reject" THEN {} ELSE response
             t == TrackerAfter(p, AckedTracker(p, m), mid, packets)
  <1>1. \A x \in packets : x.src = p /\ ~x.req /\ ~x.ack.is /\ x.type = m.type
    BY DEF Packets, NoAck
  <1>2. /\ tracker' = [tracker EXCEPT ![p] = t] /\ m.req /\ Arrives(p, m)
        /\ net' = net \cup AcksFor(p, m) \cup packets
        /\ UNCHANGED <<initiating, responding>> /\ DeriveKeys(p)
    BY DEF CloseOnRequest, window
  <1>3. t.packets \subseteq tracker[p].packets \cup packets
    BY TrackerPackets DEF TrackerAfter, NewTracker
  <1> HIDE DEF packets, t
  <1>4. \A x : Existing(x)' => Existing(x) \/ x \in AcksFor(p, m) \/ x \in packets
    <2>1. tracker'[p] = t /\ \A q \in Peers \ {p} : tracker'[q] = tracker[q]
      BY <1>2 DEF TypeOK
    <2> QED BY <1>2, <1>3, <2>1 DEF Existing
  <1>5. /\ ~Alive(p)' /\ \A q \in Peers \ {p} : state'[q] = state[q]
    BY DEF CloseOnRequest, Destroyed, Alive, TypeOK
  <1>6. \A q \in Peers : /\ KeysAtParse(q)' = KeysAtParse(q)
                         /\ ke_pending'[q] => ke_pending[q]
    BY <1>2, DeriveStays
  <1>7. /\ state'[R] = "CREATED" => state[R] = "CREATED" /\ p # R
        /\ state'[I] = "CREATED" => state[I] = "CREATED"
    BY <1>5, PhaseNumbers DEF Alive
  <1>8. \A x \in AcksFor(p, m) : InPhase(x)'
    BY <1>7, AcksInPhase
  <1>9. ASSUME NEW x \in packets PROVE InPhase(x)'
    <2>1. ASSUME p = R, m.type = "IKE_AUTH" PROVE Ready'
      <3>1. state[R] # "ESTABLISHED"
        BY <1>2, <2>1 DEF Arrives, RejectRequest
      <3>2. state[R] \in {"CREATED", "CONNECTING"} /\ m.src = I
        BY <2>1, <3>1, PhaseNumbers DEF Alive, Other
      <3>3. m.type = Phase(responding[R].mid) /\ KeysAtParse(R) = responding[R].mid
            /\ responding[R].mid <= Additional + 1
        BY <1>2, <2>1, <3>2, RequestInPhase
      <3>4. responding[R].mid = Additional + 1
        BY <2>1, <3>3, PhaseNumbers DEF Phase
      <3>5. KeysAtParse(R)' = Additional + 1
        BY <1>6, <3>3, <3>4, PhaseNumbers
      <3> QED BY <1>5, <2>1, <3>5 DEF Ready, Alive
    <2>2. state'[I] # "CREATED"
      BY <1>7, Received
    <2> QED BY <1>1, <1>7, <2>1, <2>2, ResponsesInPhase
  <1>10. Stands
    BY <1>2, <1>4, <1>5, <1>6, <1>8, <1>9, PhaseNumbers DEF Stands
  <1> QED BY <1>10, StandsPhase

\* A new request fits when its exchange is the one of its message ID.
RequestFits(p, mid, type) ==
    /\ p = I => IF mid <= Additional + 1 THEN type = Phase(mid) ELSE type \notin Initials
    /\ p = R => type # "IKE_AUTH" /\ state'[R] # "CREATED"
    /\ state'[I] # "CREATED"

\* What initiate() sends fits then.
LEMMA StartsInPhase ==
    ASSUME TypeOK, NEW p \in Peers, NEW mid \in Nat, NEW type \in Exchanges, NEW d,
           NEW old, NEW acks, Starts(p, mid, type, d, old, acks), RequestFits(p, mid, type),
           \A x \in acks : InPhase(x)', \A x \in old : Existing(x),
           \A q \in Peers : responding'[q].packets = responding[q].packets
    PROVE  \A x : Existing(x)' => Existing(x) \/ InPhase(x)'
  <1>1. PICK new :
          /\ \A x \in new : OfMessage(x, p, TRUE, mid, ReqFrags[type]) /\ x.type = type
          /\ initiating'[p].packets = old \cup new
          /\ tracker'[p].packets \subseteq tracker[p].packets \cup new
          /\ net' \subseteq net \cup acks \cup old \cup tracker[p].packets \cup new
    BY DEF Starts
  <1>2. \A q \in Peers \ {p} : initiating'[q] = initiating[q] /\ tracker'[q] = tracker[q]
    BY DEF Starts
  <1>3. \A x : Existing(x)' => Existing(x) \/ x \in acks \/ x \in new
    BY <1>1, <1>2 DEF Existing
  <1>4. ASSUME NEW x \in new PROVE InPhase(x)'
    <2>1. x.src = p /\ x.mid = mid /\ ~x.ack.is /\ x.type = type
      BY <1>1 DEF OfMessage
    <2>2. I # R
      BY PhaseNumbers
    <2> QED BY <2>1, <2>2 DEF InPhase, RequestFits
  <1> QED BY <1>3, <1>4

\* A step of the initiator that leaves the responder alone.
LEMMA InitiatorSteps ==
    ASSUME TypeOK, PhaseInv, InitiatorInPhase', state'[I] # "CREATED",
           state'[R] = state[R], KeysAtParse(R)' = KeysAtParse(R),
           responding'[R].mid = responding[R].mid, initiating'[R] = initiating[R],
           \A x : Existing(x)' => Existing(x) \/ InPhase(x)'
    PROVE  PhaseInv'
  <1>1. Ready' <=> Ready
    BY DEF Ready
  <1>2. \A x : InPhase(x) => InPhase(x)'
    BY <1>1 DEF InPhase
  <1>3. ResponderInPhase'
    BY DEF PhaseInv, ResponderInPhase
  <1> QED BY <1>2, <1>3 DEF PhaseInv

\* initiate() with an idle window.
LEMMA InitiatePhase ==
    ASSUME TypeOK, TypeOK', PhaseInv, NEW p \in Peers, NEW type \in Exchanges,
           Initiate(p, type)
    PROVE  PhaseInv'
  <1>0. PICK none : none = {}
    OBVIOUS
  <1> DEFINE ini == initiating[p]
  <1>1. /\ ini \in InitiatingType /\ keys[p] \in Nat /\ ini.mid \in Nat
        /\ StartExchange(p, type, ini, keys[p], peer_supports[p], none)
    BY <1>0, PeerTypes DEF Initiate
  <1>2. Starts(p, ini.mid, type, ini.defrag, ini.packets, none)
    BY <1>1, StartExchangeSends
  <1>3. \/ /\ state[p] = "CREATED" /\ p = I /\ type = "IKE_SA_INIT"
           /\ state' = [state EXCEPT ![p] = "CONNECTING"]
        \/ /\ state[p] = "ESTABLISHED" /\ type \in {"CREATE_CHILD_SA", "INFORMATIONAL"}
           /\ state' = state
    BY DEF Initiate
  <1>4. UNCHANGED <<responding, keys, ke_pending>>
    BY DEF Initiate
  <1>5. /\ initiating'[p].mid = ini.mid /\ initiating'[p].type = type
        /\ \A q \in Peers \ {p} : initiating'[q] = initiating[q]
    BY <1>2 DEF Starts
  <1>6. RequestFits(p, ini.mid, type)
    <2>1. CASE state[p] = "CREATED" /\ p = I /\ type = "IKE_SA_INIT"
      <3>1. ini.mid = 0
        BY <2>1 DEF PhaseInv, InitiatorInPhase
      <3>2. type = Phase(ini.mid) /\ 0 <= Additional + 1
        BY <2>1, <3>1, PhaseNumbers DEF Phase
      <3>3. state'[I] = "CONNECTING"
        BY <1>3, <2>1 DEF TypeOK
      <3> QED BY <2>1, <3>1, <3>2, <3>3, PhaseNumbers DEF RequestFits
    <2>2. CASE state[p] = "ESTABLISHED" /\ type \in {"CREATE_CHILD_SA", "INFORMATIONAL"}
      <3>1. p = I => ~(ini.mid <= Additional + 1)
        BY <1>1, <2>2, PhaseNumbers DEF PhaseInv, InitiatorInPhase
      <3>2. state' = state /\ type \notin Initials
        BY <1>3, <2>2 DEF Initials
      <3>3. state[I] # "CREATED"
        BY <2>2, PhaseNumbers DEF PhaseInv, InitiatorInPhase
      <3> QED BY <2>2, <3>1, <3>2, <3>3 DEF RequestFits, Initials
    <2> QED BY <1>3, <2>1, <2>2
  <1>7. \A x : Existing(x)' => Existing(x) \/ InPhase(x)'
    <2>1. \A x \in ini.packets : Existing(x)
      BY DEF Existing
    <2> HIDE DEF ini
    <2> QED BY <1>0, <1>1, <1>2, <1>4, <1>6, <2>1, StartsInPhase
  <1>8. \A q \in Peers : KeysAtParse(q)' = KeysAtParse(q)
    BY <1>4 DEF KeysAtParse
  <1>9. CASE p = I
    <2>1. /\ state'[R] = state[R] /\ state'[I] # "CREATED" /\ initiating'[R] = initiating[R]
          /\ responding'[R].mid = responding[R].mid /\ KeysAtParse(R)' = KeysAtParse(R)
      BY <1>3, <1>4, <1>5, <1>6, <1>8, <1>9, PhaseNumbers DEF TypeOK, RequestFits
    <2>2. CASE state[I] = "CREATED"
      <3>1. ini.mid = 0 /\ keys'[I] = 0 /\ ~ke_pending'[I] /\ type = "IKE_SA_INIT"
        BY <1>3, <1>4, <1>9, <2>2 DEF PhaseInv, InitiatorInPhase
      <3>2. state'[I] = "CONNECTING"
        BY <1>3, <1>9, <2>2 DEF TypeOK
      <3>3. type = Phase(0) /\ 0 <= Additional + 1
        BY <3>1, PhaseNumbers DEF Phase
      <3>4. InitiatorInPhase'
        BY <1>5, <1>9, <3>1, <3>2, <3>3 DEF InitiatorInPhase
      <3> QED BY <1>7, <2>1, <3>4, InitiatorSteps
    <2>3. CASE state[I] = "ESTABLISHED"
      <3>1. state' = state /\ type \notin Initials
        BY <1>3, <1>9, <2>3 DEF Initials
      <3>2. /\ ini.mid > Additional + 1 /\ keys'[I] = Additional + 1 /\ ~ke_pending'[I] /\ Ready
        BY <1>4, <1>9, <2>3 DEF PhaseInv, InitiatorInPhase
      <3>3. Ready'
        BY <2>1, <3>2 DEF Ready
      <3>4. InitiatorInPhase'
        BY <1>5, <1>9, <2>3, <3>1, <3>2, <3>3 DEF InitiatorInPhase
      <3> QED BY <1>7, <2>1, <3>4, InitiatorSteps
    <2> QED BY <1>3, <1>9, <2>2, <2>3
  <1>10. CASE p # I
    <2>1. p = R /\ I \in Peers \ {p} /\ state' = state /\ type \notin Initials
      BY <1>3, <1>10, PhaseNumbers DEF Initials
    <2>2. Stands
      BY <1>4, <1>5, <1>7, <1>8, <2>1 DEF Stands
    <2> QED BY <2>2, StandsPhase
  <1> QED BY <1>9, <1>10

\* A response takes the initiator on in the initial exchanges, or comes after them.
LEMMA ResponseAdvances ==
    ASSUME TypeOK, PhaseInv, Alive(I), NEW m \in net, m.src = Other(I), ~m.req,
           Arrives(I, m), TypeMatches(I, m)
    PROVE  /\ m.mid = initiating[I].mid /\ KeysAtParse(I) = keys[I]
           /\ \/ /\ Continues(I) /\ initiating[I].mid <= Additional
                 /\ StateAfter(I, m) = state /\ state[I] = "CONNECTING"
                 /\ keys[I] = initiating[I].mid
              \/ /\ ~Continues(I) /\ initiating[I].mid >= Additional + 1 /\ Ready
                 /\ StateAfter(I, m)[I] = "ESTABLISHED"
                 /\ keys[I] = Additional + 1
  <1>1. InPhase(m) /\ state[I] # "CREATED"
    BY Received
  <1>2. m.mid = initiating[I].mid
    BY DEF Arrives, Expected
  <1>3. KeysAtParse(I) = keys[I]
    BY DEF PhaseInv, InitiatorInPhase, KeysAtParse
  <1>4. m.src = R /\ I \in Peers
    BY PhaseNumbers DEF Other
  <1>5. CASE state[I] = "CONNECTING"
    <2>1. /\ initiating[I].mid <= Additional + 1 /\ initiating[I].mid \in Nat
          /\ initiating[I].type = Phase(initiating[I].mid) /\ keys[I] = initiating[I].mid
          /\ Additional \in Nat
      BY <1>5, PhaseNumbers DEF PhaseInv, InitiatorInPhase
    <2>2. m.type = initiating[I].type
      BY <2>1 DEF TypeMatches, Phase
    <2>3. CASE initiating[I].mid <= Additional
      <3>1. initiating[I].type \in {"IKE_SA_INIT", "IKE_INTERMEDIATE"}
        BY <2>1, <2>3 DEF Phase
      <3>2. StateAfter(I, m) = state
        BY <1>4, <2>2, <3>1 DEF StateAfter, TypeOK
      <3> QED BY <1>2, <1>3, <1>5, <2>1, <2>3, <3>1, <3>2 DEF Continues
    <2>4. CASE initiating[I].mid = Additional + 1
      <3>1. initiating[I].type = "IKE_AUTH"
        BY <2>1, <2>4 DEF Phase
      <3>2. StateAfter(I, m)[I] = "ESTABLISHED"
        BY <1>4, <2>2, <3>1 DEF StateAfter, TypeOK
      <3>3. Ready
        BY <1>1, <1>4, <2>2, <3>1 DEF InPhase
      <3>4. ~Continues(I) /\ initiating[I].mid >= Additional + 1
        BY <2>1, <2>4, <3>1 DEF Continues
      <3> QED BY <1>2, <1>3, <2>1, <2>4, <3>2, <3>3, <3>4
    <2> QED BY <2>1, <2>3, <2>4
  <1>6. CASE state[I] = "ESTABLISHED"
    <2>1. /\ initiating[I].mid > Additional + 1 /\ initiating[I].type \notin Initials
          /\ keys[I] = Additional + 1 /\ Ready
      BY <1>6 DEF PhaseInv, InitiatorInPhase
    <2>2. StateAfter(I, m)[I] = "ESTABLISHED"
      BY <1>4, <1>6 DEF StateAfter, TypeOK
    <2>3. ~Continues(I) /\ initiating[I].mid >= Additional + 1
      BY <2>1, PhaseNumbers DEF Continues, Initials
    <2> QED BY <1>2, <1>3, <2>1, <2>2, <2>3
  <1> QED BY <1>1, <1>5, <1>6 DEF Alive

\* The responder has no initial exchange to continue.
LEMMA ResponderIdle ==
    ASSUME TypeOK, PhaseInv, NEW m, TypeMatches(R, m)
    PROVE  ~Continues(R) /\ StateAfter(R, m) = state
  <1>1. initiating[R].type \notin Initials
    BY DEF PhaseInv, ResponderInPhase
  <1>2. m.type # "IKE_AUTH"
    BY <1>1 DEF TypeMatches, Initials
  <1>3. R \in Peers
    BY PhaseNumbers
  <1> QED BY <1>1, <1>2, <1>3 DEF Continues, Initials, StateAfter, TypeOK

\* process_response() that leaves the window idle.
LEMMA ProcessResponsePhase ==
    ASSUME TypeOK, TypeOK', PhaseInv, NEW p \in Peers, Alive(p), NEW m \in net,
           m.src = Other(p), ProcessResponse(p, m)
    PROVE  PhaseInv'
  <1>1. /\ net' = net \cup AcksFor(p, m) /\ tracker' = tracker /\ DeriveKeys(p)
        /\ ~m.req /\ Arrives(p, m) /\ TypeMatches(p, m) /\ ~Continues(p)
        /\ state' = StateAfter(p, m)
    BY DEF ProcessResponse
  <1>2. /\ initiating'[p].mid = initiating[p].mid + 1 /\ initiating'[p].type = "UNDEFINED"
        /\ initiating'[p].packets = {}
        /\ \A q \in Peers \ {p} : initiating'[q] = initiating[q]
    <2>1. m \in Packet
      BY DEF TypeOK
    <2> QED BY <2>1, IdleWindow DEF ProcessResponse, TypeOK
  <1>3. \A q \in Peers : /\ responding'[q].mid = responding[q].mid
                         /\ responding'[q].packets = responding[q].packets
    BY DEF ProcessResponse, TypeOK, RespondingType
  <1>4. \A q \in Peers : /\ KeysAtParse(q)' = KeysAtParse(q)
                         /\ ke_pending'[q] => ke_pending[q]
    BY <1>1, DeriveStays
  <1>5. /\ state'[R] = "CREATED" => state[R] = "CREATED"
        /\ state'[I] = "CREATED" => state[I] = "CREATED"
    BY <1>1, PhaseNumbers DEF StateAfter, TypeOK
  <1>6. \A x : Existing(x)' => Existing(x) \/ InPhase(x)'
    <2>1. \A x \in AcksFor(p, m) : InPhase(x)'
      BY <1>5, AcksInPhase
    <2> QED BY <1>1, <1>2, <1>3, <2>1 DEF Existing
  <1>7. CASE p = I
    <2>1. /\ initiating[I].mid >= Additional + 1 /\ Ready /\ state'[I] = "ESTABLISHED"
          /\ keys[I] = Additional + 1 /\ KeysAtParse(I) = keys[I]
      BY <1>1, <1>7, ResponseAdvances
    <2>2. /\ state'[R] = state[R] /\ KeysAtParse(R)' = KeysAtParse(R)
          /\ responding'[R].mid = responding[R].mid /\ initiating'[R] = initiating[R]
      BY <1>1, <1>2, <1>3, <1>4, <1>7, PhaseNumbers DEF StateAfter, TypeOK
    <2>3. Ready'
      BY <2>1, <2>2 DEF Ready
    <2>4. ~ke_pending'[I] /\ keys'[I] = Additional + 1
      <3>1. ~ke_pending'[I]
        BY <1>4, <1>7 DEF PhaseInv, InitiatorInPhase
      <3>2. KeysAtParse(I)' = Additional + 1
        BY <1>4, <1>7, <2>1
      <3> QED BY <3>1, <3>2 DEF KeysAtParse
    <2>5. initiating'[I].mid > Additional + 1 /\ initiating'[I].type \notin Initials
      BY <1>2, <1>7, <2>1, PhaseNumbers DEF Initials
    <2>6. InitiatorInPhase'
      BY <2>1, <2>3, <2>4, <2>5 DEF InitiatorInPhase
    <2> QED BY <1>6, <2>1, <2>2, <2>6, InitiatorSteps
  <1>8. CASE p # I
    <2>1. p = R /\ I \in Peers \ {p} /\ "UNDEFINED" \notin Initials
      BY <1>8, PhaseNumbers DEF Initials
    <2>2. state' = state
      BY <1>1, <2>1, ResponderIdle
    <2>3. Stands
      BY <1>2, <1>3, <1>4, <1>6, <2>1, <2>2 DEF Stands
    <2> QED BY <2>3, StandsPhase
  <1> QED BY <1>7, <1>8

\* process_response() that starts the next exchange.
LEMMA InitiateNextPhase ==
    ASSUME TypeOK, TypeOK', PhaseInv, NEW p \in Peers, Alive(p), NEW m \in net,
           m.src = Other(p), NEW type \in Exchanges, InitiateNext(p, m, type)
    PROVE  PhaseInv'
  <1> DEFINE mid == Idle(p, m).mid
  <1>1. /\ ~m.req /\ Arrives(p, m) /\ TypeMatches(p, m) /\ type \in Following(p, m)
        /\ state' = StateAfter(p, m)
    BY DEF InitiateNext
  <1>2. /\ m \in Packet /\ KeysAfter(p) \in Nat /\ initiating[p].mid \in Nat
        /\ Idle(p, m) \in InitiatingType /\ mid = initiating[p].mid + 1
        /\ Idle(p, m).packets = {}
    <2>1. m \in Packet /\ KeysAtParse(p) \in Nat /\ initiating[p].mid \in Nat
      BY PeerTypes DEF TypeOK
    <2>2. KeysAfter(p) \in Nat
      BY <2>1 DEF KeysAfter
    <2> QED BY <2>1, <2>2, IdleWindow
  <1>3. Starts(p, mid, type, Idle(p, m).defrag, Idle(p, m).packets, AcksFor(p, m))
    BY <1>2, StartExchangeSends DEF InitiateNext
  <1> HIDE DEF mid
  <1>4. /\ initiating'[p].mid = mid /\ initiating'[p].type = type
        /\ \A q \in Peers \ {p} : initiating'[q] = initiating[q]
    BY <1>3 DEF Starts
  <1>5. \A q \in Peers : /\ responding'[q].mid = responding[q].mid
                         /\ responding'[q].packets = responding[q].packets
    BY DEF InitiateNext, TypeOK, RespondingType
  <1>6. /\ keys'[p] = KeysAfter(p) /\ ke_pending'[p] = FALSE
        /\ \A q \in Peers \ {p} : keys'[q] = keys[q] /\ ke_pending'[q] = ke_pending[q]
    BY DEF InitiateNext, TypeOK
  <1>7. /\ \A q \in Peers \ {p} : KeysAtParse(q)' = KeysAtParse(q)
        /\ KeysAtParse(p)' = KeysAfter(p)
    BY <1>6 DEF KeysAtParse
  <1>8. /\ \A q \in Peers \ {p} : state'[q] = state[q]
        /\ state'[R] = "CREATED" => state[R] = "CREATED"
        /\ state'[I] # "CREATED"
    BY <1>1, Received, PhaseNumbers DEF StateAfter, TypeOK
  <1>9. ASSUME RequestFits(p, mid, type)
        PROVE  \A x : Existing(x)' => Existing(x) \/ InPhase(x)'
    <2>1. \A x \in AcksFor(p, m) : InPhase(x)'
      BY <1>8, AcksInPhase
    <2>2. mid \in Nat /\ \A x \in Idle(p, m).packets : Existing(x)
      BY <1>2
    <2> QED BY <1>3, <1>5, <1>9, <2>1, <2>2, StartsInPhase
  <1>10. CASE p = I
    <2>0. Additional \in Nat /\ I # R /\ R \in Peers \ {p}
      BY <1>10, PhaseNumbers
    <2>1. m.mid = initiating[I].mid /\ KeysAtParse(I) = keys[I]
      BY <1>1, <1>10, ResponseAdvances
    <2>2. /\ state'[R] = state[R] /\ KeysAtParse(R)' = KeysAtParse(R)
          /\ responding'[R].mid = responding[R].mid /\ initiating'[R] = initiating[R]
      BY <1>4, <1>5, <1>7, <1>8, <2>0
    <2>3. CASE Continues(I)
      <3>1. /\ initiating[I].mid <= Additional /\ keys[I] = initiating[I].mid
            /\ state'[I] = "CONNECTING"
        BY <1>1, <1>10, <2>3, ResponseAdvances
      <3>2. mid <= Additional + 1 /\ mid # 0
        BY <1>2, <1>10, <2>0, <3>1
      <3>3. type = Phase(mid)
        BY <1>1, <1>2, <1>10, <2>0, <2>1, <2>3, <3>1 DEF Following, NextExchange, Phase
      <3>4. keys'[I] = mid /\ ~ke_pending'[I]
        BY <1>2, <1>6, <1>10, <2>1, <2>3, <3>1 DEF KeysAfter
      <3>5. RequestFits(p, mid, type)
        BY <1>8, <1>10, <2>0, <3>2, <3>3 DEF RequestFits
      <3>6. InitiatorInPhase'
        BY <1>4, <1>10, <3>1, <3>2, <3>3, <3>4 DEF InitiatorInPhase
      <3> QED BY <1>8, <1>9, <2>2, <3>5, <3>6, InitiatorSteps
    <2>4. CASE ~Continues(I)
      <3>1. /\ initiating[I].mid >= Additional + 1 /\ Ready /\ state'[I] = "ESTABLISHED"
            /\ keys[I] = Additional + 1
        BY <1>1, <1>10, <2>4, ResponseAdvances
      <3>2. mid > Additional + 1 /\ ~(mid <= Additional + 1)
        BY <1>2, <1>10, <2>0, <3>1
      <3>3. type \notin Initials
        BY <1>1, <1>10, <2>4 DEF Following, Initials
      <3>4. keys'[I] = Additional + 1 /\ ~ke_pending'[I]
        BY <1>6, <1>10, <2>1, <2>4, <3>1 DEF KeysAfter
      <3>5. RequestFits(p, mid, type)
        BY <1>8, <1>10, <2>0, <3>2, <3>3 DEF RequestFits
      <3>6. Ready'
        BY <2>2, <3>1 DEF Ready
      <3>7. InitiatorInPhase'
        BY <1>4, <1>10, <3>1, <3>2, <3>3, <3>4, <3>6 DEF InitiatorInPhase
      <3> QED BY <1>8, <1>9, <2>2, <3>5, <3>7, InitiatorSteps
    <2> QED BY <2>3, <2>4
  <1>11. CASE p # I
    <2>1. p = R /\ I \in Peers \ {p}
      BY <1>11, PhaseNumbers
    <2>2. ~Continues(R) /\ state' = state /\ StateAfter(R, m) = state
      BY <1>1, <2>1, ResponderIdle
    <2>3. type \notin Initials /\ state[R] = "ESTABLISHED"
      BY <1>1, <2>1, <2>2 DEF Following, Initials
    <2>4. KeysAtParse(R)' = KeysAtParse(R)
      BY <1>7, <2>1, <2>2 DEF KeysAfter
    <2>5. RequestFits(p, mid, type)
      BY <1>8, <1>11, <2>2, <2>3 DEF RequestFits, Initials
    <2>6. \A q \in Peers : /\ KeysAtParse(q)' = KeysAtParse(q)
                           /\ ke_pending'[q] => ke_pending[q]
      BY <1>6, <1>7, <2>1, <2>4
    <2>7. Stands
      BY <1>4, <1>5, <1>9, <2>1, <2>2, <2>3, <2>5, <2>6 DEF Stands
    <2> QED BY <2>7, StandsPhase
  <1> QED BY <1>10, <1>11

\* Nothing was sent initially, and there are no keys.
LEMMA InitPhase == ASSUME ~Rekeyed PROVE Init => PhaseInv
  <1> SUFFICES ASSUME Init PROVE PhaseInv
    OBVIOUS
  <1>1. ASSUME NEW p \in Peers
        PROVE  /\ initiating[p].packets = {} /\ responding[p].packets = {}
               /\ tracker[p].packets = {} /\ initiating[p].type = "UNDEFINED"
               /\ initiating[p].mid = 0 /\ responding[p].mid = 0
               /\ state[p] = "CREATED" /\ keys[p] = 0 /\ ~ke_pending[p]
               /\ KeysAtParse(p) = 0
    BY DEF Init, NoTracker, KeysAtParse
  <1>2. \A m : ~Existing(m)
    BY <1>1 DEF Existing, Init
  <1>3. I \in Peers /\ R \in Peers
    BY Constants
  <1>4. InitiatorInPhase
    BY <1>1, <1>3 DEF InitiatorInPhase
  <1>5. ResponderInPhase
    BY <1>1, <1>3 DEF ResponderInPhase, Initials
  <1> QED BY <1>2, <1>4, <1>5 DEF PhaseInv

\* Every step keeps the invariant.
LEMMA NextPhase ==
    ASSUME TypeOK, TypeOK', PhaseInv, [Next]_vars
    PROVE  PhaseInv'
  <1>1. ASSUME NEW p \in Peers, NEW type \in Exchanges, Initiate(p, type) PROVE PhaseInv'
    BY <1>1, InitiatePhase
  <1>2. ASSUME NEW p \in Peers, NEW mid \in DOMAIN jobs[p], RetransmitJob(p, mid)
        PROVE  PhaseInv'
    BY <1>2, RetransmitJobPhase
  <1>3. ASSUME NEW p \in Peers, NEW m \in net, ProcessMessage(p, m) PROVE PhaseInv'
    <2>0. Alive(p) /\ m.src = Other(p)
      BY <1>3 DEF ProcessMessage
    <2>1. CASE ResendResponse(p, m) \/ UnexpectedId(p, m) \/ Dropped(p, m)
      BY <2>1, IgnoredPhase
    <2>2. CASE CollectFragment(p, m)
      BY <2>0, <2>2, CollectFragmentPhase
    <2>3. CASE ProcessRequest(p, m)
      BY <2>0, <2>3, ProcessRequestPhase
    <2>4. CASE \E ending \in Endings : CloseOnRequest(p, m, ending)
      BY <2>0, <2>4, CloseOnRequestPhase
    <2>5. CASE ProcessResponse(p, m)
      BY <2>0, <2>5, ProcessResponsePhase
    <2>6. CASE \E type \in Exchanges : InitiateNext(p, m, type)
      BY <2>0, <2>6, InitiateNextPhase
    <2>7. CASE CloseOnResponse(p, m)
      BY <2>0, <2>7, CloseOnResponsePhase
    <2> QED BY <1>3, <2>1, <2>2, <2>3, <2>4, <2>5, <2>6, <2>7 DEF ProcessMessage
  <1>4. ASSUME NEW p \in Peers, HalfOpenTimeout(p) \/ HeapAbort(p) PROVE PhaseInv'
    BY <1>4, EndsPhase
  <1>5. CASE UNCHANGED vars
    BY <1>5, EndsPhase
  <1> QED BY <1>1, <1>2, <1>3, <1>4, <1>5 DEF Next

\* The initiator has the IKE_SA established only after the responder has, and both with
\* the keys of all key exchanges, whatever is fragmented, acknowledged, lost or repeated
\* (process_response and initiate, parse_message and its derive_keys, reject_request).
THEOREM EstablishedAgreementCorrect == Spec => []EstablishedAgreement
  <1>1. CASE Rekeyed
    <2>1. TypeOK => EstablishedAgreement
      BY <1>1 DEF EstablishedAgreement
    <2> QED BY <2>1, TypeCorrect, PTL
  <1>2. CASE ~Rekeyed
    <2>1. Init => PhaseInv
      BY <1>2, InitPhase
    <2>2. TypeOK /\ TypeOK' /\ PhaseInv /\ [Next]_vars => PhaseInv'
      BY NextPhase
    <2>3. PhaseInv => EstablishedAgreement
      BY DEF PhaseInv, InitiatorInPhase, Ready, EstablishedAgreement
    <2> QED BY <2>1, <2>2, <2>3, TypeCorrect, PTL DEF Spec
  <1> QED BY <1>1, <1>2

-----------------------------------------------------------------------------
(* Where no FRAGMENT_ACK is ever sent, because selective retransmission is *)
(* disabled or because no message is fragmented, the message layer keeps   *)
(* the promise of ReliableExchange, for every number of key exchanges,     *)
(* fragments, tries and requests.                                          *)

\* No fragment is ever acknowledged.
Quiet ==
    \/ \A p \in Peers : ~Selective[p]
    \/ \A e \in Exchanges : ReqFrags[e] = 1 /\ RespFrags[e] = 1

\* Requests a peer has issued.
Issued == [p \in Peers |-> initiating[p].mid + IF Outstanding(p) THEN 1 ELSE 0]

\* A packet that is no acknowledgment and will not be acknowledged.
Unacknowledged(m) == ~m.ack.is /\ (m.total = 1 \/ \A p \in Peers : ~Selective[p])

\* A packet that may be in flight: of a request that was issued, or of the
\* response to one that was executed.
Sound(m) ==
    /\ Unacknowledged(m)
    /\ m.mid < IF m.req THEN Issued[m.src] ELSE Len(handled[m.src])

\* The inductive invariant.  The message IDs of one direction advance in the
\* order completed <= executed <= issued <= completed + 1.
ExchangeInv ==
    /\ \A m \in net : Sound(m)
    /\ \A p \in Peers :
          /\ \A m \in initiating[p].packets \cup responding[p].packets : Sound(m)
          /\ tracker[p].total = 0
          /\ Alive(p) => Len(handled[p]) = responding[p].mid
          /\ initiating[p].mid <= Len(handled[Other(p)])
          /\ Len(handled[Other(p)]) <= Issued[p]
          /\ \A i \in 1..Len(handled[p]) : handled[p][i] = i - 1
          /\ \A mid \in completed[p] : mid < initiating[p].mid

\* How a step may move the message IDs, q being any peer.
Moves(q, i, h, c) ==
    /\ Issued'[q] = Issued[q] + i
    /\ Len(handled'[q]) = Len(handled[q]) + h
    /\ initiating'[q].mid = initiating[q].mid + c

Advance ==
    \/ \A q \in Peers : Moves(q, 0, 0, 0)
    \/ \E p \in Peers :
          /\ Moves(Other(p), 0, 0, 0)
          /\ \/ Moves(p, 1, 0, 0) /\ Issued[p] = initiating[p].mid
             \/ Moves(p, 0, 1, 0) /\ Len(handled[p]) < Issued[Other(p)]
             \/ /\ Moves(p, 0, 0, 1) \/ Moves(p, 1, 0, 1)
                /\ initiating[p].mid < Len(handled[Other(p)])

-----------------------------------------------------------------------------
(* Consequences of Quiet.                                                  *)

\* generate_message() starts no tracker.
LEMMA Untracked ==
    ASSUME Quiet, NEW p \in Peers, NEW req, NEW mid \in Nat,
           NEW type \in Exchanges, NEW key \in Nat,
           NEW n, n = ReqFrags[type] \/ n = RespFrags[type]
    PROVE  ~Tracks(p, Packets(p, req, mid, type, n, key))
  <1> DEFINE P == Packets(p, req, mid, type, n, key)
  <1>1. n = 1 \/ \A q \in Peers : ~Selective[q]
    BY DEF Quiet
  <1>2. ASSUME n = 1 PROVE Cardinality(P) = 1
    <2>1. 1..n = {1}
      BY <1>2
    <2> DEFINE G(f) == [src |-> p, req |-> req, mid |-> mid, type |-> type, frag |-> f,
                        total |-> n, key |-> IF type = "IKE_SA_INIT" THEN 0 ELSE key,
                        sel |-> type = "IKE_SA_INIT" /\ Selective[p], ack |-> NoAck]
    <2>2. P = {G(f) : f \in 1..n}
      BY DEF Packets
    <2> HIDE DEF P, G
    <2>3. P = {G(1)}
      BY <2>1, <2>2
    <2> QED BY <2>3, FS_Singleton
  <1> QED BY <1>1, <1>2 DEF Tracks

\* The packets of a request and of a response.
LEMMA QuietRequest ==
    ASSUME Quiet, NEW p \in Peers, NEW mid \in Nat, NEW type \in Exchanges, NEW key \in Nat
    PROVE  LET packets == Packets(p, TRUE, mid, type, ReqFrags[type], key)
           IN  /\ ~Tracks(p, packets)
               /\ \A m \in packets : m.src = p /\ m.req = TRUE /\ m.mid = mid /\ Unacknowledged(m)
  <1> DEFINE packets == Packets(p, TRUE, mid, type, ReqFrags[type], key)
  <1>1. ~Tracks(p, packets)
    BY Untracked
  <1>2. ASSUME NEW m \in packets
        PROVE  m.src = p /\ m.req = TRUE /\ m.mid = mid /\ Unacknowledged(m)
    <2>1. m.src = p /\ m.req = TRUE /\ m.mid = mid /\ ~m.ack.is /\ m.total = ReqFrags[type]
      BY DEF Packets, NoAck
    <2> QED BY <2>1 DEF Quiet, Unacknowledged
  <1> QED BY <1>1, <1>2

\* A response is sound once its request was executed.
LEMMA QuietResponse ==
    ASSUME Quiet, NEW p \in Peers, NEW mid \in Nat, NEW type \in Exchanges, NEW key \in Nat
    PROVE  LET packets == Packets(p, FALSE, mid, type, RespFrags[type], key)
           IN  /\ ~Tracks(p, packets)
               /\ \A m \in packets : m.src = p /\ m.req = FALSE /\ m.mid = mid /\ Unacknowledged(m)
  <1> DEFINE packets == Packets(p, FALSE, mid, type, RespFrags[type], key)
  <1>1. ~Tracks(p, packets)
    BY Untracked
  <1>2. ASSUME NEW m \in packets
        PROVE  m.src = p /\ m.req = FALSE /\ m.mid = mid /\ Unacknowledged(m)
    <2>1. m.src = p /\ m.req = FALSE /\ m.mid = mid /\ ~m.ack.is /\ m.total = RespFrags[type]
      BY DEF Packets, NoAck
    <2> QED BY <2>1 DEF Quiet, Unacknowledged
  <1> QED BY <1>1, <1>2

\* Nothing is acknowledged, and no tracker changes.
LEMMA QuietMessage ==
    ASSUME TypeOK, ExchangeInv, NEW p \in Peers, NEW m \in net
    PROVE  /\ AcksFor(p, m) = {}
           /\ ~m.ack.is
           /\ AckedTracker(p, m) = tracker[p]
  <1>1. Sound(m)
    BY DEF ExchangeInv
  <1>2. m \in Packet
    BY DEF TypeOK
  <1> QED BY <1>1, <1>2 DEF Sound, Unacknowledged, AcksFor, AckedTracker, Packet

-----------------------------------------------------------------------------
(* The invariant is preserved.                                             *)

\* A packet in the network or stored at a peer.
Carried(m) ==
    \/ m \in net
    \/ \E q \in Peers : m \in initiating[q].packets \cup responding[q].packets

\* The numbers a step compares.
Numbers ==
    \A q \in Peers :
        /\ initiating[q].mid \in Nat /\ responding[q].mid \in Nat
        /\ Issued[q] \in Nat /\ Len(handled[q]) \in Nat
        /\ Issued[q] = IF initiating[q].type # "UNDEFINED" THEN initiating[q].mid + 1
                                                          ELSE initiating[q].mid

\* The message IDs and their number are naturals, before and after a step.
LEMMA Counters == TypeOK => Numbers
  <1> SUFFICES ASSUME TypeOK, NEW q \in Peers
               PROVE  /\ initiating[q].mid \in Nat /\ responding[q].mid \in Nat
                      /\ Issued[q] \in Nat /\ Len(handled[q]) \in Nat
                      /\ Issued[q] = IF initiating[q].type # "UNDEFINED"
                                     THEN initiating[q].mid + 1 ELSE initiating[q].mid
    BY DEF Numbers
  <1>1. initiating[q].mid \in Nat /\ responding[q].mid \in Nat
    BY PeerTypes
  <1>2. Len(handled[q]) \in Nat
    BY DEF TypeOK
  <1> QED BY <1>1, <1>2 DEF Issued, Outstanding

\* The same after a step.
LEMMA CountersAfter == TypeOK' => Numbers'
  BY Counters, PTL

\* What was sound stays sound while message IDs only advance.
LEMMA SoundStays ==
    ASSUME TypeOK, TypeOK', NEW m \in Packet, Sound(m),
           \A q \in Peers : Issued[q] <= Issued'[q] /\ Len(handled[q]) <= Len(handled'[q])
    PROVE  Sound(m)'
  <1>1. m.src \in Peers /\ m.mid \in Nat
    BY DEF Packet
  <1>2. \A q \in Peers : /\ Issued[q] \in Nat /\ Issued'[q] \in Nat
                         /\ Len(handled[q]) \in Nat /\ Len(handled'[q]) \in Nat
    BY Counters, CountersAfter DEF Numbers
  <1> QED BY <1>1, <1>2 DEF Sound

\* A step that advances the message IDs as the promise allows, carries sound
\* packets only and keeps the histories, keeps the invariant.
LEMMA Preserved ==
    ASSUME TypeOK, TypeOK', ExchangeInv, Advance,
           \A m : Carried(m)' => Carried(m) \/ Sound(m)',
           \A q \in Peers : tracker'[q].total = 0,
           \A q \in Peers : Alive(q)' => Len(handled'[q]) = responding'[q].mid,
           \A q \in Peers : \A i \in 1..Len(handled'[q]) : handled'[q][i] = i - 1,
           \A q \in Peers : \A mid \in completed'[q] : mid < initiating'[q].mid
    PROVE  ExchangeInv'
  <1>1. \A q \in Peers : /\ initiating[q].mid \in Nat /\ initiating'[q].mid \in Nat
                         /\ Issued[q] \in Nat /\ Issued'[q] \in Nat
                         /\ Len(handled[q]) \in Nat /\ Len(handled'[q]) \in Nat
    BY Counters, CountersAfter DEF Numbers
  <1>2. \A q \in Peers : /\ initiating[q].mid <= Len(handled[Other(q)])
                         /\ Len(handled[Other(q)]) <= Issued[q]
    BY DEF ExchangeInv
  <1>3. \A q \in Peers : Issued[q] <= Issued'[q] /\ Len(handled[q]) <= Len(handled'[q])
    <2> TAKE q \in Peers
    <2>1. PICK i \in {0, 1}, h \in {0, 1}, c \in {0, 1} : Moves(q, i, h, c)
      <3>1. \A p \in Peers : q = p \/ q = Other(p)
        BY Constants
      <3> QED BY <3>1 DEF Advance
    <2>2. /\ Issued[q] \in Nat /\ Len(handled[q]) \in Nat
          /\ Issued'[q] = Issued[q] + i /\ Len(handled'[q]) = Len(handled[q]) + h
      BY <1>1, <2>1 DEF Moves
    <2> QED BY <2>2
  <1>4. \A q \in Peers : /\ initiating'[q].mid <= Len(handled'[Other(q)])
                         /\ Len(handled'[Other(q)]) <= Issued'[q]
    <2> TAKE q \in Peers
    <2> DEFINE o == Other(q)
    <2>1. o \in Peers /\ Other(o) = q
      BY Constants
    <2>2. /\ initiating[q].mid \in Nat /\ initiating'[q].mid \in Nat
          /\ Issued[q] \in Nat /\ Issued'[q] \in Nat
          /\ Len(handled[o]) \in Nat /\ Len(handled'[o]) \in Nat
          /\ initiating[q].mid <= Len(handled[o]) /\ Len(handled[o]) <= Issued[q]
      BY <1>1, <1>2, <2>1
    <2>3. \/ Moves(q, 0, 0, 0) /\ Moves(o, 0, 0, 0)
          \/ Moves(q, 1, 0, 0) /\ Moves(o, 0, 0, 0)
          \/ /\ Moves(q, 0, 0, 1) \/ Moves(q, 1, 0, 1)
             /\ Moves(o, 0, 0, 0) /\ initiating[q].mid < Len(handled[o])
          \/ Moves(q, 0, 1, 0) /\ Moves(o, 0, 0, 0)
          \/ Moves(q, 0, 0, 0) /\ (Moves(o, 1, 0, 0) \/ Moves(o, 0, 0, 1) \/ Moves(o, 1, 0, 1))
          \/ Moves(q, 0, 0, 0) /\ Moves(o, 0, 1, 0) /\ Len(handled[o]) < Issued[q]
      <3>1. CASE \A r \in Peers : Moves(r, 0, 0, 0)
        BY <2>1, <3>1
      <3>2. ASSUME NEW p \in Peers, Moves(Other(p), 0, 0, 0),
                   \/ Moves(p, 1, 0, 0) /\ Issued[p] = initiating[p].mid
                   \/ Moves(p, 0, 1, 0) /\ Len(handled[p]) < Issued[Other(p)]
                   \/ /\ Moves(p, 0, 0, 1) \/ Moves(p, 1, 0, 1)
                      /\ initiating[p].mid < Len(handled[Other(p)])
            PROVE  <2>3
        <4>1. p = q \/ p = o
          BY Constants
        <4>2. CASE p = q
          BY <3>2, <4>2
        <4>3. CASE p = o
          BY <3>2, <4>3, <2>1
        <4> QED BY <4>1, <4>2, <4>3
      <3> QED BY <3>1, <3>2 DEF Advance
    <2> DEFINE c == initiating[q].mid
               h == Len(handled[o])
               i == Issued[q]
    <2>4. \/ i' = i + 0 /\ h' = h + 0 /\ c' = c + 0
          \/ i' = i + 1 /\ h' = h + 0 /\ c' = c + 0
          \/ (i' = i + 0 \/ i' = i + 1) /\ h' = h + 0 /\ c' = c + 1 /\ c < h
          \/ i' = i + 0 /\ h' = h + 1 /\ c' = c + 0 /\ h < i
      <3> HIDE DEF o
      <3> QED BY <2>3 DEF Moves
    <2> QED BY <2>2, <2>4
  <1>5. ASSUME NEW m, Carried(m)' PROVE Sound(m)'
    <2>1. CASE Carried(m)
      <3>1. Sound(m)
        BY <2>1 DEF Carried, ExchangeInv
      <3>2. m \in Packet
        BY <2>1 DEF Carried, TypeOK, InitiatingType, RespondingType
      <3> QED BY <3>1, <3>2, <1>3, SoundStays
    <2> QED BY <1>5, <2>1
  <1> QED BY <1>4, <1>5 DEF ExchangeInv, Carried

\* retransmit() repeats packets it had, while nothing is tracked.
LEMMA RetransmitQuiet ==
    ASSUME TypeOK, NEW p \in Peers, NEW mid, NEW ini \in InitiatingType,
           NEW t \in TrackerType, t.total = 0, NEW sup, NEW pending, NEW out,
           Retransmit(p, mid, ini, t, sup, pending, out)
    PROVE  /\ initiating'[p].mid = ini.mid /\ initiating'[p].type = ini.type
           /\ initiating'[p].packets = ini.packets
           /\ \A q \in Peers \ {p} : initiating'[q] = initiating[q]
           /\ net' \subseteq net \cup out \cup ini.packets
  <1>1. ~Tracked(p, t, mid)
    BY DEF Tracked
  <1>2. net' \subseteq net \cup out \cup ini.packets
    BY <1>1 DEF Retransmit, Resent
  <1>3. initiating' = [initiating EXCEPT ![p] = 
               IF Resends(p, mid, ini, t) THEN [ini EXCEPT !.retransmitted = @ + 1] ELSE ini]
    BY DEF Retransmit
  <1>4. LET x == [ini EXCEPT !.retransmitted = @ + 1]
        IN  x.mid = ini.mid /\ x.type = ini.type /\ x.packets = ini.packets
    BY DEF InitiatingType
  <1> QED BY <1>2, <1>3, <1>4 DEF TypeOK

\* A new request with message ID mid is stored after the packets old, and sent.
SendsRequest(p, mid, old, out) ==
    \E packets :
        /\ initiating'[p].packets = old \cup packets
        /\ net' \subseteq net \cup out \cup old \cup packets
        /\ \A m \in packets : m.src = p /\ m.req = TRUE /\ m.mid = mid /\ Unacknowledged(m)

\* initiate() sends the packets of its request and nothing else that is new.
LEMMA StartExchangeQuiet ==
    ASSUME TypeOK, Quiet, NEW p \in Peers, tracker[p].total = 0,
           NEW type \in Exchanges, NEW ini \in InitiatingType, NEW key \in Nat,
           NEW sup, NEW out, StartExchange(p, type, ini, key, sup, out)
    PROVE  /\ initiating'[p].mid = ini.mid /\ initiating'[p].type = type
           /\ \A q \in Peers \ {p} : initiating'[q] = initiating[q]
           /\ tracker' = tracker
           /\ SendsRequest(p, ini.mid, ini.packets, out)
  <1> DEFINE packets == Packets(p, TRUE, ini.mid, type, ReqFrags[type], key)
             started == [ini EXCEPT !.type = type, !.retransmitted = 0,
                                    !.packets = @ \cup packets]
             t == TrackerAfter(p, tracker[p], ini.mid, packets)
  <1>1. ini.mid \in Nat
    BY DEF InitiatingType
  <1>2. packets \subseteq Packet
    BY <1>1, PacketsType, Constants
  <1>3. /\ ~Tracks(p, packets)
        /\ \A m \in packets :
              m.src = p /\ m.req = TRUE /\ m.mid = ini.mid /\ Unacknowledged(m)
    BY <1>1, QuietRequest
  <1>4. /\ tracker' = [tracker EXCEPT ![p] = t]
        /\ Retransmit(p, ini.mid, started, t, sup, jobs[p], out)
    BY DEF StartExchange
  <1>5. t = tracker[p] /\ tracker[p] \in TrackerType
    BY <1>3, PeerTypes DEF TrackerAfter
  <1>6. /\ started \in InitiatingType /\ started.mid = ini.mid
        /\ started.type = type /\ started.packets = ini.packets \cup packets
    <2> HIDE DEF packets
    <2>1. ASSUME NEW x \in SUBSET Packet
          PROVE  LET y == [ini EXCEPT !.type = type, !.retransmitted = 0, !.packets = x]
                 IN  /\ y \in InitiatingType
                     /\ y.mid = ini.mid /\ y.type = type /\ y.packets = x
      <3>1. 0 \in 0..(Tries + 1)
        BY Constants
      <3> QED BY <3>1 DEF InitiatingType
    <2>2. ini.packets \cup packets \in SUBSET Packet
      BY <1>2 DEF InitiatingType
    <2> QED BY <2>1, <2>2
  <1> HIDE DEF packets, started, t
  <1>7. tracker' = tracker
    BY <1>4, <1>5 DEF TypeOK
  <1>8. /\ initiating'[p].mid = started.mid /\ initiating'[p].type = started.type
        /\ initiating'[p].packets = started.packets
        /\ \A q \in Peers \ {p} : initiating'[q] = initiating[q]
        /\ net' \subseteq net \cup out \cup started.packets
    BY <1>4, <1>5, <1>6, RetransmitQuiet
  <1>9. /\ initiating'[p].packets = ini.packets \cup packets
        /\ net' \subseteq net \cup out \cup ini.packets \cup packets
    BY <1>6, <1>8
  <1>10. SendsRequest(p, ini.mid, ini.packets, out)
    BY <1>3, <1>9 DEF SendsRequest
  <1> QED BY <1>6, <1>7, <1>8, <1>10

\* A step that moves no message ID and sends what it had.
LEMMA Stutters ==
    ASSUME TypeOK, TypeOK', ExchangeInv,
           \A q \in Peers : /\ initiating'[q].mid = initiating[q].mid
                            /\ initiating'[q].type = initiating[q].type
                            /\ initiating'[q].packets = initiating[q].packets
                            /\ responding'[q].mid = responding[q].mid
                            /\ responding'[q].packets = responding[q].packets
                            /\ Alive(q)' => Alive(q),
           \A m \in net' : Carried(m),
           UNCHANGED <<tracker, handled, completed>>
    PROVE  ExchangeInv' /\ Advance
  <1>1. \A q \in Peers : Moves(q, 0, 0, 0)
    <2> TAKE q \in Peers
    <2>1. Issued'[q] = Issued[q]
      BY DEF Issued, Outstanding
    <2>2. Issued[q] \in Nat /\ Len(handled[q]) \in Nat /\ initiating[q].mid \in Nat
      BY Counters DEF Numbers
    <2> QED BY <2>1, <2>2 DEF Moves
  <1>2. Advance
    BY <1>1 DEF Advance
  <1>3. \A m : Carried(m)' => Carried(m)
    BY DEF Carried
  <1>4. \A q \in Peers : /\ tracker'[q].total = 0
                         /\ Alive(q)' => Len(handled'[q]) = responding'[q].mid
                         /\ \A i \in 1..Len(handled'[q]) : handled'[q][i] = i - 1
                         /\ \A mid \in completed'[q] : mid < initiating'[q].mid
    BY DEF ExchangeInv
  <1> QED BY <1>2, <1>3, <1>4, Preserved

\* retransmit_job: only packets sent before, or nothing.
LEMMA RetransmitJobQuiet ==
    ASSUME TypeOK, TypeOK', ExchangeInv, NEW p \in Peers, NEW mid, RetransmitJob(p, mid)
    PROVE  ExchangeInv' /\ Advance
  <1>1. tracker[p].total = 0 /\ tracker[p] \in TrackerType /\ initiating[p] \in InitiatingType
    BY PeerTypes DEF ExchangeInv
  <1>2. Retransmit(p, Effective(p, mid), initiating[p], tracker[p], peer_supports[p],
                   jobs[p] (-) SetToBag({mid}), {})
    BY DEF RetransmitJob
  <1>3. /\ initiating'[p].mid = initiating[p].mid /\ initiating'[p].type = initiating[p].type
        /\ initiating'[p].packets = initiating[p].packets
        /\ \A q \in Peers \ {p} : initiating'[q] = initiating[q]
        /\ net' \subseteq net \cup {} \cup initiating[p].packets
    BY <1>1, <1>2, RetransmitQuiet
  <1>4. \A m \in net' : Carried(m)
    BY <1>3 DEF Carried
  <1>5. \A q \in Peers : Alive(q)' => Alive(q)
    BY DEF RetransmitJob, Destroyed, Alive, TypeOK
  <1>6. UNCHANGED <<responding, tracker, handled, completed>>
    BY DEF RetransmitJob, history
  <1> QED BY <1>3, <1>4, <1>5, <1>6, Stutters

\* Messages that are ignored, dropped or answered from the store.
LEMMA IgnoredQuiet ==
    ASSUME TypeOK, TypeOK', ExchangeInv, NEW p \in Peers, NEW m \in net,
           ResendResponse(p, m) \/ UnexpectedId(p, m) \/ Dropped(p, m)
    PROVE  ExchangeInv' /\ Advance
  <1>1. UNCHANGED <<initiating, responding, handled, completed>> /\ state' = state
    BY DEF ResendResponse, UnexpectedId, Dropped, window, history
  <1>2. tracker' = tracker
    BY QuietMessage DEF ResendResponse, UnexpectedId, Dropped, TypeOK
  <1>3. net' \subseteq net \cup responding[p].packets
    BY DEF ResendResponse, UnexpectedId, Dropped
  <1>4. \A x \in net' : Carried(x)
    BY <1>3 DEF Carried
  <1>5. \A q \in Peers : Alive(q)' => Alive(q)
    BY <1>1 DEF Alive
  <1> QED BY <1>1, <1>2, <1>4, <1>5, Stutters

\* handle_fragment() with fragments missing.
LEMMA CollectFragmentQuiet ==
    ASSUME TypeOK, TypeOK', ExchangeInv, NEW p \in Peers, NEW m \in net,
           CollectFragment(p, m)
    PROVE  ExchangeInv' /\ Advance
  <1>1. \A q \in Peers : /\ initiating'[q].mid = initiating[q].mid
                         /\ initiating'[q].type = initiating[q].type
                         /\ initiating'[q].packets = initiating[q].packets
    BY DEF CollectFragment, TypeOK, InitiatingType
  <1>2. \A q \in Peers : /\ responding'[q].mid = responding[q].mid
                         /\ responding'[q].packets = responding[q].packets
    BY DEF CollectFragment, TypeOK, RespondingType
  <1>3. \A x \in net' : Carried(x)
    BY QuietMessage DEF CollectFragment, Carried
  <1>4. UNCHANGED <<tracker, handled, completed>> /\ state' = state
    BY DEF CollectFragment
  <1>5. \A q \in Peers : Alive(q)' => Alive(q)
    BY <1>4 DEF Alive
  <1> QED BY <1>1, <1>2, <1>3, <1>4, <1>5, Stutters

\* process_response() that fails.
LEMMA CloseOnResponseQuiet ==
    ASSUME TypeOK, TypeOK', ExchangeInv, NEW p \in Peers, NEW m \in net,
           CloseOnResponse(p, m)
    PROVE  ExchangeInv' /\ Advance
  <1>1. \A q \in Peers : /\ responding'[q].mid = responding[q].mid
                         /\ responding'[q].packets = responding[q].packets
    BY DEF CloseOnResponse, TypeOK, RespondingType
  <1>2. \A x \in net' : Carried(x)
    BY QuietMessage DEF CloseOnResponse, Carried
  <1>3. UNCHANGED <<initiating, tracker, handled, completed>>
    BY DEF CloseOnResponse
  <1>4. \A q \in Peers : Alive(q)' => Alive(q)
    BY DEF CloseOnResponse, Destroyed, Alive, TypeOK
  <1> QED BY <1>1, <1>2, <1>3, <1>4, Stutters

\* The half-open IKE_SA times out, or the allocator ends the daemon.
LEMMA EndsQuiet ==
    ASSUME TypeOK, TypeOK', ExchangeInv, NEW p \in Peers,
           HalfOpenTimeout(p) \/ HeapAbort(p)
    PROVE  ExchangeInv' /\ Advance
  <1>1. UNCHANGED <<initiating, responding, tracker, handled, completed, net>>
    BY DEF HalfOpenTimeout, HeapAbort, window, history
  <1>2. \A x \in net' : Carried(x)
    BY <1>1 DEF Carried
  <1>3. \A q \in Peers : Alive(q)' => Alive(q)
    BY DEF HalfOpenTimeout, HeapAbort, Destroyed, Alive, TypeOK
  <1> QED BY <1>1, <1>2, <1>3, Stutters

\* initiate() takes the next message ID.
LEMMA InitiateQuiet ==
    ASSUME TypeOK, TypeOK', ExchangeInv, Quiet, NEW p \in Peers, NEW type \in Exchanges,
           Initiate(p, type)
    PROVE  ExchangeInv' /\ Advance
  <1>1. /\ initiating[p] \in InitiatingType /\ keys[p] \in Nat /\ tracker[p].total = 0
        /\ initiating[p].type = "UNDEFINED"
        /\ StartExchange(p, type, initiating[p], keys[p], peer_supports[p], {})
    BY PeerTypes DEF Initiate, ExchangeInv
  <1>2. /\ initiating'[p].mid = initiating[p].mid /\ initiating'[p].type = type
        /\ \A q \in Peers \ {p} : initiating'[q] = initiating[q]
        /\ tracker' = tracker
        /\ SendsRequest(p, initiating[p].mid, initiating[p].packets, {})
    BY <1>1, StartExchangeQuiet
  <1>3. PICK packets :
          /\ initiating'[p].packets = initiating[p].packets \cup packets
          /\ net' \subseteq net \cup {} \cup initiating[p].packets \cup packets
          /\ \A m \in packets : /\ m.src = p /\ m.req = TRUE /\ m.mid = initiating[p].mid
                                /\ Unacknowledged(m)
    BY <1>2 DEF SendsRequest
  <1>4. UNCHANGED <<responding, handled, completed>>
    BY DEF Initiate, history
  <1>5. type # "UNDEFINED"
    BY DEF Exchanges
  <1>6. /\ Issued[p] = initiating[p].mid /\ Issued'[p] = initiating[p].mid + 1
        /\ initiating[p].mid \in Nat
    BY <1>1, <1>2, <1>5, Counters, CountersAfter DEF Numbers
  <1>7. Moves(p, 1, 0, 0)
    BY <1>2, <1>4, <1>6, Counters DEF Moves, Numbers
  <1>8. Moves(Other(p), 0, 0, 0)
    <2>1. Other(p) \in Peers \ {p}
      BY Constants
    <2>2. Issued'[Other(p)] = Issued[Other(p)]
      BY <1>2, <2>1 DEF Issued, Outstanding
    <2> QED BY <1>2, <1>4, <2>1, <2>2, Counters DEF Moves, Numbers
  <1>9. Advance
    BY <1>6, <1>7, <1>8 DEF Advance
  <1>10. ASSUME NEW m, Carried(m)' PROVE Carried(m) \/ Sound(m)'
    <2>1. Carried(m) \/ m \in packets
      BY <1>2, <1>3, <1>4, <1>10 DEF Carried
    <2>2. ASSUME m \in packets PROVE Sound(m)'
      BY <1>3, <1>6, <2>2 DEF Sound, Unacknowledged
    <2> QED BY <2>1, <2>2
  <1>11. \A q \in Peers : Alive(q)' => Alive(q)
    BY DEF Initiate, Alive, TypeOK
  <1>12. \A q \in Peers : /\ tracker'[q].total = 0
                          /\ Alive(q)' => Len(handled'[q]) = responding'[q].mid
                          /\ \A i \in 1..Len(handled'[q]) : handled'[q][i] = i - 1
                          /\ \A mid \in completed'[q] : mid < initiating'[q].mid
    BY <1>2, <1>4, <1>11 DEF ExchangeInv
  <1> QED BY <1>9, <1>10, <1>12, Preserved

\* A request that is processed is the one the other peer waits for.
LEMMA RequestExpected ==
    ASSUME TypeOK, ExchangeInv, NEW p \in Peers, NEW m \in net, Alive(p),
           m.src = Other(p), m.req, Arrives(p, m)
    PROVE  /\ m.mid = Len(handled[p]) /\ responding[p].mid = Len(handled[p])
           /\ Len(handled[p]) < Issued[Other(p)]
  <1>1. m.mid = responding[p].mid
    BY DEF Arrives, Expected
  <1>2. Sound(m)
    BY DEF ExchangeInv
  <1>3. Len(handled[p]) = responding[p].mid
    BY DEF ExchangeInv
  <1> QED BY <1>1, <1>2, <1>3 DEF Sound

\* Answering that request keeps the invariant.
LEMMA Answered ==
    ASSUME TypeOK, TypeOK', ExchangeInv, NEW p \in Peers,
           Len(handled[p]) < Issued[Other(p)],
           handled' = [handled EXCEPT ![p] = Append(@, Len(handled[p]))],
           NEW packets,
           \A m \in packets : /\ m.src = p /\ m.req = FALSE /\ m.mid = Len(handled[p])
                             /\ Unacknowledged(m),
           \A m \in net' : Carried(m) \/ m \in packets,
           \A q \in Peers : \A m \in responding'[q].packets : Carried(m) \/ m \in packets,
           \A q \in Peers : Alive(q)' => Len(handled'[q]) = responding'[q].mid,
           UNCHANGED <<initiating, tracker, completed>>
    PROVE  ExchangeInv' /\ Advance
  <1>1. \A q \in Peers : Issued'[q] = Issued[q]
    BY DEF Issued, Outstanding
  <1>2. /\ handled[p] \in Seq(Nat) /\ Len(handled[p]) \in Nat
        /\ handled'[p] = Append(handled[p], Len(handled[p]))
        /\ \A q \in Peers \ {p} : handled'[q] = handled[q]
    BY DEF TypeOK
  <1>3. /\ Len(handled'[p]) = Len(handled[p]) + 1
        /\ \A i \in 1..Len(handled[p]) : handled'[p][i] = handled[p][i]
        /\ handled'[p][Len(handled[p]) + 1] = Len(handled[p])
    BY <1>2
  <1>4. Moves(p, 0, 1, 0)
    BY <1>1, <1>3, Counters DEF Moves, Numbers
  <1>5. Moves(Other(p), 0, 0, 0)
    BY <1>1, <1>2, Counters, Constants DEF Moves, Numbers
  <1>6. Advance
    BY <1>4, <1>5 DEF Advance
  <1>7. ASSUME NEW m, Carried(m)' PROVE Carried(m) \/ Sound(m)'
    <2>1. Carried(m) \/ m \in packets
      BY <1>7 DEF Carried
    <2>2. ASSUME m \in packets PROVE Sound(m)'
      BY <1>2, <1>3, <2>2 DEF Sound, Unacknowledged
    <2> QED BY <2>1, <2>2
  <1>8. \A i \in 1..Len(handled'[p]) : handled'[p][i] = i - 1
    <2> TAKE i \in 1..Len(handled'[p])
    <2>1. i \in 1..Len(handled[p]) \/ i = Len(handled[p]) + 1
      BY <1>2, <1>3
    <2>2. ASSUME i \in 1..Len(handled[p]) PROVE handled[p][i] = i - 1
      BY <2>2 DEF ExchangeInv
    <2> QED BY <1>2, <1>3, <2>1, <2>2
  <1>9. \A q \in Peers : /\ tracker'[q].total = 0
                         /\ \A i \in 1..Len(handled'[q]) : handled'[q][i] = i - 1
                         /\ \A mid \in completed'[q] : mid < initiating'[q].mid
    BY <1>2, <1>8 DEF ExchangeInv
  <1> QED BY <1>6, <1>7, <1>9, Preserved

\* process_request() and build_response().
LEMMA ProcessRequestQuiet ==
    ASSUME TypeOK, TypeOK', ExchangeInv, Quiet, NEW p \in Peers, NEW m \in net,
           Alive(p), m.src = Other(p), ProcessRequest(p, m)
    PROVE  ExchangeInv' /\ Advance
  <1> DEFINE packets == Packets(p, FALSE, responding[p].mid, m.type,
                                RespFrags[m.type], KeysAtParse(p))
             t == TrackerAfter(p, AckedTracker(p, m), responding[p].mid, packets)
  <1>1. /\ m.mid = Len(handled[p]) /\ responding[p].mid = Len(handled[p])
        /\ Len(handled[p]) < Issued[Other(p)]
    BY RequestExpected DEF ProcessRequest
  <1>2. AcksFor(p, m) = {} /\ ~m.ack.is /\ AckedTracker(p, m) = tracker[p]
    BY QuietMessage
  <1>3. /\ ~Tracks(p, packets)
        /\ \A x \in packets : /\ x.src = p /\ x.req = FALSE /\ x.mid = responding[p].mid
                              /\ Unacknowledged(x)
    <2>1. m.type \in Exchanges /\ responding[p].mid \in Nat /\ KeysAtParse(p) \in Nat
      BY PeerTypes DEF TypeOK, Packet
    <2> QED BY <2>1, QuietResponse
  <1>4. /\ responding' = [responding EXCEPT ![p] = Responded(p, m, packets)]
        /\ tracker' = [tracker EXCEPT ![p] = t]
        /\ net' = net \cup AcksFor(p, m) \cup packets
    BY DEF ProcessRequest
  <1>5. t = tracker[p]
    BY <1>2, <1>3 DEF TrackerAfter
  <1> HIDE DEF packets, t
  <1>6. UNCHANGED <<initiating, tracker, completed>>
    <2>1. tracker' = tracker
      BY <1>4, <1>5 DEF TypeOK
    <2> QED BY <2>1 DEF ProcessRequest
  <1>7. handled' = [handled EXCEPT ![p] = Append(@, Len(handled[p]))]
    BY <1>1, <1>2 DEF ProcessRequest
  <1>8. /\ responding'[p].mid = responding[p].mid + 1 /\ responding'[p].packets = packets
        /\ \A q \in Peers \ {p} : responding'[q] = responding[q]
    <2>1. /\ Responded(p, m, packets).mid = responding[p].mid + 1
          /\ Responded(p, m, packets).packets = packets
      BY PeerTypes DEF Responded, RespondingType
    <2> QED BY <1>4, <2>1 DEF TypeOK
  <1>9. \A x \in net' : Carried(x) \/ x \in packets
    BY <1>2, <1>4 DEF Carried
  <1>10. \A q \in Peers : \A x \in responding'[q].packets : Carried(x) \/ x \in packets
    BY <1>8 DEF Carried
  <1>11. \A q \in Peers : Alive(q)' => Len(handled'[q]) = responding'[q].mid
    <2>1. \A q \in Peers \ {p} : Alive(q)' => Alive(q)
      BY DEF ProcessRequest, RespondingState, Alive, TypeOK
    <2>2. \A q \in Peers \ {p} : handled'[q] = handled[q]
      BY <1>7 DEF TypeOK
    <2>3. Len(handled'[p]) = Len(handled[p]) + 1
      BY <1>7 DEF TypeOK
    <2> QED BY <1>1, <1>8, <2>1, <2>2, <2>3 DEF ExchangeInv
  <1> QED BY <1>1, <1>3, <1>6, <1>7, <1>9, <1>10, <1>11, Answered

\* process_request() that ends the IKE_SA.
LEMMA CloseOnRequestQuiet ==
    ASSUME TypeOK, TypeOK', ExchangeInv, Quiet, NEW p \in Peers, NEW m \in net,
           Alive(p), m.src = Other(p), NEW ending \in Endings, CloseOnRequest(p, m, ending)
    PROVE  ExchangeInv' /\ Advance
  <1> DEFINE response == Packets(p, FALSE, responding[p].mid, m.type,
                                 RespFrags[m.type], KeysAtParse(p))
             packets == IF ending = "reject" THEN {} ELSE response
             t == TrackerAfter(p, AckedTracker(p, m), responding[p].mid, packets)
  <1>1. /\ m.mid = Len(handled[p]) /\ responding[p].mid = Len(handled[p])
        /\ Len(handled[p]) < Issued[Other(p)]
    BY RequestExpected DEF CloseOnRequest
  <1>2. AcksFor(p, m) = {} /\ AckedTracker(p, m) = tracker[p]
    BY QuietMessage
  <1>3. /\ ~Tracks(p, packets)
        /\ \A x \in packets : /\ x.src = p /\ x.req = FALSE /\ x.mid = responding[p].mid
                              /\ Unacknowledged(x)
    <2>1. m.type \in Exchanges /\ responding[p].mid \in Nat /\ KeysAtParse(p) \in Nat
      BY PeerTypes DEF TypeOK, Packet
    <2>2. /\ ~Tracks(p, response)
          /\ \A x \in response : /\ x.src = p /\ x.req = FALSE /\ x.mid = responding[p].mid
                                 /\ Unacknowledged(x)
      BY <2>1, QuietResponse
    <2>3. ~Tracks(p, {})
      BY FS_EmptySet DEF Tracks
    <2> HIDE DEF response
    <2> QED BY <2>2, <2>3
  <1>4. /\ tracker' = [tracker EXCEPT ![p] = t]
        /\ net' = net \cup AcksFor(p, m) \cup packets
        /\ UNCHANGED <<initiating, responding, completed>>
    BY DEF CloseOnRequest, window
  <1>5. t = tracker[p]
    BY <1>2, <1>3 DEF TrackerAfter
  <1>6. packets = {} \/ ending # "reject"
    OBVIOUS
  <1> HIDE DEF packets, t
  <1>7. tracker' = tracker
    BY <1>4, <1>5 DEF TypeOK
  <1>8. \A q \in Peers : Alive(q)' => Alive(q) /\ q # p
    BY DEF CloseOnRequest, Destroyed, Alive, TypeOK
  <1>9. \A x \in net' : Carried(x) \/ x \in packets
    BY <1>2, <1>4 DEF Carried
  <1>10. CASE ending = "close"
    <2>1. handled' = [handled EXCEPT ![p] = Append(@, Len(handled[p]))]
      BY <1>1, <1>10 DEF CloseOnRequest
    <2>2. \A q \in Peers : Alive(q)' => Len(handled'[q]) = responding'[q].mid
      BY <1>4, <1>8, <2>1 DEF ExchangeInv, TypeOK
    <2>3. \A q \in Peers : \A x \in responding'[q].packets : Carried(x) \/ x \in packets
      BY <1>4 DEF Carried
    <2>4. UNCHANGED <<initiating, tracker, completed>>
      BY <1>4, <1>7
    <2> QED BY <1>1, <1>3, <1>9, <2>1, <2>2, <2>3, <2>4, Answered
  <1>11. CASE ending = "reject"
    <2>1. handled' = handled
      BY <1>11 DEF CloseOnRequest, TypeOK
    <2>2. \A x \in net' : Carried(x)
      BY <1>6, <1>9, <1>11
    <2> QED BY <1>4, <1>7, <1>8, <2>1, <2>2, Stutters
  <1> QED BY <1>10, <1>11, ModeAssumption

\* A response that is processed answers the outstanding request.
LEMMA ResponseExpected ==
    ASSUME TypeOK, ExchangeInv, NEW p \in Peers, NEW m \in net,
           m.src = Other(p), ~m.req, Arrives(p, m)
    PROVE  /\ m.mid = initiating[p].mid
           /\ initiating[p].mid < Len(handled[Other(p)])
           /\ initiating[p].type # "UNDEFINED"
  <1>1. m.mid = initiating[p].mid
    BY DEF Arrives, Expected
  <1>2. Sound(m)
    BY DEF ExchangeInv
  <1>3. initiating[p].mid < Len(handled[Other(p)])
    BY <1>1, <1>2 DEF Sound
  <1>4. Len(handled[Other(p)]) <= Issued[p]
    BY DEF ExchangeInv
  <1> QED BY <1>1, <1>3, <1>4, Counters, Constants DEF Numbers

\* The request window afterwards.
LEMMA IdleFields ==
    ASSUME TypeOK, NEW p \in Peers, NEW m
    PROVE  /\ Idle(p, m).mid = initiating[p].mid + 1 /\ Idle(p, m).type = "UNDEFINED"
           /\ Idle(p, m).packets = {}
  BY PeerTypes DEF Idle, InitiatingType

\* process_response() that leaves the window idle.
LEMMA ProcessResponseQuiet ==
    ASSUME TypeOK, TypeOK', ExchangeInv, NEW p \in Peers, NEW m \in net,
           m.src = Other(p), Alive(p), ProcessResponse(p, m)
    PROVE  ExchangeInv' /\ Advance
  <1>1. /\ m.mid = initiating[p].mid /\ initiating[p].mid < Len(handled[Other(p)])
        /\ initiating[p].type # "UNDEFINED"
    BY ResponseExpected DEF ProcessResponse
  <1>2. /\ initiating'[p].mid = initiating[p].mid + 1 /\ initiating'[p].type = "UNDEFINED"
        /\ initiating'[p].packets = {}
        /\ \A q \in Peers \ {p} : initiating'[q] = initiating[q]
    BY IdleFields DEF ProcessResponse, TypeOK
  <1>3. \A q \in Peers : /\ responding'[q].mid = responding[q].mid
                         /\ responding'[q].packets = responding[q].packets
    BY DEF ProcessResponse, TypeOK, RespondingType
  <1>4. UNCHANGED <<tracker, handled>> /\ net' = net
    BY QuietMessage DEF ProcessResponse
  <1>5. Moves(p, 0, 0, 1)
    BY <1>1, <1>2, <1>4, Counters, CountersAfter DEF Moves, Numbers
  <1>6. Moves(Other(p), 0, 0, 0)
    <2>1. Other(p) \in Peers \ {p}
      BY Constants
    <2>2. Issued'[Other(p)] = Issued[Other(p)]
      BY <1>2, <2>1 DEF Issued, Outstanding
    <2> QED BY <1>2, <1>4, <2>1, <2>2, Counters DEF Moves, Numbers
  <1>7. Advance
    BY <1>1, <1>5, <1>6 DEF Advance
  <1>8. \A x : Carried(x)' => Carried(x)
    BY <1>2, <1>3, <1>4 DEF Carried
  <1>9. \A q \in Peers : Alive(q)' => Alive(q)
    BY DEF ProcessResponse, StateAfter, Alive, TypeOK
  <1>10. \A q \in Peers : \A mid \in completed'[q] : mid < initiating'[q].mid
    <2>1. /\ completed'[p] = completed[p] \cup {m.mid}
          /\ \A q \in Peers \ {p} : completed'[q] = completed[q]
      BY <1>1 DEF ProcessResponse, Complete, TypeOK
    <2>2. completed[p] \subseteq Nat /\ initiating[p].mid \in Nat
      BY PeerTypes DEF TypeOK
    <2> QED BY <1>1, <1>2, <2>1, <2>2 DEF ExchangeInv
  <1>11. \A q \in Peers : /\ tracker'[q].total = 0
                          /\ Alive(q)' => Len(handled'[q]) = responding'[q].mid
                          /\ \A i \in 1..Len(handled'[q]) : handled'[q][i] = i - 1
    BY <1>3, <1>4, <1>9 DEF ExchangeInv
  <1> QED BY <1>7, <1>8, <1>10, <1>11, Preserved

\* process_response() that starts the next exchange.
LEMMA InitiateNextQuiet ==
    ASSUME TypeOK, TypeOK', ExchangeInv, Quiet, NEW p \in Peers, NEW m \in net,
           m.src = Other(p), Alive(p), NEW type \in Exchanges, InitiateNext(p, m, type)
    PROVE  ExchangeInv' /\ Advance
  <1>1. /\ m.mid = initiating[p].mid /\ initiating[p].mid < Len(handled[Other(p)])
        /\ initiating[p].type # "UNDEFINED"
    BY ResponseExpected DEF InitiateNext
  <1>2. /\ Idle(p, m) \in InitiatingType
        /\ Idle(p, m).mid = initiating[p].mid + 1 /\ Idle(p, m).packets = {}
    BY IdleType, IdleFields DEF TypeOK
  <1>3. type # "UNDEFINED" /\ KeysAfter(p) \in Nat
    BY PeerTypes DEF Exchanges, KeysAfter
  <1>4. StartExchange(p, type, Idle(p, m), KeysAfter(p),
                      peer_supports[p] \/ m.sel, AcksFor(p, m))
    BY DEF InitiateNext
  <1>5. /\ initiating'[p].mid = initiating[p].mid + 1
        /\ initiating'[p].type = type
        /\ \A q \in Peers \ {p} : initiating'[q] = initiating[q]
        /\ tracker' = tracker
        /\ SendsRequest(p, initiating[p].mid + 1, {}, AcksFor(p, m))
    <2>1. tracker[p].total = 0
      BY DEF ExchangeInv
    <2>2. /\ initiating'[p].mid = Idle(p, m).mid
          /\ initiating'[p].type = type
          /\ \A q \in Peers \ {p} : initiating'[q] = initiating[q]
          /\ tracker' = tracker
          /\ SendsRequest(p, Idle(p, m).mid, Idle(p, m).packets, AcksFor(p, m))
      <3>1. PICK ini, key, sup, out :
              /\ ini \in InitiatingType /\ ini = Idle(p, m)
              /\ key \in Nat /\ key = KeysAfter(p)
              /\ sup = (peer_supports[p] \/ m.sel) /\ out = AcksFor(p, m)
        BY <1>2, <1>3
      <3>2. StartExchange(p, type, ini, key, sup, out)
        BY <1>4, <3>1
      <3>3. /\ initiating'[p].mid = ini.mid /\ initiating'[p].type = type
            /\ \A q \in Peers \ {p} : initiating'[q] = initiating[q]
            /\ tracker' = tracker
            /\ SendsRequest(p, ini.mid, ini.packets, out)
        BY <2>1, <3>1, <3>2, StartExchangeQuiet
      <3> QED BY <3>1, <3>3
    <2> QED BY <1>2, <2>2
  <1>6. PICK packets :
          /\ initiating'[p].packets = packets
          /\ net' \subseteq net \cup packets
          /\ \A x \in packets : /\ x.src = p /\ x.req = TRUE
                                /\ x.mid = initiating[p].mid + 1 /\ Unacknowledged(x)
    <2>1. AcksFor(p, m) = {}
      BY QuietMessage
    <2>2. PICK packets :
            /\ initiating'[p].packets = {} \cup packets
            /\ net' \subseteq net \cup AcksFor(p, m) \cup {} \cup packets
            /\ \A x \in packets : /\ x.src = p /\ x.req = TRUE
                                  /\ x.mid = initiating[p].mid + 1 /\ Unacknowledged(x)
      BY <1>5 DEF SendsRequest
    <2> WITNESS packets
    <2> QED BY <2>1, <2>2
  <1>7. \A q \in Peers : /\ responding'[q].mid = responding[q].mid
                         /\ responding'[q].packets = responding[q].packets
    BY DEF InitiateNext, TypeOK, RespondingType
  <1>8. handled' = handled /\ \A q \in Peers : Alive(q)' => Alive(q)
    BY DEF InitiateNext, StateAfter, Alive, TypeOK
  <1>9. /\ Issued[p] = initiating[p].mid + 1 /\ Issued'[p] = initiating[p].mid + 2
        /\ initiating[p].mid \in Nat
    BY <1>1, <1>3, <1>5, Counters, CountersAfter DEF Numbers
  <1>10. Moves(p, 1, 0, 1)
    BY <1>5, <1>8, <1>9, Counters DEF Moves, Numbers
  <1>11. Moves(Other(p), 0, 0, 0)
    <2>1. Other(p) \in Peers \ {p}
      BY Constants
    <2>2. Issued'[Other(p)] = Issued[Other(p)]
      BY <1>5, <2>1 DEF Issued, Outstanding
    <2> QED BY <1>5, <1>8, <2>1, <2>2, Counters DEF Moves, Numbers
  <1>12. Advance
    BY <1>1, <1>10, <1>11 DEF Advance
  <1>13. ASSUME NEW x, Carried(x)' PROVE Carried(x) \/ Sound(x)'
    <2>1. Carried(x) \/ x \in packets
      BY <1>5, <1>6, <1>7, <1>13 DEF Carried
    <2>2. ASSUME x \in packets PROVE Sound(x)'
      BY <1>6, <1>9, <2>2 DEF Sound, Unacknowledged
    <2> QED BY <2>1, <2>2
  <1>14. \A q \in Peers : \A mid \in completed'[q] : mid < initiating'[q].mid
    <2>1. /\ completed'[p] = completed[p] \cup {m.mid}
          /\ \A q \in Peers \ {p} : completed'[q] = completed[q]
      BY <1>1 DEF InitiateNext, Complete, TypeOK
    <2>2. completed[p] \subseteq Nat
      BY DEF TypeOK
    <2>3. \A q \in Peers : \A mid \in completed[q] : mid < initiating[q].mid
      BY DEF ExchangeInv
    <2>4. ASSUME NEW mid \in completed'[p] PROVE mid < initiating'[p].mid
      BY <1>1, <1>5, <1>9, <2>1, <2>2, <2>3, <2>4
    <2>5. \A q \in Peers \ {p} : \A mid \in completed'[q] : mid < initiating'[q].mid
      BY <1>5, <2>1, <2>3
    <2> QED BY <2>4, <2>5
  <1>15. \A q \in Peers : /\ tracker'[q].total = 0
                          /\ Alive(q)' => Len(handled'[q]) = responding'[q].mid
                          /\ \A i \in 1..Len(handled'[q]) : handled'[q][i] = i - 1
    BY <1>5, <1>7, <1>8 DEF ExchangeInv
  <1> QED BY <1>12, <1>13, <1>14, <1>15, Preserved

\* The invariant holds initially.
LEMMA InitQuiet == Init => ExchangeInv
  <1> SUFFICES ASSUME Init PROVE ExchangeInv
    OBVIOUS
  <1>1. net = {}
    BY DEF Init
  <1>2. ASSUME NEW p \in Peers
        PROVE  /\ initiating[p].packets = {} /\ responding[p].packets = {}
               /\ tracker[p].total = 0 /\ handled[p] = <<>> /\ completed[p] = {}
               /\ initiating[p].mid = 0 /\ responding[p].mid = 0
               /\ Issued[p] = 0
    BY DEF Init, NoTracker, Issued, Outstanding
  <1>3. Len(<<>>) = 0
    OBVIOUS
  <1> QED BY <1>1, <1>2, <1>3, Constants DEF ExchangeInv

\* Every step keeps the invariant and moves the message IDs as promised.
LEMMA NextQuiet ==
    ASSUME TypeOK, TypeOK', ExchangeInv, Quiet, [Next]_vars
    PROVE  ExchangeInv' /\ Advance
  <1>1. ASSUME NEW p \in Peers, NEW type \in Exchanges, Initiate(p, type)
        PROVE  ExchangeInv' /\ Advance
    BY <1>1, InitiateQuiet
  <1>2. ASSUME NEW p \in Peers, NEW mid \in DOMAIN jobs[p], RetransmitJob(p, mid)
        PROVE  ExchangeInv' /\ Advance
    BY <1>2, RetransmitJobQuiet
  <1>3. ASSUME NEW p \in Peers, NEW m \in net, ProcessMessage(p, m)
        PROVE  ExchangeInv' /\ Advance
    <2>0. Alive(p) /\ m.src = Other(p)
      BY <1>3 DEF ProcessMessage
    <2>1. CASE ResendResponse(p, m) \/ UnexpectedId(p, m) \/ Dropped(p, m)
      BY <2>1, IgnoredQuiet
    <2>2. CASE CollectFragment(p, m)
      BY <2>2, CollectFragmentQuiet
    <2>3. CASE ProcessRequest(p, m)
      BY <2>0, <2>3, ProcessRequestQuiet
    <2>4. CASE \E ending \in Endings : CloseOnRequest(p, m, ending)
      BY <2>0, <2>4, CloseOnRequestQuiet
    <2>5. CASE ProcessResponse(p, m)
      BY <2>0, <2>5, ProcessResponseQuiet
    <2>6. CASE \E type \in Exchanges : InitiateNext(p, m, type)
      BY <2>0, <2>6, InitiateNextQuiet
    <2>7. CASE CloseOnResponse(p, m)
      BY <2>7, CloseOnResponseQuiet
    <2> QED BY <1>3, <2>1, <2>2, <2>3, <2>4, <2>5, <2>6, <2>7 DEF ProcessMessage
  <1>4. ASSUME NEW p \in Peers, HalfOpenTimeout(p) \/ HeapAbort(p)
        PROVE  ExchangeInv' /\ Advance
    BY <1>4, EndsQuiet
  <1>5. CASE UNCHANGED vars
    <2>1. UNCHANGED <<initiating, responding, tracker, handled, completed, net, state>>
      BY <1>5 DEF vars, window, history
    <2>2. \A q \in Peers : Alive(q)' => Alive(q)
      BY <2>1 DEF Alive
    <2>3. \A m \in net' : Carried(m)
      BY <2>1 DEF Carried
    <2> QED BY <2>1, <2>2, <2>3, Stutters
  <1> QED BY <1>1, <1>2, <1>3, <1>4, <1>5 DEF Next

-----------------------------------------------------------------------------
(* Theorems.                                                               *)

\* The message IDs of a request window never run ahead of what the other peer
\* executed, no peer executes what was not issued, and every packet in flight
\* belongs to an exchange that took place (process_message, its window checks).
THEOREM ExchangeInvariant == ASSUME Quiet PROVE Spec => []ExchangeInv
  <1>1. Init => ExchangeInv
    BY InitQuiet
  <1>2. TypeOK /\ TypeOK' /\ ExchangeInv /\ [Next]_vars => ExchangeInv'
    BY NextQuiet
  <1> QED BY <1>1, <1>2, TypeCorrect, PTL DEF Spec

\* The window a living peer accepts requests in follows the window of the other
\* peer: the expected message ID is that of the outstanding request or, once it
\* was answered, the next (process_request and process_response advance them).
THEOREM WindowSyncCorrect == ASSUME Quiet PROVE Spec => []WindowSync
  <1>1. TypeOK /\ ExchangeInv => WindowSync
    <2> SUFFICES ASSUME TypeOK, ExchangeInv, NEW p \in Peers, Alive(Other(p))
                 PROVE  responding[Other(p)].mid - initiating[p].mid
                            \in IF Outstanding(p) THEN {0, 1} ELSE {0}
      BY DEF WindowSync
    <2>1. Other(p) \in Peers
      BY Constants
    <2>2. /\ Len(handled[Other(p)]) = responding[Other(p)].mid
          /\ initiating[p].mid <= Len(handled[Other(p)])
          /\ Len(handled[Other(p)]) <= Issued[p]
      BY <2>1 DEF ExchangeInv
    <2>3. /\ initiating[p].mid \in Nat /\ responding[Other(p)].mid \in Nat
          /\ Issued[p] = IF Outstanding(p) THEN initiating[p].mid + 1 ELSE initiating[p].mid
      BY <2>1, Counters DEF Numbers, Outstanding
    <2> QED BY <2>2, <2>3
  <1> QED BY <1>1, TypeCorrect, ExchangeInvariant, PTL

\* A request completes only after the other peer executed it.
THEOREM CompletedWasHandledCorrect == ASSUME Quiet PROVE Spec => []CompletedWasHandled
  <1>1. TypeOK /\ ExchangeInv => CompletedWasHandled
    <2> SUFFICES ASSUME TypeOK, ExchangeInv, NEW p \in Peers, NEW mid \in completed[p]
                 PROVE  \E i \in DOMAIN handled[Other(p)] : handled[Other(p)][i] = mid
      BY DEF CompletedWasHandled
    <2>1. Other(p) \in Peers
      BY Constants
    <2>2. /\ mid < initiating[p].mid /\ initiating[p].mid <= Len(handled[Other(p)])
          /\ \A i \in 1..Len(handled[Other(p)]) : handled[Other(p)][i] = i - 1
      BY <2>1 DEF ExchangeInv
    <2>3. mid \in Nat /\ initiating[p].mid \in Nat /\ Len(handled[Other(p)]) \in Nat
      BY <2>1, Counters DEF Numbers, TypeOK
    <2>4. DOMAIN handled[Other(p)] = 1..Len(handled[Other(p)])
      BY <2>1 DEF TypeOK
    <2>5. mid + 1 \in 1..Len(handled[Other(p)])
      BY <2>2, <2>3
    <2>6. handled[Other(p)][mid + 1] = mid
      BY <2>2, <2>3, <2>5
    <2> QED BY <2>4, <2>5, <2>6
  <1> QED BY <1>1, TypeCorrect, ExchangeInvariant, PTL

\* The message IDs as the variables of ReliableExchange.
Executed  == [p \in Peers |-> Len(handled[Other(p)])]
Completed == [p \in Peers |-> initiating[p].mid]

\* Counters of the peers that agree everywhere are equal.
LEMMA SameCounters ==
    ASSUME NEW f, NEW g, f = [q \in Peers |-> f[q]], g = [q \in Peers |-> g[q]],
           \A q \in Peers : g[q] = f[q]
    PROVE  g = f
  <1>1. [q \in Peers |-> g[q]] = [q \in Peers |-> f[q]]
    OBVIOUS
  <1> QED BY <1>1

\* Counters of the peers of which one advanced.
LEMMA OneCounter ==
    ASSUME NEW f, NEW g, f = [q \in Peers |-> f[q]], g = [q \in Peers |-> g[q]],
           NEW p \in Peers, g[p] = f[p] + 1, \A q \in Peers \ {p} : g[q] = f[q]
    PROVE  g = [f EXCEPT ![p] = @ + 1]
  <1> DEFINE h == [f EXCEPT ![p] = @ + 1]
  <1>1. h = [q \in Peers |-> h[q]] /\ \A q \in Peers : g[q] = h[q]
    OBVIOUS
  <1> HIDE DEF h
  <1>2. g = h
    BY <1>1, SameCounters
  <1> QED BY <1>2 DEF h

\* A step that moves the message IDs as promised is a step of ReliableExchange.
LEMMA PromiseStep ==
    ASSUME TypeOK, TypeOK', Advance
    PROVE  [Promise!Next]_(Promise!vars)
  <1>1. \A q \in Peers : /\ Issued[q] \in Nat /\ Len(handled[q]) \in Nat
                         /\ initiating[q].mid \in Nat
    BY Counters DEF Numbers
  <1>f. /\ Issued = [q \in Peers |-> Issued[q]] /\ Issued' = [q \in Peers |-> Issued'[q]]
        /\ Executed = [q \in Peers |-> Executed[q]]
        /\ Executed' = [q \in Peers |-> Executed'[q]]
        /\ Completed = [q \in Peers |-> Completed[q]]
        /\ Completed' = [q \in Peers |-> Completed'[q]]
    BY DEF Issued, Executed, Completed
  <1>g. \A q \in Peers : /\ Executed[q] = Len(handled[Other(q)])
                         /\ Executed'[q] = Len(handled'[Other(q)])
                         /\ Completed[q] = initiating[q].mid
                         /\ Completed'[q] = initiating'[q].mid
    BY DEF Executed, Completed
  <1>2. CASE \A q \in Peers : Moves(q, 0, 0, 0)
    <2>1. \A q \in Peers : /\ Issued'[q] = Issued[q] /\ Len(handled'[q]) = Len(handled[q])
                           /\ initiating'[q].mid = initiating[q].mid
      BY <1>1, <1>2 DEF Moves
    <2>3. \A q \in Peers : Executed'[q] = Executed[q] /\ Completed'[q] = Completed[q]
      BY <1>g, <2>1, Constants
    <2>2. Issued' = Issued /\ Executed' = Executed /\ Completed' = Completed
      BY <1>f, <2>1, <2>3, SameCounters
    <2> QED BY <2>2 DEF Promise!vars, Issued, Executed, Completed
  <1>3. ASSUME NEW p \in Peers, Moves(Other(p), 0, 0, 0)
        PROVE  LET o == Other(p) IN
               /\ o \in Peers /\ o # p /\ \A q \in Peers : q = p \/ q = o
               /\ Other(o) = p
               /\ Issued'[o] = Issued[o] /\ Len(handled'[o]) = Len(handled[o])
               /\ initiating'[o].mid = initiating[o].mid
    BY <1>1, <1>3, Constants DEF Moves
  <1>4. ASSUME NEW p \in Peers, Moves(Other(p), 0, 0, 0), Moves(p, 1, 0, 0),
               Issued[p] = initiating[p].mid
        PROVE  Promise!Next
    <2>0. Issued'[p] = Issued[p] + 1
      BY <1>4 DEF Moves
    <2>1. Issued' = [Issued EXCEPT ![p] = @ + 1]
      <3>1. \A q \in Peers \ {p} : Issued'[q] = Issued[q]
        BY <1>3, <1>4
      <3> QED BY <1>f, <2>0, <3>1, OneCounter
    <2>5. Len(handled'[p]) = Len(handled[p]) /\ initiating'[p].mid = initiating[p].mid
      BY <1>1, <1>4 DEF Moves
    <2>6. \A q \in Peers : /\ Len(handled'[q]) = Len(handled[q])
                           /\ initiating'[q].mid = initiating[q].mid
      BY <1>3, <1>4, <2>5
    <2>7. \A q \in Peers : Executed'[q] = Executed[q] /\ Completed'[q] = Completed[q]
      BY <1>g, <2>6, Constants
    <2>2. Executed' = Executed /\ Completed' = Completed
      BY <1>f, <2>7, SameCounters
    <2>3. Issued[p] = Completed[p]
      BY <1>4 DEF Completed
    <2>4. Promise!Issue(p)
      BY <2>1, <2>2, <2>3 DEF Promise!Issue, Issued, Executed, Completed
    <2> QED BY <2>4 DEF Promise!Next
  <1>5. ASSUME NEW p \in Peers, Moves(Other(p), 0, 0, 0), Moves(p, 0, 1, 0),
               Len(handled[p]) < Issued[Other(p)]
        PROVE  Promise!Next
    <2> DEFINE o == Other(p)
    <2>1. o \in Peers /\ Other(o) = p
      BY Constants
    <2>2. Executed' = [Executed EXCEPT ![o] = @ + 1]
      <3>1. Executed'[o] = Executed[o] + 1
        BY <1>5, <1>g, <2>1 DEF Moves
      <3>2. \A q \in Peers \ {o} : Executed'[q] = Executed[q]
        BY <1>3, <1>5, <1>g
      <3> QED BY <1>f, <2>1, <3>1, <3>2, OneCounter
    <2>0. Issued'[p] = Issued[p] /\ initiating'[p].mid = initiating[p].mid
      BY <1>1, <1>5 DEF Moves
    <2>3. Issued' = Issued /\ Completed' = Completed
      <3>1. \A q \in Peers : Issued'[q] = Issued[q] /\ Completed'[q] = Completed[q]
        BY <1>3, <1>5, <1>g, <2>0
      <3> QED BY <1>f, <3>1, SameCounters
    <2>4. Executed[o] < Issued[o]
      BY <1>5, <2>1 DEF Executed
    <2>5. Promise!Execute(o)
      BY <2>2, <2>3, <2>4 DEF Promise!Execute, Issued, Executed, Completed
    <2> QED BY <2>1, <2>5 DEF Promise!Next
  <1>6. ASSUME NEW p \in Peers, Moves(Other(p), 0, 0, 0),
               Moves(p, 0, 0, 1) \/ Moves(p, 1, 0, 1),
               initiating[p].mid < Len(handled[Other(p)])
        PROVE  Promise!Next
    <2>1. Completed' = [Completed EXCEPT ![p] = @ + 1]
      <3>1. Completed'[p] = Completed[p] + 1
        BY <1>6, <1>g DEF Moves
      <3>2. \A q \in Peers \ {p} : Completed'[q] = Completed[q]
        BY <1>3, <1>6, <1>g
      <3> QED BY <1>f, <3>1, <3>2, OneCounter
    <2>2. Executed' = Executed
      <3>1. Len(handled'[p]) = Len(handled[p])
        BY <1>1, <1>6 DEF Moves
      <3>2. \A q \in Peers : Executed'[q] = Executed[q]
        BY <1>3, <1>6, <1>g, <3>1
      <3> QED BY <1>f, <3>2, SameCounters
    <2>0. Issued'[p] = Issued[p] \/ Issued'[p] = Issued[p] + 1
      BY <1>1, <1>6 DEF Moves
    <2>6. \A q \in Peers \ {p} : Issued'[q] = Issued[q]
      BY <1>3, <1>6
    <2>3. Issued' = Issued \/ Issued' = [Issued EXCEPT ![p] = @ + 1]
      <3>1. ASSUME Issued'[p] = Issued[p]  PROVE Issued' = Issued
        BY <1>3, <1>6, <1>f, <2>6, <3>1, SameCounters
      <3>2. ASSUME Issued'[p] = Issued[p] + 1
            PROVE  Issued' = [Issued EXCEPT ![p] = @ + 1]
        BY <1>f, <2>6, <3>2, OneCounter
      <3> QED BY <2>0, <3>1, <3>2
    <2>4. Completed[p] < Executed[p]
      BY <1>6 DEF Completed, Executed
    <2>5. Promise!Complete(p)
      BY <2>1, <2>2, <2>3, <2>4 DEF Promise!Complete, Issued, Executed, Completed
    <2> QED BY <2>5 DEF Promise!Next
  <1> QED BY <1>2, <1>4, <1>5, <1>6 DEF Advance

\* Without acknowledgments of fragments, the message layer implements reliable
\* exchanges: every request is executed at most once, in order, one at a time,
\* and completes only when it was executed, whatever is lost, repeated or
\* reordered (task_manager_v2.c, its windows and its replay detection).
THEOREM PromiseCorrect == ASSUME Quiet PROVE Spec => PromiseKept
  <1>1. Init => Promise!Init
    BY DEF Init, Promise!Init, Outstanding, Peers, Other
  <1>2. TypeOK /\ TypeOK' /\ ExchangeInv /\ [Next]_vars => [Promise!Next]_(Promise!vars)
    BY NextQuiet, PromiseStep
  <1> QED BY <1>1, <1>2, TypeCorrect, ExchangeInvariant, PTL DEF Spec, PromiseKept, Promise!Spec

-----------------------------------------------------------------------------
(* Requests and their answers.                                             *)

\* A peer in the initial exchanges.
Initial(p) == state[p] \in {"CREATED", "CONNECTING"}

\* The outstanding request of p, and what p answered last, are in the network.  No
\* other request of p has that message ID, and a job will send it again.
RequestSound(p) ==
    LET ini == initiating[p] IN
    /\ ini.packets \cup responding[p].packets \subseteq net
    /\ (ini.packets = {}) <=> ~Outstanding(p)
    /\ \A m \in ini.packets : m.req /\ m.mid = ini.mid /\ m.type = ini.type
    /\ Outstanding(p) =>
          \A m \in net : m.src = p /\ m.req /\ m.mid = ini.mid => m \in ini.packets
    /\ Alive(p) /\ Outstanding(p) => ini.mid \in DOMAIN jobs[p]

\* A peer that has answered the outstanding request of p has the answer stored, and the
\* first packet of the request as the last one it processed.
AnswerSound(p) ==
    LET ini == initiating[p]  res == responding[Other(p)] IN
    Alive(Other(p)) /\ Outstanding(p) /\ res.mid = ini.mid + 1 =>
        /\ res.packets # {}
        /\ \E m \in ini.packets : m.frag = 1 /\ res.prev_hash = {m}
        /\ \A x \in res.packets : ~x.req /\ x.mid = ini.mid /\ x.type = ini.type

\* While the responder has no established IKE_SA it requests nothing, so that the hash
\* it has is of the first fragment of the request it collects.
CollectSound ==
    LET res == responding[R]  d == res.defrag IN
    Initial(R) =>
        /\ ~Outstanding(R)
        /\ d.total > 0 =>
              /\ d.mid = res.mid
              /\ 1 \in d.got =>
                    \E m \in net : /\ m.src = I /\ m.req /\ m.mid = res.mid
                                   /\ m.frag = 1 /\ res.hash = {m}

\* The inductive invariant.
AnswersInv == CollectSound /\ \A p \in Peers : RequestSound(p) /\ AnswerSound(p)

\* The windows of p, and the bag of jobs, a step leaves alone.
SameRequest(p) ==
    /\ initiating'[p].mid = initiating[p].mid /\ initiating'[p].type = initiating[p].type
    /\ initiating'[p].packets = initiating[p].packets

SameAnswer(p) ==
    /\ responding'[p].mid = responding[p].mid /\ responding'[p].packets = responding[p].packets
    /\ responding'[p].prev_hash = responding[p].prev_hash

\* A request stays outstanding, whatever else is sent.
LEMMA RequestStays ==
    ASSUME NEW p \in Peers, RequestSound(p), SameRequest(p), Alive(p)' => Alive(p),
           net \subseteq net', \A m \in net' \ net : ~(m.src = p /\ m.req),
           responding'[p].packets \subseteq net',
           Alive(p)' /\ Outstanding(p) => initiating[p].mid \in DOMAIN jobs'[p]
    PROVE  RequestSound(p)'
  <1>1. Outstanding(p)' <=> Outstanding(p)
    BY DEF SameRequest, Outstanding
  <1> QED BY <1>1 DEF RequestSound, SameRequest

\* An answer stays what it is.
LEMMA AnswerStays ==
    ASSUME NEW p \in Peers, AnswerSound(p), SameRequest(p), SameAnswer(Other(p)),
           Alive(Other(p))' => Alive(Other(p))
    PROVE  AnswerSound(p)'
  <1>1. Outstanding(p)' <=> Outstanding(p)
    BY DEF SameRequest, Outstanding
  <1> QED BY <1>1 DEF AnswerSound, SameRequest, SameAnswer

\* What is collected stays what it is.
LEMMA CollectStays ==
    ASSUME CollectSound, Initial(R)' => Initial(R), SameRequest(R), net \subseteq net',
           responding'[R].mid = responding[R].mid, responding'[R].hash = responding[R].hash,
           responding'[R].defrag = responding[R].defrag
    PROVE  CollectSound'
  <1>1. Outstanding(R)' <=> Outstanding(R)
    BY DEF SameRequest, Outstanding
  <1> QED BY <1>1 DEF CollectSound

\* A step that neither starts nor answers nor completes an exchange.
LEMMA AnswersStay ==
    ASSUME AnswersInv, CollectSound', net' = net,
           \A q \in Peers : SameRequest(q) /\ SameAnswer(q) /\ (Alive(q)' => Alive(q)),
           \A q \in Peers : Alive(q)' /\ Outstanding(q) => initiating[q].mid \in DOMAIN jobs'[q]
    PROVE  AnswersInv'
  <1>1. ASSUME NEW q \in Peers PROVE RequestSound(q)' /\ AnswerSound(q)'
    <2>1. RequestSound(q) /\ AnswerSound(q) /\ Other(q) \in Peers
      BY Constants DEF AnswersInv
    <2>2. responding'[q].packets \subseteq net'
      BY <2>1 DEF RequestSound, SameAnswer
    <2>3. RequestSound(q)'
      BY <2>1, <2>2, RequestStays
    <2>4. AnswerSound(q)'
      BY <2>1, AnswerStays
    <2> QED BY <2>3, <2>4
  <1> QED BY <1>1 DEF AnswersInv

\* The same with the jobs left alone.
LEMMA TimedStays ==
    ASSUME AnswersInv, NEW q \in Peers, Alive(q)' => Alive(q), jobs'[q] = jobs[q],
           Alive(q)', Outstanding(q)
    PROVE  initiating[q].mid \in DOMAIN jobs'[q]
  BY DEF AnswersInv, RequestSound

\* A job is removed from the bag, or added.
LEMMA OtherJobs ==
    ASSUME NEW b, IsABag(b), NEW mid, NEW other \in DOMAIN b, other # mid
    PROVE  other \in DOMAIN (b (-) SetToBag({mid}))
  BY DEF IsABag, SetToBag, (-)

\* retransmit_job: the outstanding request is sent again, or the IKE_SA ends.
LEMMA RetransmitJobAnswers ==
    ASSUME TypeOK, TypeOK', ExchangeInv, AnswersInv, NEW p \in Peers,
           NEW mid \in DOMAIN jobs[p], RetransmitJob(p, mid)
    PROVE  AnswersInv'
  <1> DEFINE ini == initiating[p]
             t == tracker[p]
             b == jobs[p] (-) SetToBag({mid})
             up == GivesUp(p, mid, ini, t)
  <1>1. t.total = 0 /\ t \in TrackerType /\ ini \in InitiatingType /\ mid \in Nat
    BY PeerTypes DEF ExchangeInv, TypeOK
  <1>2. ~Tracked(p, t, mid) /\ ~Tracked(p, t, ini.mid)
    BY <1>1 DEF Tracked
  <1>3. Effective(p, mid) = mid
    BY <1>2 DEF Effective
  <1>4. Retransmit(p, mid, ini, t, peer_supports[p], b, {})
    BY <1>3 DEF RetransmitJob
  <1>5. state' = IF up THEN Destroyed(p, FALSE) ELSE state
    BY <1>3 DEF RetransmitJob
  <1>6. /\ initiating'[p].mid = ini.mid /\ initiating'[p].type = ini.type
        /\ initiating'[p].packets = ini.packets /\ initiating'[p].defrag = ini.defrag
        /\ \A q \in Peers \ {p} : initiating'[q] = initiating[q]
        /\ net \subseteq net' /\ net' \subseteq net \cup {} \cup ini.packets \cup t.packets
    BY <1>1, <1>4, RetransmitSends
  <1>7. net' = net
    <2>1. net' \subseteq net \cup {} \cup ini.packets
      BY <1>1, <1>4, RetransmitQuiet
    <2> QED BY <1>6, <2>1 DEF AnswersInv, RequestSound
  <1>8. \A q \in Peers : (Alive(q)' => Alive(q)) /\ (Initial(q)' => Initial(q))
    BY <1>5 DEF Destroyed, Alive, Initial, TypeOK
  <1>9. UNCHANGED responding
    BY DEF RetransmitJob
  <1>10. \A q \in Peers : SameRequest(q) /\ SameAnswer(q)
    BY <1>6, <1>9 DEF SameRequest, SameAnswer
  <1>11. CollectSound'
    BY <1>7, <1>8, <1>9, <1>10, CollectStays, Constants DEF AnswersInv
  <1>12. ASSUME Alive(p)', Outstanding(p) PROVE ini.mid \in DOMAIN jobs'[p]
    <2>1. /\ ini.mid \in DOMAIN jobs[p] /\ ini.packets # {}
          /\ IsABag(jobs[p]) /\ DOMAIN jobs[p] \subseteq Nat
      BY <1>8, <1>12 DEF AnswersInv, RequestSound, TypeOK
    <2>2. /\ IsABag(b) /\ DOMAIN b \subseteq Nat
      BY <1>1, <2>1, JobsType
    <2>3. jobs'[p] = IF Resends(p, mid, ini, t) THEN b (+) SetToBag({mid}) ELSE b
      BY <1>4 DEF Retransmit, TypeOK
    <2>4. IsABag(b) /\ DOMAIN (b (+) SetToBag({mid})) = DOMAIN b \cup {mid}
      BY <1>1, <2>2, JobsType
    <2>5. CASE mid = ini.mid
      <3>1. Due(p, mid, ini, t)
        BY <1>2, <2>1, <2>5 DEF Due, Pending
      <3>2. ~up
        BY <1>5, <1>12 DEF Destroyed, Alive, TypeOK
      <3>3. Resends(p, mid, ini, t)
        BY <3>1, <3>2 DEF Resends
      <3> HIDE DEF b
      <3> QED BY <2>3, <2>4, <2>5, <3>3
    <2>6. CASE mid # ini.mid
      <3>1. ini.mid \in DOMAIN b
        BY <2>1, <2>6, OtherJobs
      <3> HIDE DEF b
      <3> QED BY <2>3, <2>4, <3>1
    <2> QED BY <2>5, <2>6
  <1>13. ASSUME NEW q \in Peers, q # p PROVE jobs'[q] = jobs[q]
    BY <1>4, <1>13 DEF Retransmit, TypeOK
  <1>14. \A q \in Peers : Alive(q)' /\ Outstanding(q) => initiating[q].mid \in DOMAIN jobs'[q]
    BY <1>8, <1>12, <1>13, TimedStays
  <1> HIDE DEF ini, t, b, up
  <1> QED BY <1>7, <1>8, <1>10, <1>11, <1>14, AnswersStay

\* A message that is ignored, or a request that is answered again.
LEMMA IgnoredAnswers ==
    ASSUME TypeOK, TypeOK', ExchangeInv, AnswersInv, NEW p \in Peers, NEW m \in net,
           ResendResponse(p, m) \/ UnexpectedId(p, m) \/ Dropped(p, m)
    PROVE  AnswersInv'
  <1>1. UNCHANGED <<initiating, responding, state, jobs>>
    BY DEF ResendResponse, UnexpectedId, Dropped, window
  <1>2. net' = net
    BY DEF ResendResponse, UnexpectedId, Dropped, AnswersInv, RequestSound
  <1>3. \A q \in Peers : /\ SameRequest(q) /\ SameAnswer(q) /\ (Alive(q)' => Alive(q))
                         /\ Initial(q)' => Initial(q)
    BY <1>1 DEF SameRequest, SameAnswer, Alive, Initial
  <1>4. CollectSound'
    BY <1>1, <1>2, <1>3, CollectStays, Constants DEF AnswersInv
  <1>5. \A q \in Peers : Alive(q)' /\ Outstanding(q) => initiating[q].mid \in DOMAIN jobs'[q]
    BY <1>1, <1>3, TimedStays
  <1> QED BY <1>2, <1>3, <1>4, <1>5, AnswersStay

\* The end of an IKE_SA, or nothing at all.
LEMMA EndsAnswers ==
    ASSUME TypeOK, TypeOK', AnswersInv,
           (\E p \in Peers : HalfOpenTimeout(p) \/ HeapAbort(p)) \/ UNCHANGED vars
    PROVE  AnswersInv'
  <1>1. UNCHANGED <<initiating, responding, net, jobs>>
    BY DEF HalfOpenTimeout, HeapAbort, window, vars
  <1>2. \A q \in Peers : (Alive(q)' => Alive(q)) /\ (Initial(q)' => Initial(q))
    BY DEF HalfOpenTimeout, HeapAbort, vars, Destroyed, Alive, Initial, TypeOK
  <1>3. \A q \in Peers : SameRequest(q) /\ SameAnswer(q)
    BY <1>1 DEF SameRequest, SameAnswer
  <1>4. CollectSound'
    BY <1>1, <1>2, <1>3, CollectStays, Constants DEF AnswersInv
  <1>5. \A q \in Peers : Alive(q)' /\ Outstanding(q) => initiating[q].mid \in DOMAIN jobs'[q]
    BY <1>1, <1>2, TimedStays
  <1> QED BY <1>1, <1>2, <1>3, <1>4, <1>5, AnswersStay

\* A responder that receives a response has an established IKE_SA.
LEMMA ResponseEstablished ==
    ASSUME TypeOK, ExchangeInv, AnswersInv, NEW m \in net, m.src = Other(R), ~m.req,
           Arrives(R, m)
    PROVE  ~Initial(R)
  <1>1. initiating[R].type # "UNDEFINED"
    BY ResponseExpected, Constants
  <1> QED BY <1>1 DEF AnswersInv, CollectSound, Outstanding

\* The hash is of the first fragment of the request that is collected.
LEMMA CollectFragmentHashes ==
    ASSUME TypeOK, TypeOK', ExchangeInv, AnswersInv, NEW m \in net, m.src = Other(R),
           CollectFragment(R, m), net' = net
    PROVE  CollectSound'
  <1> DEFINE d == responding[R].defrag
             new == IF ~Accepts(d, m) THEN d
                    ELSE IF Completes(d, m) THEN NoDefrag ELSE AddFragment(d, m)
  <1>1. /\ m \in Packet /\ m.total \in Nat /\ m.total > 1 /\ R \in Peers /\ m.src = I
        /\ d \in DefragType
    BY PeerTypes, Constants DEF TypeOK, Packet, CollectFragment, Other
  <1>2. state' = state /\ Arrives(R, m)
    BY DEF CollectFragment
  <1>3. SUFFICES ASSUME Initial(R)
                 PROVE  CollectSound'
    BY <1>2 DEF CollectSound, Initial
  <1>4. m.req
    BY <1>2, <1>3, ResponseEstablished
  <1>5. m.mid = responding[R].mid
    BY <1>2, <1>4 DEF Arrives, Expected
  <1>6. initiating'[R].type = initiating[R].type
    BY <1>1 DEF CollectFragment, TypeOK, InitiatingType
  <1>7. /\ responding'[R].mid = responding[R].mid
        /\ responding'[R].hash = IF Accepts(d, m) THEN HashAfter(R, m) ELSE responding[R].hash
        /\ responding'[R].defrag = new
    <2>1. Defrag(R, m) = d
      BY <1>4 DEF Defrag
    <2>2. responding'[R] = [responding[R] EXCEPT
              !.defrag = new, !.hash = IF Accepts(d, m) THEN HashAfter(R, m) ELSE @]
      <3> HIDE DEF d
      <3> QED BY <1>1, <1>4, <2>1 DEF CollectFragment, TypeOK
    <2> HIDE DEF new, d
    <2>3. responding[R] \in RespondingType
      BY <1>1, PeerTypes
    <2> QED BY <2>2, <2>3 DEF RespondingType
  <1>8. /\ ~Outstanding(R)
        /\ d.total > 0 =>
              /\ d.mid = responding[R].mid
              /\ 1 \in d.got =>
                    \E x \in net : /\ x.src = I /\ x.req /\ x.mid = responding[R].mid
                                   /\ x.frag = 1 /\ responding[R].hash = {x}
    BY <1>3 DEF AnswersInv, CollectSound
  <1>9. ~Outstanding(R)'
    BY <1>6, <1>8 DEF Outstanding
  <1>10. ASSUME new.total > 0
         PROVE  /\ new.mid = responding[R].mid
                /\ 1 \in new.got =>
                      \E x \in net : /\ x.src = I /\ x.req /\ x.mid = responding[R].mid
                                     /\ x.frag = 1 /\ responding'[R].hash = {x}
    <2>1. CASE ~Accepts(d, m)
      <3>1. new = d /\ responding'[R].hash = responding[R].hash
        BY <1>7, <2>1
      <3> HIDE DEF new, d
      <3> QED BY <1>8, <1>10, <3>1
    <2>2. CASE Accepts(d, m) /\ Completes(d, m)
      BY <1>10, <2>2 DEF NoDefrag
    <2>3. CASE Accepts(d, m) /\ ~Completes(d, m)
      <3>1. new.mid = m.mid /\ new.got = Kept(d, m) \cup {m.frag}
        BY <2>3 DEF AddFragment
      <3>2. responding'[R].hash = HashAfter(R, m)
        BY <1>7, <2>3
      <3>3. 1 \in Kept(d, m) => d.total > 0 /\ 1 \in d.got
        BY <1>1 DEF Kept, DefragType
      <3> HIDE DEF new, d
      <3>4. CASE m.frag = 1
        <4>1. responding'[R].hash = {m}
          BY <3>2, <3>4 DEF HashAfter
        <4> QED BY <1>1, <1>4, <1>5, <3>1, <3>4, <4>1
      <3>5. CASE m.frag # 1
        <4>1. responding'[R].hash = responding[R].hash
          BY <3>2, <3>5 DEF HashAfter
        <4> QED BY <1>5, <1>8, <3>1, <3>3, <3>5, <4>1
      <3> QED BY <3>4, <3>5
    <2> QED BY <2>1, <2>2, <2>3
  <1> HIDE DEF new, d
  <1> QED BY <1>7, <1>9, <1>10 DEF CollectSound

\* handle_fragment() with fragments missing.
LEMMA CollectFragmentAnswers ==
    ASSUME TypeOK, TypeOK', ExchangeInv, AnswersInv, NEW p \in Peers, NEW m \in net,
           m.src = Other(p), CollectFragment(p, m)
    PROVE  AnswersInv'
  <1>1. net' = net /\ UNCHANGED <<state, jobs>>
    BY QuietMessage DEF CollectFragment
  <1>2. \A q \in Peers : SameRequest(q)
    BY DEF CollectFragment, TypeOK, InitiatingType, SameRequest
  <1>3. /\ \A q \in Peers : SameAnswer(q)
        /\ \A q \in Peers \ {p} : responding'[q] = responding[q]
    BY DEF CollectFragment, TypeOK, RespondingType, SameAnswer
  <1>4. \A q \in Peers : (Alive(q)' => Alive(q)) /\ (Initial(q)' => Initial(q))
    BY <1>1 DEF Alive, Initial
  <1>5. CollectSound'
    <2>1. CASE p = R
      BY <1>1, <2>1, CollectFragmentHashes
    <2>2. CASE p # R
      BY <1>1, <1>2, <1>3, <1>4, <2>2, CollectStays, Constants DEF AnswersInv
    <2> QED BY <2>1, <2>2
  <1>6. \A q \in Peers : Alive(q)' /\ Outstanding(q) => initiating[q].mid \in DOMAIN jobs'[q]
    BY <1>1, <1>4, TimedStays
  <1> QED BY <1>1, <1>2, <1>3, <1>4, <1>5, <1>6, AnswersStay

\* A request that is processed is the outstanding one.
LEMMA RequestOutstanding ==
    ASSUME TypeOK, ExchangeInv, AnswersInv, NEW p \in Peers, NEW m \in net, Alive(p),
           m.src = Other(p), m.req, Arrives(p, m)
    PROVE  /\ Outstanding(Other(p)) /\ responding[p].mid = initiating[Other(p)].mid
           /\ \A x \in net : x.src = Other(p) /\ x.req /\ x.mid = responding[p].mid
                                => x \in initiating[Other(p)].packets
           /\ m \in initiating[Other(p)].packets /\ m.type = initiating[Other(p)].type
  <1> DEFINE o == Other(p)
  <1>1. o \in Peers /\ Other(o) = p
    BY Constants
  <1>2. /\ m.mid = Len(handled[p]) /\ responding[p].mid = Len(handled[p])
        /\ Len(handled[p]) < Issued[o]
    BY RequestExpected
  <1>3. initiating[o].mid <= Len(handled[p])
    BY <1>1 DEF ExchangeInv
  <1>4. Outstanding(o) /\ responding[p].mid = initiating[o].mid
    <2>1. /\ initiating[o].mid \in Nat /\ Len(handled[p]) \in Nat
          /\ Issued[o] = IF Outstanding(o) THEN initiating[o].mid + 1 ELSE initiating[o].mid
      BY <1>1, Counters DEF Numbers, Outstanding
    <2> QED BY <1>2, <1>3, <2>1
  <1>5. RequestSound(o)
    BY <1>1 DEF AnswersInv
  <1> HIDE DEF o
  <1>6. \A x \in net : x.src = o /\ x.req /\ x.mid = responding[p].mid
                           => x \in initiating[o].packets
    BY <1>4, <1>5 DEF RequestSound
  <1>7. m \in initiating[o].packets
    BY <1>2, <1>6 DEF o
  <1>8. m.type = initiating[o].type
    BY <1>5, <1>7 DEF RequestSound
  <1> QED BY <1>4, <1>6, <1>7, <1>8 DEF o

\* The hash kept with an answer is of the first packet of its request.
LEMMA FirstHashed ==
    ASSUME TypeOK, FragmentsInv, ExchangeInv, AnswersInv, NEW p \in Peers, NEW m \in net,
           Alive(p), m.src = Other(p), m.req, Arrives(p, m), Whole(p, m)
    PROVE  \E x \in initiating[Other(p)].packets : x.frag = 1 /\ HashAfter(p, m) = {x}
  <1>1. /\ \A x \in net : x.src = Other(p) /\ x.req /\ x.mid = responding[p].mid
                              => x \in initiating[Other(p)].packets
        /\ m \in initiating[Other(p)].packets
    BY RequestOutstanding
  <1>2. CASE m.frag = 1
    BY <1>1, <1>2 DEF HashAfter
  <1>3. CASE m.frag # 1
    <2>1. m \in Packet /\ m.mid \in Nat /\ m.total \in Nat /\ m.mid = responding[p].mid
      BY DEF TypeOK, Packet, Arrives, Expected
    <2>2. m.frag \in 1..m.total
      <3>1. Existing(m)
        BY DEF Existing
      <3> QED BY <3>1 DEF FragmentsInv, MessagesInv, Numbered
    <2>3. LastFragment(p, m) /\ ~AlreadyProcessed(p, m)
      BY <1>3, <2>1, <2>2 DEF Whole
    <2>4. Initial(p)
      BY <2>1, <2>3 DEF AlreadyProcessed, Alive, Initial
    <2>5. p = R
      <3>1. ~m.ack.is
        BY QuietMessage
      <3>2. p # I
        BY <2>4, <3>1 DEF Arrives, RejectRequest, Initial
      <3> QED BY <3>2 DEF Peers
    <2>6. /\ Defrag(p, m).total > 0 /\ Defrag(p, m).got \cup {m.frag} = 1..m.total
      BY <2>3, OneMissing
    <2>7. Defrag(p, m) = responding[R].defrag
      BY <2>5 DEF Defrag
    <2>8. 1 \in responding[R].defrag.got /\ responding[R].defrag.total > 0
      BY <1>3, <2>1, <2>2, <2>6, <2>7
    <2>9. PICK x \in net : /\ x.src = I /\ x.req /\ x.mid = responding[R].mid
                           /\ x.frag = 1 /\ responding[R].hash = {x}
      BY <2>4, <2>5, <2>8 DEF AnswersInv, CollectSound
    <2>10. Other(p) = I
      BY <2>5, Constants DEF Other
    <2>11. x \in initiating[Other(p)].packets
      BY <1>1, <2>5, <2>9, <2>10
    <2> QED BY <1>3, <2>5, <2>9, <2>11 DEF HashAfter
  <1> QED BY <1>2, <1>3

\* Nothing is left of the fragments of a request that was processed.
LEMMA NothingCollected ==
    ASSUME TypeOK, FragmentsInv, ExchangeInv, AnswersInv, NEW m \in net, Alive(R), Initial(R),
           m.src = Other(R), m.req, Arrives(R, m), m.total = 1
    PROVE  responding[R].defrag.total = 0
  <1> DEFINE d == responding[R].defrag
  <1>1. /\ m \in Packet /\ m.req = TRUE /\ m.mid = responding[R].mid /\ R \in Peers
        /\ d \in DefragType
    BY PeerTypes, Constants DEF TypeOK, Packet, Arrives, Expected
  <1>2. SUFFICES ASSUME d.total # 0 PROVE FALSE
    OBVIOUS
  <1>3. d.total > 0 /\ d.total \in Nat
    BY <1>1, <1>2 DEF DefragType
  <1>4. d.mid = responding[R].mid
    BY <1>3 DEF AnswersInv, CollectSound
  <1>5. PICK req \in BOOLEAN : req = TRUE
    OBVIOUS
  <1>6. Collects(R, req, d)
    BY <1>1, <1>5 DEF FragmentsInv, CollectsInv, Buffer
  <1> HIDE DEF d
  <1>7. PICK x \in net : /\ x.src = Other(R) /\ x.req = req /\ x.mid = d.mid
                         /\ x.total = d.total /\ ~x.ack.is
    BY <1>3, <1>6 DEF Collects
  <1>8. d.total # 1
    BY <1>3, <1>6 DEF Collects
  <1>9. SameMessage(x, m) /\ Existing(x) /\ Existing(m)
    <2>1. ~m.ack.is
      BY <1>1, QuietMessage
    <2> QED BY <1>1, <1>4, <1>5, <1>7, <2>1 DEF SameMessage, Existing, d
  <1>10. x.total = m.total
    BY <1>9 DEF FragmentsInv, MessagesInv
  <1> QED BY <1>7, <1>8, <1>10

\* process_request() and build_response().
LEMMA ProcessRequestAnswers ==
    ASSUME TypeOK, TypeOK', FragmentsInv, ExchangeInv, AnswersInv, NEW p \in Peers,
           NEW m \in net, Alive(p), m.src = Other(p), ProcessRequest(p, m)
    PROVE  AnswersInv'
  <1> DEFINE o == Other(p)
             packets == Packets(p, FALSE, responding[p].mid, m.type,
                                RespFrags[m.type], KeysAtParse(p))
  <1>1. /\ m \in Packet /\ o \in Peers /\ o # p /\ Other(o) = p
        /\ m.req /\ Arrives(p, m) /\ Whole(p, m)
    BY Constants DEF TypeOK, ProcessRequest
  <1>2. /\ packets # {}
        /\ \A x \in packets : x.req = FALSE /\ x.mid = responding[p].mid /\ x.type = m.type
    <2>1. m.type \in Exchanges /\ responding[p].mid \in Nat /\ KeysAtParse(p) \in Nat
      BY PeerTypes DEF TypeOK, Packet
    <2>2. RespFrags[m.type] \in Nat \ {0}
      BY <2>1, Constants
    <2>3. PICK req \in BOOLEAN : req = FALSE
      OBVIOUS
    <2>4. Packets(p, req, responding[p].mid, m.type, RespFrags[m.type], KeysAtParse(p)) # {}
      BY <2>1, <2>2, PacketsType
    <2> QED BY <2>3, <2>4 DEF Packets
  <1>3. /\ responding' = [responding EXCEPT ![p] = Responded(p, m, packets)]
        /\ net' = net \cup AcksFor(p, m) \cup packets /\ AcksFor(p, m) = {}
        /\ UNCHANGED <<initiating, jobs>>
    BY QuietMessage DEF ProcessRequest
  <1>4. /\ Responded(p, m, packets).mid = responding[p].mid + 1
        /\ Responded(p, m, packets).packets = packets
        /\ Responded(p, m, packets).prev_hash = HashAfter(p, m)
        /\ Responded(p, m, packets).defrag = IF m.total > 1 THEN NoDefrag
                                             ELSE responding[p].defrag
    BY PeerTypes DEF Responded, RespondingType
  <1> HIDE DEF packets
  <1>5. /\ responding'[p].mid = responding[p].mid + 1 /\ responding'[p].packets = packets
        /\ responding'[p].prev_hash = HashAfter(p, m)
        /\ responding'[p].defrag = IF m.total > 1 THEN NoDefrag ELSE responding[p].defrag
        /\ \A q \in Peers \ {p} : responding'[q] = responding[q]
    BY <1>3, <1>4 DEF TypeOK
  <1>6. \A q \in Peers : (Alive(q)' => Alive(q)) /\ (Initial(q)' => Initial(q))
    <2>1. \A q \in Peers \ {p} : state'[q] = state[q]
      BY DEF ProcessRequest, RespondingState, TypeOK
    <2>2. ASSUME Initial(p)' PROVE Initial(p)
      <3>1. state' = RespondingState(p, m)
        BY DEF ProcessRequest
      <3>2. CASE m.type = "IKE_SA_INIT"
        BY <1>1, <3>2 DEF Arrives, RejectRequest, Initial
      <3>3. CASE m.type = "IKE_AUTH"
        BY <2>2, <3>1, <3>3 DEF RespondingState, Initial, TypeOK
      <3>4. CASE m.type \notin {"IKE_SA_INIT", "IKE_AUTH"}
        BY <2>2, <3>1, <3>4 DEF RespondingState, Initial, TypeOK
      <3> QED BY <3>2, <3>3, <3>4
    <2> QED BY <2>1, <2>2 DEF Alive, Initial
  <1>7. \A q \in Peers : SameRequest(q)
    BY <1>3 DEF SameRequest
  <1>8. ASSUME NEW q \in Peers PROVE RequestSound(q)'
    <2>1. RequestSound(q) /\ responding[q].packets \subseteq net
      BY DEF AnswersInv, RequestSound
    <2>2. net \subseteq net' /\ \A x \in net' \ net : ~(x.src = q /\ x.req)
      BY <1>2, <1>3
    <2>3. responding'[q].packets \subseteq net'
      BY <1>3, <1>5, <2>1
    <2>4. Alive(q)' /\ Outstanding(q) => initiating[q].mid \in DOMAIN jobs'[q]
      BY <1>3, <1>6, TimedStays
    <2> QED BY <1>6, <1>7, <2>1, <2>2, <2>3, <2>4, RequestStays
  <1>9. AnswerSound(p)'
    <2>1. AnswerSound(p) /\ SameAnswer(o)
      BY <1>1, <1>5 DEF AnswersInv, SameAnswer
    <2> QED BY <1>1, <1>6, <1>7, <2>1, AnswerStays
  <1>10. AnswerSound(o)'
    <2>1. responding[p].mid = initiating[o].mid /\ m.type = initiating[o].type
      BY <1>1, RequestOutstanding
    <2>2. \E x \in initiating[o].packets : x.frag = 1 /\ HashAfter(p, m) = {x}
      BY <1>1, FirstHashed
    <2>3. /\ initiating'[o] = initiating[o] /\ responding'[p].packets # {}
          /\ \E x \in initiating[o].packets : x.frag = 1 /\ responding'[p].prev_hash = {x}
          /\ \A x \in responding'[p].packets : /\ ~x.req /\ x.mid = initiating[o].mid
                                               /\ x.type = initiating[o].type
      BY <1>2, <1>3, <1>5, <2>1, <2>2
    <2> HIDE DEF o
    <2> QED BY <1>1, <2>3 DEF AnswerSound
  <1>11. CollectSound'
    <2>1. CASE p # R
      BY <1>3, <1>5, <1>6, <1>7, <2>1, CollectStays, Constants DEF AnswersInv
    <2>2. CASE p = R
      <3>1. SUFFICES ASSUME Initial(R)' PROVE CollectSound'
        BY DEF CollectSound
      <3>2. Initial(R) /\ ~Outstanding(R)
        BY <1>6, <2>2, <3>1 DEF AnswersInv, CollectSound
      <3>3. ~Outstanding(R)'
        BY <1>3, <3>2 DEF Outstanding
      <3>4. responding'[R].defrag.total = 0
        <4>1. CASE m.total > 1
          BY <1>5, <2>2, <4>1 DEF NoDefrag
        <4>2. CASE ~(m.total > 1)
          <5>1. m.total = 1
            BY <1>1, <4>2 DEF Packet
          <5>2. responding[R].defrag.total = 0
            BY <1>1, <2>2, <3>2, <5>1, NothingCollected
          <5> QED BY <1>5, <2>2, <4>2, <5>2
        <4> QED BY <4>1, <4>2
      <3> QED BY <3>3, <3>4 DEF CollectSound
    <2> QED BY <2>1, <2>2
  <1>12. \A q \in Peers : q = p \/ q = o
    BY Constants
  <1> HIDE DEF o
  <1> QED BY <1>8, <1>9, <1>10, <1>11, <1>12 DEF AnswersInv

\* A step of p that ends its IKE_SA, perhaps with a last response.
Closes(p, new) ==
    /\ ~Alive(p)' /\ \A q \in Peers \ {p} : state'[q] = state[q]
    /\ \A q \in Peers : initiating'[q] = initiating[q] /\ jobs'[q] = jobs[q]
    /\ \A q \in Peers \ {p} : responding'[q] = responding[q]
    /\ responding'[p].packets = responding[p].packets
    /\ net' = net \cup new /\ \A x \in new : ~x.req

\* Such a step concerns the other peer no more.
LEMMA ClosesAnswers ==
    ASSUME TypeOK, TypeOK', AnswersInv, NEW p \in Peers, NEW new, Closes(p, new)
    PROVE  AnswersInv'
  <1>1. \A q \in Peers : SameRequest(q) /\ (Alive(q)' => Alive(q) /\ q # p)
    BY DEF Closes, SameRequest, Alive
  <1>2. ASSUME NEW q \in Peers PROVE RequestSound(q)'
    <2>1. RequestSound(q) /\ responding[q].packets \subseteq net
      BY DEF AnswersInv, RequestSound
    <2>2. /\ net \subseteq net' /\ \A x \in net' \ net : ~(x.src = q /\ x.req)
          /\ responding'[q].packets \subseteq net'
      BY <2>1 DEF Closes
    <2>3. Alive(q)' /\ Outstanding(q) => initiating[q].mid \in DOMAIN jobs'[q]
      BY <1>1, TimedStays DEF Closes
    <2> QED BY <1>1, <2>1, <2>2, <2>3, RequestStays
  <1>3. ASSUME NEW q \in Peers PROVE AnswerSound(q)'
    <2>1. Other(q) \in Peers /\ AnswerSound(q)
      BY Constants DEF AnswersInv
    <2>2. CASE Other(q) = p
      BY <2>2 DEF AnswerSound, Closes
    <2>3. CASE Other(q) # p
      <3>1. SameAnswer(Other(q))
        BY <2>1, <2>3 DEF Closes, SameAnswer
      <3> QED BY <1>1, <2>1, <3>1, AnswerStays
    <2> QED BY <2>2, <2>3
  <1>4. CollectSound'
    <2>1. CASE p = R
      BY <2>1 DEF CollectSound, Closes, Alive, Initial
    <2>2. CASE p # R
      <3>1. /\ R \in Peers \ {p} /\ responding'[R] = responding[R]
            /\ Initial(R)' => Initial(R)
        BY <2>2, Constants DEF Closes, Initial
      <3>2. net \subseteq net'
        BY DEF Closes
      <3> QED BY <1>1, <3>1, <3>2, CollectStays DEF AnswersInv
    <2> QED BY <2>1, <2>2
  <1> QED BY <1>2, <1>3, <1>4 DEF AnswersInv

\* A request that ends the IKE_SA.
LEMMA CloseOnRequestAnswers ==
    ASSUME TypeOK, TypeOK', ExchangeInv, AnswersInv, NEW p \in Peers, NEW m \in net,
           NEW ending, CloseOnRequest(p, m, ending)
    PROVE  AnswersInv'
  <1> DEFINE response == Packets(p, FALSE, responding[p].mid, m.type,
                                 RespFrags[m.type], KeysAtParse(p))
             packets == IF ending = "reject" THEN {} ELSE response
  <1>1. \A x \in packets : ~x.req
    BY DEF Packets
  <1>2. /\ net' = net \cup AcksFor(p, m) \cup packets /\ AcksFor(p, m) = {}
        /\ UNCHANGED <<initiating, responding, jobs>>
    BY QuietMessage DEF CloseOnRequest, window
  <1> HIDE DEF packets
  <1>3. ~Alive(p)' /\ \A q \in Peers \ {p} : state'[q] = state[q]
    BY DEF CloseOnRequest, Destroyed, Alive, TypeOK
  <1>4. Closes(p, packets)
    BY <1>1, <1>2, <1>3 DEF Closes
  <1> QED BY <1>4, ClosesAnswers

\* A response that ends it.
LEMMA CloseOnResponseAnswers ==
    ASSUME TypeOK, TypeOK', ExchangeInv, AnswersInv, NEW p \in Peers, NEW m \in net,
           CloseOnResponse(p, m)
    PROVE  AnswersInv'
  <1>0. PICK none : none = {}
    OBVIOUS
  <1>1. /\ responding'[p].packets = responding[p].packets
        /\ \A q \in Peers \ {p} : responding'[q] = responding[q]
    BY DEF CloseOnResponse, TypeOK, RespondingType
  <1>2. net' = net /\ UNCHANGED <<initiating, jobs>>
    BY QuietMessage DEF CloseOnResponse
  <1>3. ~Alive(p)' /\ \A q \in Peers \ {p} : state'[q] = state[q]
    BY DEF CloseOnResponse, Destroyed, Alive, TypeOK
  <1>4. Closes(p, none)
    BY <1>0, <1>1, <1>2, <1>3 DEF Closes
  <1> QED BY <1>4, ClosesAnswers

\* The request new is stored, sent and timed.
Begins(p, mid, type, new) ==
    /\ new # {} /\ \A m \in new : m.src = p /\ m.req /\ m.mid = mid /\ m.type = type
    /\ initiating'[p].mid = mid /\ initiating'[p].type = type
    /\ initiating'[p].packets = new
    /\ \A q \in Peers \ {p} : initiating'[q] = initiating[q] /\ jobs'[q] = jobs[q]
    /\ mid \in DOMAIN jobs'[p]
    /\ net' = net \cup new

\* initiate() with an empty window does that.
LEMMA StartExchangeBegins ==
    ASSUME TypeOK, Quiet, NEW p \in Peers, tracker[p].total = 0, NEW type \in Exchanges,
           NEW ini \in InitiatingType, ini.packets = {}, NEW key \in Nat,
           NEW sup, NEW out, out = {}, StartExchange(p, type, ini, key, sup, out)
    PROVE  \E new : Begins(p, ini.mid, type, new)
  <1> DEFINE new == Packets(p, TRUE, ini.mid, type, ReqFrags[type], key)
             started == [ini EXCEPT !.type = type, !.retransmitted = 0,
                                    !.packets = @ \cup new]
             t == TrackerAfter(p, tracker[p], ini.mid, new)
             again == Resends(p, ini.mid, started, t)
  <1>1. ini.mid \in Nat /\ ReqFrags[type] \in Nat \ {0}
    BY Constants DEF InitiatingType
  <1>2. new # {} /\ new \subseteq Packet
    <2>1. PICK req \in BOOLEAN : req = TRUE
      OBVIOUS
    <2>2. /\ Packets(p, req, ini.mid, type, ReqFrags[type], key) # {}
          /\ Packets(p, req, ini.mid, type, ReqFrags[type], key) \subseteq Packet
      BY <1>1, PacketsType
    <2>3. new = Packets(p, req, ini.mid, type, ReqFrags[type], key)
      BY <2>1, Zenon
    <2> QED BY <2>2, <2>3
  <1>3. \A m \in new : m.src = p /\ m.req /\ m.mid = ini.mid /\ m.type = type
    BY DEF Packets
  <1>4. Retransmit(p, ini.mid, started, t, sup, jobs[p], out)
    BY DEF StartExchange
  <1>5. t = tracker[p] /\ t.total = 0
    <2>1. ~Tracks(p, new)
      BY <1>1, QuietRequest
    <2> QED BY <2>1 DEF TrackerAfter
  <1> HIDE DEF new, t
  <1>6. /\ started \in InitiatingType /\ started.mid = ini.mid /\ started.type = type
        /\ started.packets = new /\ started.retransmitted = 0
    <2>1. 0 \in 0..(Tries + 1) /\ ini.packets \cup new = new
      BY Constants
    <2> QED BY <1>2, <2>1 DEF InitiatingType
  <1> HIDE DEF started
  <1>7. ~Tracked(p, t, ini.mid)
    BY <1>5 DEF Tracked
  <1>8. again
    <2>1. Due(p, ini.mid, started, t)
      BY <1>2, <1>6, <1>7 DEF Due, Pending
    <2>2. ~(started.retransmitted > Tries)
      BY <1>6, Constants
    <2> QED BY <2>1, <2>2 DEF Resends, GivesUp
  <1>9. /\ initiating'[p].mid = started.mid /\ initiating'[p].type = started.type
        /\ initiating'[p].packets = started.packets
        /\ \A q \in Peers \ {p} : initiating'[q] = initiating[q]
    <2>1. PICK pending : pending = jobs[p]
      OBVIOUS
    <2>2. Retransmit(p, ini.mid, started, t, sup, pending, out)
      BY <1>4, <2>1
    <2>3. started \in InitiatingType
      BY <1>6
    <2> QED BY <2>2, <2>3, RetransmitSends
  <1>10. net' = net \cup new
    <2>1. Resent(p, ini.mid, started, t, sup) = new
      BY <1>6, <1>7 DEF Resent
    <2> QED BY <1>4, <1>8, <2>1 DEF Retransmit
  <1>11. /\ jobs'[p] = jobs[p] (+) SetToBag({ini.mid})
         /\ \A q \in Peers \ {p} : jobs'[q] = jobs[q]
    BY <1>4, <1>8 DEF Retransmit, TypeOK
  <1>12. ini.mid \in DOMAIN jobs'[p]
    <2>1. IsABag(jobs[p]) /\ DOMAIN jobs[p] \subseteq Nat
      BY DEF TypeOK
    <2>2. DOMAIN (jobs[p] (+) SetToBag({ini.mid})) = DOMAIN jobs[p] \cup {ini.mid}
      BY <1>1, <2>1, JobsType
    <2> QED BY <1>11, <2>2
  <1>13. Begins(p, ini.mid, type, new)
    BY <1>2, <1>3, <1>6, <1>9, <1>10, <1>11, <1>12 DEF Begins
  <1> QED BY <1>13

\* A step of p about a request of its own.
Requests(p) ==
    /\ \A q \in Peers : SameAnswer(q) /\ (Alive(q)' => Alive(q))
    /\ \A q \in Peers \ {p} : responding'[q] = responding[q] /\ state'[q] = state[q]
    /\ p = R => ~Initial(R)'

\* Such a step concerns no request that is collected.
LEMMA RequestsCollect ==
    ASSUME AnswersInv, NEW p \in Peers, Requests(p), net \subseteq net',
           \A q \in Peers \ {p} : initiating'[q] = initiating[q]
    PROVE  CollectSound'
  <1>1. CASE p = R
    BY <1>1 DEF Requests, CollectSound
  <1>2. CASE p # R
    <2>1. /\ R \in Peers \ {p} /\ responding'[R] = responding[R]
          /\ Initial(R)' => Initial(R)
      BY <1>2, Constants DEF Requests, Initial
    <2>2. SameRequest(R)
      BY <2>1 DEF SameRequest
    <2> QED BY <2>1, <2>2, CollectStays DEF AnswersInv
  <1> QED BY <1>1, <1>2

\* A request with a message ID that was not used before.
LEMMA BeginsAnswers ==
    ASSUME TypeOK, ExchangeInv, AnswersInv, NEW p \in Peers, NEW mid \in Nat, mid = Issued[p],
           Len(handled[Other(p)]) = mid, NEW type \in Exchanges, NEW new,
           Begins(p, mid, type, new), Requests(p)
    PROVE  AnswersInv'
  <1> DEFINE o == Other(p)
  <1>1. o \in Peers /\ o # p /\ Other(o) = p /\ \A q \in Peers : q = p \/ q = o
    BY Constants
  <1>2. RequestSound(p) /\ RequestSound(o) /\ AnswerSound(o)
    BY <1>1 DEF AnswersInv
  <1>3. \A m \in net : ~(m.src = p /\ m.req /\ m.mid = mid)
    <2>1. ASSUME NEW m \in net, m.src = p, m.req PROVE m.mid < Issued[p] /\ m.mid \in Nat
      BY <2>1 DEF ExchangeInv, Sound, TypeOK, Packet
    <2> QED BY <2>1
  <1> HIDE DEF o
  <1>4. RequestSound(p)'
    <2>1. type # "UNDEFINED"
      BY DEF Exchanges
    <2>2. Outstanding(p)'
      BY <2>1 DEF Outstanding, Begins
    <2>3. responding'[p].packets \subseteq net'
      BY <1>2 DEF RequestSound, Requests, SameAnswer, Begins
    <2> QED BY <1>3, <2>2, <2>3 DEF RequestSound, Begins
  <1>5. RequestSound(o)'
    <2>1. SameRequest(o) /\ jobs'[o] = jobs[o] /\ (Alive(o)' => Alive(o))
      BY <1>1 DEF Begins, SameRequest, Requests
    <2>2. /\ net \subseteq net' /\ \A m \in net' \ net : ~(m.src = o /\ m.req)
          /\ responding'[o].packets \subseteq net'
      BY <1>1, <1>2 DEF Begins, Requests, SameAnswer, RequestSound
    <2>3. Alive(o)' /\ Outstanding(o) => initiating[o].mid \in DOMAIN jobs'[o]
      BY <1>1, <2>1, TimedStays
    <2> QED BY <1>1, <1>2, <2>1, <2>2, <2>3, RequestStays
  <1>6. AnswerSound(p)'
    <2>1. ASSUME Alive(o)' PROVE responding'[o].mid = mid
      <3>1. Alive(o) /\ responding'[o].mid = responding[o].mid
        BY <1>1, <2>1 DEF Requests, SameAnswer
      <3> QED BY <1>1, <3>1 DEF ExchangeInv, o
    <2>2. initiating'[p].mid = mid /\ mid # mid + 1
      BY DEF Begins
    <2> QED BY <2>1, <2>2 DEF AnswerSound, o
  <1>7. AnswerSound(o)'
    <2>1. SameRequest(o) /\ SameAnswer(Other(o)) /\ (Alive(Other(o))' => Alive(Other(o)))
      BY <1>1 DEF Begins, SameRequest, Requests
    <2> QED BY <1>1, <1>2, <2>1, AnswerStays
  <1>8. CollectSound'
    BY RequestsCollect DEF Begins
  <1> QED BY <1>1, <1>4, <1>5, <1>6, <1>7, <1>8 DEF AnswersInv

\* initiate() with a task that was queued.
LEMMA InitiateAnswers ==
    ASSUME TypeOK, Quiet, ExchangeInv, AnswersInv, NEW p \in Peers, NEW type \in Exchanges,
           Initiate(p, type)
    PROVE  AnswersInv'
  <1>0. PICK none : none = {}
    OBVIOUS
  <1>1. /\ initiating[p] \in InitiatingType /\ keys[p] \in Nat /\ tracker[p].total = 0
        /\ initiating[p].type = "UNDEFINED"
        /\ StartExchange(p, type, initiating[p], keys[p], peer_supports[p], none)
    BY <1>0, PeerTypes DEF Initiate, ExchangeInv
  <1>2. initiating[p].packets = {}
    BY <1>1 DEF AnswersInv, RequestSound, Outstanding
  <1>3. PICK new : Begins(p, initiating[p].mid, type, new)
    BY <1>0, <1>1, <1>2, StartExchangeBegins
  <1>4. /\ initiating[p].mid \in Nat /\ initiating[p].mid = Issued[p]
        /\ Len(handled[Other(p)]) = initiating[p].mid
    <2>1. /\ Other(p) \in Peers /\ initiating[p].mid <= Len(handled[Other(p)])
          /\ Len(handled[Other(p)]) <= Issued[p]
      BY Constants DEF ExchangeInv
    <2> QED BY <1>1, <2>1, Counters DEF Numbers
  <1>5. Requests(p)
    <2>1. responding' = responding
      BY DEF Initiate
    <2>2. \A q \in Peers : Alive(q)' => Alive(q)
      BY DEF Initiate, Alive, TypeOK
    <2>3. \A q \in Peers \ {p} : state'[q] = state[q]
      BY DEF Initiate, TypeOK
    <2>4. p = R => ~Initial(R)'
      BY Constants DEF Initiate, Initial
    <2> QED BY <2>1, <2>2, <2>3, <2>4 DEF Requests, SameAnswer
  <1> QED BY <1>3, <1>4, <1>5, BeginsAnswers

\* A response to a request of p.
LEMMA ResponseRequests ==
    ASSUME TypeOK, ExchangeInv, AnswersInv, NEW p \in Peers, NEW m \in net, m.src = Other(p),
           Alive(p), ~m.req, Arrives(p, m), state' = StateAfter(p, m),
           responding' = [responding EXCEPT ![p].hash = HashAfter(p, m)]
    PROVE  Requests(p)
  <1>1. \A q \in Peers : SameAnswer(q)
    BY DEF TypeOK, RespondingType, SameAnswer
  <1>2. /\ \A q \in Peers \ {p} : responding'[q] = responding[q] /\ state'[q] = state[q]
        /\ state'[p] = state[p] \/ state'[p] = "ESTABLISHED"
    BY DEF StateAfter, TypeOK
  <1>3. \A q \in Peers : Alive(q)' => Alive(q)
    BY <1>2 DEF Alive
  <1>4. p = R => ~Initial(R)'
    BY <1>2, ResponseEstablished DEF Initial
  <1> QED BY <1>1, <1>2, <1>3, <1>4 DEF Requests

\* process_response() that leaves the window idle.
LEMMA ProcessResponseAnswers ==
    ASSUME TypeOK, ExchangeInv, AnswersInv, NEW p \in Peers, NEW m \in net, m.src = Other(p),
           Alive(p), ProcessResponse(p, m)
    PROVE  AnswersInv'
  <1> DEFINE o == Other(p)
  <1>1. o \in Peers /\ o # p /\ Other(o) = p /\ \A q \in Peers : q = p \/ q = o
    BY Constants
  <1>2. Requests(p)
    BY ResponseRequests DEF ProcessResponse
  <1>3. /\ initiating'[p].type = "UNDEFINED" /\ initiating'[p].packets = {}
        /\ \A q \in Peers \ {p} : initiating'[q] = initiating[q]
    BY IdleFields DEF ProcessResponse, TypeOK
  <1>4. net' = net /\ jobs' = jobs
    BY QuietMessage DEF ProcessResponse
  <1>5. /\ RequestSound(o) /\ AnswerSound(o)
        /\ \A q \in Peers : responding[q].packets \subseteq net
    BY <1>1 DEF AnswersInv, RequestSound
  <1> HIDE DEF o
  <1>6. \A q \in Peers : responding'[q].packets \subseteq net'
    BY <1>2, <1>4, <1>5 DEF Requests, SameAnswer
  <1>7. RequestSound(p)' /\ AnswerSound(p)'
    BY <1>3, <1>6 DEF RequestSound, AnswerSound, Outstanding
  <1>8. RequestSound(o)' /\ AnswerSound(o)'
    <2>1. SameRequest(o) /\ SameAnswer(Other(o)) /\ (Alive(Other(o))' => Alive(Other(o)))
      BY <1>1, <1>2, <1>3 DEF SameRequest, Requests
    <2>2. Alive(o)' => Alive(o)
      BY <1>1, <1>2 DEF Requests
    <2>3. Alive(o)' /\ Outstanding(o) => initiating[o].mid \in DOMAIN jobs'[o]
      BY <1>1, <1>4, <2>2, TimedStays
    <2>4. RequestSound(o)'
      BY <1>1, <1>4, <1>5, <1>6, <2>1, <2>2, <2>3, RequestStays
    <2>5. AnswerSound(o)'
      BY <1>1, <1>5, <2>1, AnswerStays
    <2> QED BY <2>4, <2>5
  <1>9. CollectSound'
    BY <1>2, <1>3, <1>4, RequestsCollect
  <1> QED BY <1>1, <1>7, <1>8, <1>9 DEF AnswersInv

\* process_response() that starts the next exchange.
LEMMA InitiateNextAnswers ==
    ASSUME TypeOK, Quiet, ExchangeInv, AnswersInv, NEW p \in Peers, NEW m \in net,
           m.src = Other(p), Alive(p), NEW type \in Exchanges, InitiateNext(p, m, type)
    PROVE  AnswersInv'
  <1>1. /\ m.mid = initiating[p].mid /\ initiating[p].mid < Len(handled[Other(p)])
        /\ initiating[p].type # "UNDEFINED"
    BY ResponseExpected DEF InitiateNext
  <1>2. /\ Idle(p, m) \in InitiatingType /\ KeysAfter(p) \in Nat /\ tracker[p].total = 0
        /\ Idle(p, m).mid = initiating[p].mid + 1 /\ Idle(p, m).packets = {}
    <2>1. KeysAfter(p) \in Nat /\ tracker[p].total = 0
      BY PeerTypes DEF KeysAfter, ExchangeInv
    <2>2. /\ Idle(p, m) \in InitiatingType
          /\ Idle(p, m).mid = initiating[p].mid + 1 /\ Idle(p, m).packets = {}
      BY IdleType, IdleFields DEF TypeOK
    <2> QED BY <2>1, <2>2
  <1>3. /\ AcksFor(p, m) = {}
        /\ StartExchange(p, type, Idle(p, m), KeysAfter(p),
                         peer_supports[p] \/ m.sel, AcksFor(p, m))
    BY QuietMessage DEF InitiateNext
  <1>4. PICK new : Begins(p, Idle(p, m).mid, type, new)
    BY <1>2, <1>3, StartExchangeBegins
  <1>5. /\ Idle(p, m).mid \in Nat /\ Idle(p, m).mid = Issued[p]
        /\ Len(handled[Other(p)]) = Idle(p, m).mid
    <2>1. Other(p) \in Peers /\ Len(handled[Other(p)]) <= Issued[p]
      BY Constants DEF ExchangeInv
    <2>2. /\ Issued[p] = initiating[p].mid + 1 /\ initiating[p].mid \in Nat
          /\ Len(handled[Other(p)]) \in Nat
      BY <1>1, <2>1, Counters DEF Numbers
    <2> QED BY <1>1, <1>2, <2>1, <2>2
  <1>6. Requests(p)
    BY ResponseRequests DEF InitiateNext
  <1> QED BY <1>4, <1>5, <1>6, BeginsAnswers

\* Nothing is requested, answered or collected initially.
LEMMA InitAnswers == Init => AnswersInv
  BY Constants DEF Init, AnswersInv, CollectSound, RequestSound, AnswerSound, Outstanding,
                   NoDefrag

\* Every step keeps what is known of requests and their answers.
LEMMA NextAnswers ==
    ASSUME TypeOK, TypeOK', Quiet, FragmentsInv, ExchangeInv, AnswersInv, [Next]_vars
    PROVE  AnswersInv'
  <1>1. ASSUME NEW p \in Peers, NEW type \in Exchanges, Initiate(p, type)
        PROVE  AnswersInv'
    BY <1>1, InitiateAnswers
  <1>2. ASSUME NEW p \in Peers, NEW mid \in DOMAIN jobs[p], RetransmitJob(p, mid)
        PROVE  AnswersInv'
    BY <1>2, RetransmitJobAnswers
  <1>3. ASSUME NEW p \in Peers, NEW m \in net, ProcessMessage(p, m)
        PROVE  AnswersInv'
    <2>0. Alive(p) /\ m.src = Other(p)
      BY <1>3 DEF ProcessMessage
    <2>1. CASE ResendResponse(p, m) \/ UnexpectedId(p, m) \/ Dropped(p, m)
      BY <2>1, IgnoredAnswers
    <2>2. CASE CollectFragment(p, m)
      BY <2>0, <2>2, CollectFragmentAnswers
    <2>3. CASE ProcessRequest(p, m)
      BY <2>0, <2>3, ProcessRequestAnswers
    <2>4. CASE \E ending \in Endings : CloseOnRequest(p, m, ending)
      BY <2>4, CloseOnRequestAnswers
    <2>5. CASE ProcessResponse(p, m)
      BY <2>0, <2>5, ProcessResponseAnswers
    <2>6. CASE \E type \in Exchanges : InitiateNext(p, m, type)
      BY <2>0, <2>6, InitiateNextAnswers
    <2>7. CASE CloseOnResponse(p, m)
      BY <2>7, CloseOnResponseAnswers
    <2> QED BY <1>3, <2>1, <2>2, <2>3, <2>4, <2>5, <2>6, <2>7 DEF ProcessMessage
  <1>4. ASSUME NEW p \in Peers, HalfOpenTimeout(p) \/ HeapAbort(p)
        PROVE  AnswersInv'
    BY <1>4, EndsAnswers
  <1>5. CASE UNCHANGED vars
    BY <1>5, EndsAnswers
  <1> QED BY <1>1, <1>2, <1>3, <1>4, <1>5 DEF Next

\* What is known of requests and their answers is an invariant.
LEMMA AnswersCorrect == ASSUME Quiet PROVE Spec => []AnswersInv
  <1>1. Init => AnswersInv
    BY InitAnswers
  <1>2. TypeOK /\ TypeOK' /\ FragmentsInv /\ ExchangeInv /\ AnswersInv /\ [Next]_vars
            => AnswersInv'
    BY NextAnswers
  <1> QED BY <1>1, <1>2, TypeCorrect, FragmentsCorrect, ExchangeInvariant, PTL DEF Spec

\* A request that took a message ID was sent, it is what retransmit() sends again, and a
\* job that will do so is scheduled (initiate, retransmit and the retransmit job).
THEOREM OutstandingSoundCorrect == ASSUME Quiet PROVE Spec => []OutstandingSound
  <1>1. TypeOK /\ ExchangeInv /\ AnswersInv => OutstandingSound
    <2> SUFFICES ASSUME TypeOK, ExchangeInv, AnswersInv, NEW p \in Peers, Outstanding(p)
                 PROVE  /\ initiating[p].packets # {} /\ initiating[p].packets \subseteq net
                        /\ \A x \in initiating[p].packets : x.req /\ x.mid = initiating[p].mid
                        /\ Alive(p) => initiating[p].mid \in DOMAIN jobs[p]
                        /\ Resent(p, initiating[p].mid, initiating[p], tracker[p],
                                  peer_supports[p]) = initiating[p].packets
      BY DEF OutstandingSound, IssuedWasSent, RetransmitsRequest, OutstandingIsTimed
    <2>1. RequestSound(p) /\ tracker[p].total = 0
      BY DEF AnswersInv, ExchangeInv
    <2>2. ~Tracked(p, tracker[p], initiating[p].mid)
      BY <2>1 DEF Tracked
    <2> QED BY <2>1, <2>2 DEF RequestSound, Resent
  <1> QED BY <1>1, TypeCorrect, ExchangeInvariant, AnswersCorrect, PTL

\* While a peer waits for the response to a request that was answered, the other one has
\* that response, and sends it when the first packet of the request arrives again
\* (build_response stores it, is_retransmit compares the hash of the packet).
THEOREM AnswerRetainedCorrect == ASSUME Quiet PROVE Spec => []AnswerRetained
  <1>1. TypeOK /\ AnswersInv => AnswerRetained
    <2> SUFFICES ASSUME TypeOK, AnswersInv, NEW p \in Peers, Alive(Other(p)), Outstanding(p),
                        responding[Other(p)].mid = initiating[p].mid + 1
                 PROVE  /\ \E m \in initiating[p].packets :
                               m.frag = 1 /\ IsRetransmit(Other(p), m)
                        /\ \A x \in responding[Other(p)].packets :
                               /\ ~x.req /\ x.mid = initiating[p].mid
                               /\ x.type = initiating[p].type
      BY DEF AnswerRetained
    <2>1. /\ AnswerSound(p) /\ initiating[p].mid \in Nat
          /\ \A m \in initiating[p].packets : m.req /\ m.mid = initiating[p].mid
      BY PeerTypes DEF AnswersInv, RequestSound
    <2>2. PICK m \in initiating[p].packets :
              m.frag = 1 /\ responding[Other(p)].prev_hash = {m}
      BY <2>1 DEF AnswerSound
    <2>3. responding[Other(p)].packets # {}
      BY <2>1 DEF AnswerSound
    <2>4. IsRetransmit(Other(p), m)
      BY <2>1, <2>2, <2>3 DEF IsRetransmit
    <2> QED BY <2>1, <2>2, <2>4 DEF AnswerSound
  <1> QED BY <1>1, TypeCorrect, AnswersCorrect, PTL

\* A step that ends the IKE_SA of q and changes its jobs is a retransmission given up.
LEMMA GiveUpStep ==
    ASSUME TypeOK, Next, NEW q \in Peers, Alive(q), ~Alive(q)', jobs'[q] # jobs[q]
    PROVE  \E mid : RetransmitJob(q, mid) /\ ~Alive(q)'
  <1>1. ASSUME NEW p \in Peers, NEW type \in Exchanges, Initiate(p, type) PROVE FALSE
    BY <1>1 DEF Initiate, Alive, TypeOK
  <1>2. ASSUME NEW p \in Peers, NEW mid \in DOMAIN jobs[p], RetransmitJob(p, mid)
        PROVE  p = q
    BY <1>2 DEF RetransmitJob, Retransmit, TypeOK
  <1>3. ASSUME NEW p \in Peers, NEW m \in net, ProcessMessage(p, m) PROVE FALSE
    <2>1. CASE ResendResponse(p, m) \/ UnexpectedId(p, m) \/ Dropped(p, m)
      BY <2>1 DEF ResendResponse, UnexpectedId, Dropped
    <2>2. CASE CollectFragment(p, m)
      BY <2>2 DEF CollectFragment
    <2>3. CASE ProcessRequest(p, m)
      BY <2>3 DEF ProcessRequest
    <2>4. CASE \E ending \in Endings : CloseOnRequest(p, m, ending)
      BY <2>4 DEF CloseOnRequest
    <2>5. CASE ProcessResponse(p, m)
      BY <2>5 DEF ProcessResponse
    <2>6. CASE \E type \in Exchanges : InitiateNext(p, m, type)
      <3>1. Alive(p) /\ state' = StateAfter(p, m)
        BY <1>3, <2>6 DEF InitiateNext, ProcessMessage
      <3> QED BY <3>1 DEF StateAfter, Alive, TypeOK
    <2>7. CASE CloseOnResponse(p, m)
      BY <2>7 DEF CloseOnResponse
    <2> QED BY <1>3, <2>1, <2>2, <2>3, <2>4, <2>5, <2>6, <2>7 DEF ProcessMessage
  <1>4. ASSUME NEW p \in Peers, HalfOpenTimeout(p) \/ HeapAbort(p) PROVE FALSE
    BY <1>4 DEF HalfOpenTimeout, HeapAbort
  <1> QED BY <1>1, <1>2, <1>3, <1>4 DEF Next

\* retransmit() gives up only on a request that is outstanding and was sent Tries + 1 times
\* (retransmit, its comparison with retransmit_tries).
THEOREM GiveUpWaitsForAnswerCorrect == ASSUME Quiet PROVE Spec => GiveUpWaitsForAnswer
  <1> DEFINE Waited == \A p \in Peers :
                 Alive(p) /\ ~Alive(p)' /\ jobs'[p] # jobs[p] =>
                     Outstanding(p) /\ initiating[p].retransmitted = Tries + 1
  <1>1. ASSUME TypeOK, ExchangeInv, AnswersInv, Next PROVE Waited
    <2> SUFFICES ASSUME NEW p \in Peers, Alive(p), ~Alive(p)', jobs'[p] # jobs[p]
                 PROVE  Outstanding(p) /\ initiating[p].retransmitted = Tries + 1
      OBVIOUS
    <2>1. PICK mid : RetransmitJob(p, mid)
      BY <1>1, GiveUpStep
    <2>2. tracker[p].total = 0 /\ RequestSound(p) /\ initiating[p] \in InitiatingType
      BY <1>1, PeerTypes DEF ExchangeInv, AnswersInv
    <2>3. GivesUp(p, Effective(p, mid), initiating[p], tracker[p])
      BY <2>1 DEF RetransmitJob, Alive
    <2>4. \A x : ~Tracked(p, tracker[p], x)
      BY <2>2 DEF Tracked
    <2>5. initiating[p].packets # {} /\ initiating[p].retransmitted > Tries
      BY <2>3, <2>4 DEF GivesUp, Due, Pending
    <2>6. initiating[p].retransmitted \in 0..(Tries + 1)
      BY <2>2 DEF InitiatingType
    <2> QED BY <2>2, <2>5, <2>6, Constants DEF RequestSound
  <1>2. TypeOK /\ ExchangeInv /\ AnswersInv /\ [Next]_vars => [Waited]_vars
    BY <1>1
  <1> QED BY <1>2, TypeCorrect, ExchangeInvariant, AnswersCorrect, PTL
      DEF Spec, GiveUpWaitsForAnswer

=============================================================================
