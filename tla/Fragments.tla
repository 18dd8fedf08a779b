------------------------------ MODULE Fragments ------------------------------
(***************************************************************************)
(* The data structures of IKEv2 fragmentation with selective              *)
(* retransmission, as pure operators:                                      *)
(*                                                                         *)
(*   - the reassembly of a fragmented message at its receiver              *)
(*     (src/libcharon/encoding/message.c, add_fragment_v2 and friends);    *)
(*   - the FRAGMENT_ACK notify the receiver sends for every fragment; and  *)
(*   - the tracker in which the sender records which fragments of its last *)
(*     fragmented message were acknowledged (task_manager_v2.c).           *)
(*                                                                         *)
(* A fragment is a record with at least the fields mid, frag and total; its*)
(* bytes do not matter here.                                               *)
(***************************************************************************)
EXTENDS Integers, FiniteSets

CONSTANT
    AckBits     \* fragments the ACK bitmap can name: 64 in the code

ASSUME AckBitsAssumption == AckBits \in Nat \ {0}

-----------------------------------------------------------------------------
(* Reassembly.  A defrag message without fragments (or none, NULL) has     *)
(* total = 0.                                                              *)

NoDefrag == [mid |-> 0, total |-> 0, got |-> {}]

\* add_fragment_v2() refuses a fragment of another message than the one the
\* defrag message was created for.
Accepts(d, m) == d.total = 0 \/ d.mid = m.mid

\* The fragments kept when m arrives: a larger total throws away what was
\* collected with smaller fragments (reset_defrag).
Kept(d, m) == IF m.total > d.total THEN {} ELSE d.got

AddFragment(d, m) ==
    [mid   |-> m.mid,
     total |-> IF m.total > d.total THEN m.total ELSE d.total,
     got   |-> Kept(d, m) \cup {m.frag}]

\* Mutant: a duplicate counts as a fragment of its own.
CompletesOnDuplicate(d, m) == Cardinality(Kept(d, m)) + 1 = m.total

\* add_fragment_v2() returns SUCCESS: m is no duplicate and the last missing
\* fragment.
Completes(d, m) ==
    /\ m.frag \notin Kept(d, m)
    /\ Cardinality(Kept(d, m) \cup {m.frag}) = m.total

-----------------------------------------------------------------------------
(* The FRAGMENT_ACK notify.                                                *)

NoAck == [is |-> FALSE, mid |-> 0, bits |-> {}]

\* Once a message is reassembled its fragment list is gone, and the ACK names
\* every fragment up to the one that arrived last.
ReassembledAck(m) == 1..m.frag

\* Mutant: every fragment of the message is acknowledged with the first.
FragmentAckOfAll(d, m) ==
    [is |-> TRUE, mid |-> m.mid % 65536, bits |-> (1..m.total) \cap (1..AckBits)]

\* send_immediate_fragment_ack(): the notify for fragment m added to d.
FragmentAck(d, m) ==
    LET ids == IF Completes(d, m) THEN ReassembledAck(m)
                                  ELSE AddFragment(d, m).got
    IN  [is |-> TRUE, mid |-> m.mid % 65536, bits |-> ids \cap (1..AckBits)]

-----------------------------------------------------------------------------
(* The tracker of the last fragmented message sent.  No tracker (NULL) has *)
(* total = 0.                                                              *)

NoTracker == [mid |-> 0, total |-> 0, acked_fragments |-> 0, acked |-> {},
              packets |-> {}]

\* create_fragment_tracker() and one add_fragment_to_tracker() per packet.
NewTracker(mid, packets) ==
    [mid |-> mid, total |-> Cardinality(packets), acked_fragments |-> 0,
     acked |-> {}, packets |-> packets]

AllAcked(t) == t.acked_fragments >= t.total

\* The clones of the packets retransmit_missing_fragments_simple() sends.
MissingPackets(t) == {x \in t.packets : x.frag \notin t.acked}

\* Mutant: a fragment that was acknowledged before is counted again.
UpdateCountsAgain(t, bits) ==
    LET fresh == bits \cap (1..t.total)
    IN  [t EXCEPT !.acked = @ \cup fresh,
                  !.acked_fragments = @ + Cardinality(fresh)]

\* update_fragment_ack_status(): acknowledgments accumulate, and a fragment is
\* counted the first time only.
UpdateAckStatus(t, bits) ==
    LET fresh == (bits \cap (1..t.total)) \ t.acked
    IN  [t EXCEPT !.acked = @ \cup fresh,
                  !.acked_fragments = @ + Cardinality(fresh)]

\* process_fragment_ack(): ignored without a tracker or for another message ID.
ProcessFragmentAck(t, ack) ==
    IF t.total = 0 \/ t.mid # ack.mid THEN t ELSE UpdateAckStatus(t, ack.bits)
=============================================================================
