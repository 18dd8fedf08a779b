---------------------------- MODULE MCTaskManager ----------------------------
(***************************************************************************)
(* Instances of TaskManager for TLC: which peers have selective            *)
(* retransmission enabled, and which messages are fragmented.              *)
(***************************************************************************)
EXTENDS TaskManager

\* Values for Selective.
Both      == [p \in Peers |-> TRUE]
Neither   == [p \in Peers |-> FALSE]
OnlyI     == [p \in Peers |-> p = I]

\* Values for ReqFrags and RespFrags.
Fragmented(types, n) == [e \in Exchanges |-> IF e \in types THEN n ELSE 1]

Unfragmented  == Fragmented({}, 1)
Intermediate2 == Fragmented({"IKE_INTERMEDIATE"}, 2)
Intermediate3 == Fragmented({"IKE_INTERMEDIATE"}, 3)
Auth2         == Fragmented({"IKE_AUTH"}, 2)
Initial2      == Fragmented({"IKE_INTERMEDIATE", "IKE_AUTH"}, 2)
Child2        == Fragmented({"CREATE_CHILD_SA"}, 2)
=============================================================================
