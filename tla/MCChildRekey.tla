---- MODULE MCChildRekey ----
(***************************************************************************)
(* Instances of ChildRekey for TLC, in which the peers are alike.            *)
(***************************************************************************)
EXTENDS ChildRekey, TLC

PeerSymmetry == Permutations(Peers)
====
