---- MODULE MCHalfOpen ----
(***************************************************************************)
(* Instances of HalfOpen for TLC.                                           *)
(***************************************************************************)
EXTENDS HalfOpen, TLC

CONSTANTS m1, m2, m3, ip1, ip2

\* two messages of one peer and one of another
SourceOf == m1 :> ip1 @@ m2 :> ip1 @@ m3 :> ip2
OnePeerEach == m1 :> ip1 @@ m2 :> ip2

Interchangeable == Permutations(Threads) \cup Permutations(Spis)
====
