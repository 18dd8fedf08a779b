---- MODULE MCMemPool ----
(***************************************************************************)
(* Instances of MemPool for TLC.                                            *)
(***************************************************************************)
EXTENDS MemPool

CONSTANTS s1, s2, s3, s4, alice, bob, p1, p2, p3

\* two IKE_SAs of one peer and one of another identity
ReauthId == s1 :> alice @@ s2 :> alice @@ s3 :> bob
ReauthPeer == s1 :> p1 @@ s2 :> p1 @@ s3 :> p2

\* three hosts that share an identity, one of which reauthenticates
SharedId == s1 :> alice @@ s2 :> alice @@ s3 :> alice @@ s4 :> alice
SharedPeer == s1 :> p1 @@ s2 :> p2 @@ s3 :> p3 @@ s4 :> p2

OnePool == <<3>>
TwoPools == <<1, 2>>
AnyAddress == {None}
AnyOrFirst == {None, <<1, 1>>}
====
