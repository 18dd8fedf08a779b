---- MODULE MCUserland ----
(***************************************************************************)
(* The userland IPsec stack for TLC: the context of one SA, which its user   *)
(* has to itself, and the manager that sees to that.  Neither reads the state *)
(* of the other, so each is explored while the other one rests.              *)
(***************************************************************************)
EXTENDS EspContext, IpsecSaMgr

StackInit == ContextInit /\ Init

StackNext ==
    \/ ContextNext /\ sas = <<>> /\ life = [s \in SAs |-> "none"] /\ UNCHANGED vars
    \/ Next /\ sent = 0 /\ UNCHANGED context

StackSpec == StackInit /\ [][StackNext]_<<context, vars>> /\ Fairness
====
