---- MODULE SaOwnership ----
(***************************************************************************)
(* What the IKE_SA manager promises to the code that uses IKE_SAs, and what *)
(* TaskManager takes for granted when it treats a handler as one step: an   *)
(* IKE_SA is used by at most one thread at a time, and nobody uses it after *)
(* it was destroyed.  The manager of userland IPsec SAs promises the same.   *)
(***************************************************************************)
CONSTANTS Threads, SAs, NoThread

VARIABLES owner,        \* the thread that uses an SA, or NoThread
          life          \* "none", "live" or "destroyed"

vars == <<owner, life>>

Init ==
    /\ owner = [s \in SAs |-> NoThread]
    /\ life = [s \in SAs |-> "none"]

\* A thread creates an SA, which it then uses or leaves to others.
Create(t, s) ==
    /\ life[s] = "none"
    /\ life' = [life EXCEPT ![s] = "live"]
    /\ owner' \in {owner, [owner EXCEPT ![s] = t]}

Acquire(t, s) ==
    /\ life[s] = "live"
    /\ owner[s] = NoThread
    /\ owner' = [owner EXCEPT ![s] = t]
    /\ UNCHANGED life

Release(t, s) ==
    /\ owner[s] = t
    /\ owner' = [owner EXCEPT ![s] = NoThread]
    /\ UNCHANGED life

\* An SA is destroyed by the thread that uses it, or while nobody does.
Destroy(s) ==
    /\ life[s] = "live"
    /\ life' = [life EXCEPT ![s] = "destroyed"]
    /\ owner' = [owner EXCEPT ![s] = NoThread]

Next ==
    \E s \in SAs :
        \/ Destroy(s)
        \/ \E t \in Threads : Create(t, s) \/ Acquire(t, s) \/ Release(t, s)

Spec == Init /\ [][Next]_vars
====
