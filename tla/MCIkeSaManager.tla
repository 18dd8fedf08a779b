---- MODULE MCIkeSaManager ----
(***************************************************************************)
(* Instances of IkeSaManager for TLC.                                       *)
(***************************************************************************)
EXTENDS IkeSaManager, TLC

CONSTANTS s1, s2, t1, t2, t3

\* one segment, the default; or two, with s2 in the second one
OneRow == [s \in SAs |-> 1]
TwoRows == [s \in SAs |-> IF s = s2 THEN 2 ELSE 1]

\* one thread that does everything, one that does what does not take it through
\* the table, and one that only checks out, in and destroys; or all do everything
Full == {"rekey", "destroy", "unique", "enumerate"}
Graded == t1 :> Full @@ t2 :> {"destroy", "unique"} @@ t3 :> {"destroy"} @@ Flusher :> {"flush"}
Everything == [t \in All |-> IF t = Flusher THEN {"flush"} ELSE Full]
====
