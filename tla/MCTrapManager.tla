---- MODULE MCTrapManager ----
(***************************************************************************)
(* Instance of TrapManager for TLC: one thread installs while two may wait    *)
(* to uninstall or to flush.                                                  *)
(***************************************************************************)
EXTENDS TrapManager, TLC

CONSTANTS t1, t2, t3

Mixed == t1 :> {"install", "uninstall", "flush"}
         @@ t2 :> {"install", "external", "acquire"}
         @@ t3 :> {"install", "uninstall", "acquire"}
====
