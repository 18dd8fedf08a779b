---- MODULE MCCookies ----
(***************************************************************************)
(* Instances of Cookies for TLC: addresses are numbers, 0 stands for all.    *)
(***************************************************************************)
EXTENDS Cookies

OneBucket == [ip \in Hosts |-> 1]
====
