---------------------------- MODULE MCLogStore ----------------------------
(* Constants of the run of the event log. *)
EXTENDS LogStore, TLC

CONSTANTS proxy, admin, oversized, anyKind, r1, d1

\* An event of the admin API fits by one byte, behind any rest it does not.
Lengths == proxy :> 1 @@ admin :> 2 @@ oversized :> 3
=============================================================================
