---------------------------- MODULE MCProxyTrail ----------------------------
(* Constants of the runs that look at the attempts of one request. *)
EXTENDS ProxyTrail

CONSTANTS a, b, c1

UniqueLabels == <<a, b>>
OneCaller == {c1}
=============================================================================
