------------------------------ MODULE MCProxy ------------------------------
(* Constants of the runs of the request pipeline. *)
EXTENDS Proxy

CONSTANTS a, b, c1, c2

UniqueLabels == <<a, b>>
OneLabel == <<a>>
OneCaller == {c1}
TwoCallers == {c1, c2}
=============================================================================
