----------------------------- MODULE MCGateway -----------------------------
(* Constants of the runs of the hot-reloadable runtime. *)
EXTENDS Gateway, TLC

CONSTANTS a1, a2, r1, v1, short, long, edited, foreign

\* The environment overrides a field of edited, and turns it into short.
Lengths == short :> 1 @@ long :> 2 @@ edited :> 1
Environment == short :> short @@ long :> long @@ edited :> short
AdminSymmetry == Permutations({a1, a2})
=============================================================================
