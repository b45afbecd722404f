----------------------------- MODULE MCKeyPool -----------------------------
(* Constants of the runs that check a pool on its own. *)
EXTENDS KeyPool, TLC

CONSTANTS a, b, c1, c2

UniqueLabels == <<a, b>>

TwoCallers == {c1, c2}
CallerSymmetry == Permutations({c1, c2})
=============================================================================
