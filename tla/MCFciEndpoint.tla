--------------------------- MODULE MCFciEndpoint ---------------------------
(* FciEndpoint for TLC: callers are interchangeable.                       *)
EXTENDS FciEndpoint, TLC

CallerSymmetry == Permutations(Callers)

=============================================================================
