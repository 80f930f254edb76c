---------------------------- MODULE MCMacService ----------------------------
(* Instances of MacService for TLC. *)
EXTENDS MacService, TLC

CONSTANTS a, b, h1, h2

TwoMacs == {a, b}
OneHandler == {h1}
TwoHandlers == {h1, h2}

AllFaults == {"fw", "crash"}

Symmetry == Permutations(TwoMacs) \cup Permutations(TwoHandlers)
=============================================================================
