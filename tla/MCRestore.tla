------------------------------ MODULE MCRestore ------------------------------
(* Instances of Restore for TLC. *)
EXTENDS Restore

CONSTANT a1

OneAdmin == {a1}

\* What follows once the files are hurt is left to the proofs: of what the runs
\* check only the two action properties say anything then.
Unhurt == hurt = {}
=============================================================================
