------------------------------ MODULE MCPayment ------------------------------
(* Instances of Payment for TLC. *)
EXTENDS Payment

CONSTANTS h1, h2

OneHandler == {h1}
TwoHandlers == {h1, h2}

AllFaults == FaultKinds
=============================================================================
