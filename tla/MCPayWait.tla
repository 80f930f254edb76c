------------------------------ MODULE MCPayWait ------------------------------
(* Instances of PayWait for TLC. *)
EXTENDS PayWait

CONSTANTS w1, w2

TwoWaiters == {w1, w2}
=============================================================================
