------------------------------ MODULE MCVoucher ------------------------------
(* Instances of Voucher for TLC. *)
EXTENDS Voucher, TLC

CONSTANTS c1, c2, b1, b2, m1, m2

TwoCodes == {c1, c2}
TwoBatches == {b1, b2}
TwoDevices == {m1, m2}

AllFaults == FaultKinds

Symmetry == Permutations(TwoCodes) \cup Permutations(TwoDevices)
                \cup Permutations(TwoBatches)
=============================================================================
