------------------------------ MODULE MCAdmin ------------------------------
(* Instance of Admin for TLC. *)
EXTENDS Admin, TLC

CONSTANTS q1, q2, m1, m2, u1, u2, o1, o2, p1

TwoReqs == {q1, q2}
TwoMacs == {m1, m2}
TwoUsers == {u1, u2}
TwoOrders == {o1, o2}
OnePlan == {p1}
SameDevice == [o \in TwoOrders |-> m1]
TwoBuyers == [o \in TwoOrders |-> IF o = o1 THEN u1 ELSE Nobody]

\* Rows of devices, owners of devices, and orders and plans.
TrailMixes == {{"grant", "delete", "revoke", "api_revoke", "replace", "bulk_extend"},
               {"import", "bulk_delete", "api_import"},
               {"pay", "refund", "claim", "revoke"},
               {"pay", "claim", "label", "delete", "user_grant"},
               {"grant", "claim", "note", "replace", "user_grant"},
               {"pay", "refund", "cancel", "cancel_stale"},
               {"plan_save", "plan_delete", "api_plan_delete", "audit_note"}}

AllFaults == FaultKinds

Symmetry == Permutations(TwoReqs)
=============================================================================
