----------------------------- MODULE MCAccounts -----------------------------
(* Instances of Accounts for TLC. *)
EXTENDS Accounts, TLC

CONSTANTS q1, q2

TwoReqs == {q1, q2}

\* Who keeps a session when a credential changes or the row goes.
CutMixes == {{"login", "suspend", "delete"},
             {"login", "panic"},
             {"login", "forgot"},
             {"login", "resetpw", "passwd", "others"},
             {"login", "register", "others", "quit", "logout", "expire"}}

\* What the second factor and its substitutes are worth.
FactorMixes == {{"login", "begin", "confirm", "regen", "disable", "reset2fa"},
                {"login", "begin", "confirm", "revoke", "revokeAll", "expire"},
                {"forgot", "expire", "delete", "register"}}

CutFaults == {"abort", "skip"}
AllFaults == FaultKinds

Symmetry == Permutations(TwoReqs)
=============================================================================
