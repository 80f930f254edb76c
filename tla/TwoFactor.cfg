SPECIFICATION Spec
CONSTANTS
    q1 = q1  q2 = q2
    Reqs <- TwoReqs
    Mixes <- FactorMixes
    MaxTries = 2
    Faults <- AllFaults
    MaxFaults = 1
    MaxEra = 1
    MaxTok = 2
    MaxId = 2
    MaxSecret = 3
SYMMETRY Symmetry
INVARIANTS TrustIsEarned  CodeUses
CHECK_DEADLOCK FALSE
