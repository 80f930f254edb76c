SPECIFICATION Spec
CONSTANTS
    q1 = q1  q2 = q2
    Reqs <- TwoReqs
    Mixes <- CutMixes
    MaxTries = 1
    Faults <- CutFaults
    MaxFaults = 1
    MaxEra = 2
    MaxTok = 2
    MaxId = 2
    MaxSecret = 1
SYMMETRY Symmetry
INVARIANTS TypeOK CutsHold
CHECK_DEADLOCK FALSE
