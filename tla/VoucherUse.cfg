SPECIFICATION Spec
CONSTANTS
    c1 = c1  c2 = c2  b1 = b1  b2 = b2  m1 = m1  m2 = m2
    Nobody = nobody
    Codes <- TwoCodes
    Valid <- TwoCodes
    Batches <- TwoBatches
    Devices <- TwoDevices
    Faults <- AllFaults
    MaxFaults = 2
    MaxLines = 2
SYMMETRY Symmetry
INVARIANTS TypeOK Ledger StatsAddUp
PROPERTIES KeepsTheCards
