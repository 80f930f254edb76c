SPECIFICATION Spec
CONSTANTS
    q1 = q1  q2 = q2  m1 = m1  m2 = m2  u1 = u1  u2 = u2  o1 = o1  o2 = o2  p1 = p1
    Nobody = Nobody  None = None
    Reqs <- TwoReqs
    Macs <- TwoMacs
    Users <- TwoUsers
    Orders <- TwoOrders
    Device <- SameDevice
    Buyer <- TwoBuyers
    Plans <- OnePlan
    Mixes <- TrailMixes
    Faults <- AllFaults
    MaxFaults = 1
SYMMETRY Symmetry
INVARIANTS TypeOK TrailAgrees  
 
