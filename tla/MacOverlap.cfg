SPECIFICATION Spec
CONSTANTS
    a = a  b = b  h1 = h1  h2 = h2
    Scheduler = sched  Enforcer = enf
    Macs <- TwoMacs
    Handlers <- TwoHandlers
    Ops <- AllOps
    Faults <- AllFaults
SYMMETRY Symmetry
INVARIANTS TypeOK 
PROPERTIES FwFollows
