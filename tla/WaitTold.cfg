SPECIFICATION FairSpec
CONSTANTS
    w1 = w1  w2 = w2
    Waiters <- TwoWaiters
    Other = other
INVARIANTS TypeOK NoStrayChannel
PROPERTIES PaidIsTold
