SPECIFICATION FairSpec
CONSTANTS
    h1 = h1  h2 = h2
    Handlers <- TwoHandlers
    Poller = poller
    NOrders = 1
    PollLimit = 50
    Webhook = TRUE
    Faults <- AllFaults
    MaxFaults = 2
    MaxRefunds = 2
INVARIANTS TypeOK Ledger NothingForFree
PROPERTIES AckWaitsForGrant KeepsTheBook PaidIsSeen
