SPECIFICATION FairSpec
CONSTANTS
    h1 = h1  h2 = h2
    Handlers <- OneHandler
    Poller = poller
    NOrders = 2
    PollLimit = 50
    Webhook = FALSE
    Faults <- AllFaults
    MaxFaults = 1
    MaxRefunds = 0
PROPERTIES PolledInTime
