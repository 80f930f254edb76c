SPECIFICATION Spec
CONSTANTS
    ip1 = ip1
    ip2 = ip2
    m1 = m1
    m2 = m2
    Ips <- MCIps
    Macs <- MCMacs
    Parts <- MCParts
    GardenFaults = 1
    Depth = 2
    Retries = 2
    MaxSend = 5
    Keep = 1
    Mishaps = 1
INVARIANTS TypeOK TwiceHasACause
PROPERTIES KeepsTheStream Settled DeadDrain Warned
