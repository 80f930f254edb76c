SPECIFICATION Spec
CONSTANTS
    ip1 = ip1
    ip2 = ip2
    m1 = m1
    m2 = m2
    Ips <- MCIps
    Macs <- MCMacs
    Parts <- MCGardenOnly
    GardenFaults = 0
    Depth = 1
    Retries = 0
    MaxSend = 0
    Keep = 1
    Mishaps = 0
PROPERTIES KeptInSync
