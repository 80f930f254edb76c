SPECIFICATION Spec
CONSTANTS
    a1 = a1
    Admins <- OneAdmin
    Rot = rotator
    RetainDays = 1
    IOFails = TRUE
    MaxCommits = 2
    MaxStops = 3
    MaxCopies = 2
INVARIANTS TypeOK LiveIsWhole NothingIsLost
PROPERTIES KeepsTheDatabase BackupIsRecent PruneKeepsNewest
CONSTRAINT Unhurt
