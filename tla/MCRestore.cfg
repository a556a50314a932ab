CONSTANTS
    f1 = f1
    g1 = g1
    t1 = t1
    c1 = c1
    w1 = w1
    w2 = w2
    Paths <- MCPaths
    Users = {f1, g1}
    Wanted = {f1}
    Names <- MCNames
    Temporary <- MCTemporary
    Clients = {c1}
    Workers = {w1, w2}
    Attempts = 2
    Devices = {TRUE, FALSE}
    MaxDisturbances = 4
    MaxFaults = 1
    MaxScans = 1
    MaxRequests = 1
SPECIFICATION RestoreSpec
SYMMETRY EitherWorker
INVARIANTS
    DeletedContentRetained
    RestoredIsBackedUp
PROPERTY RestoreNamesNeverReused
CHECK_DEADLOCK FALSE
