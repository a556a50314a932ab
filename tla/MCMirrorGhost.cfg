SPECIFICATION Spec
CONSTANTS
    Paths = {p}
    Workers = {w1, w2}
    Attempts = 2
    Devices = {TRUE}
    MaxDisturbances = 3
    MaxFaults = 0
    MaxScans = 0
INVARIANT DeletedFileLeavesBackup
CHECK_DEADLOCK FALSE
