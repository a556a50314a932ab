SPECIFICATION WinFairSpec
CONSTANTS
    Paths = {p, q}
    MaxDisturbances = 2
    MaxRecords = 2
PROPERTIES
    NoSpuriousDelete
    ExistingFilesConverge
    DeletedFilesConverge
CHECK_DEADLOCK FALSE
