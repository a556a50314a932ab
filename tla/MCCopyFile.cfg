SPECIFICATION FairSpec
CONSTANTS
    Copiers = {c1, c2}
    Stamps = {1, 2}
    Inodes = {i1, i2}
    First = i1
    MaxBlocks = 2
    Attempts = 2
    MaxCrashes = 1
    MaxFaults = 1
    MaxMishaps = 1
    MaxCalls = 2
    Unit = 1
    Gone = Gone
INVARIANTS
    DestinationWhole
    ReportedCopySurvives
    NoTemporaryLeft
    SkippedFileIsCurrent
PROPERTIES
    StableSourceIsCopied
    CopyReturns
CHECK_DEADLOCK FALSE
