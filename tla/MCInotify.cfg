SPECIFICATION FairSpec
CONSTANTS
    Root = Root
    h = h
    k = k
    x = x
    y = y
    Dirs = {h, k}
    Names = {x, y}
    Depth = 2
    Starts <- OneOrNested
    Operations = {"mkdir", "rmdir", "rename", "leave", "write", "unlink"}
    Limit = 2
    MaxChanges = 2
INVARIANT NeverUnderAnOldPath
PROPERTY WatchedFilesConverge
CHECK_DEADLOCK FALSE
