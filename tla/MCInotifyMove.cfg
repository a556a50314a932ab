SPECIFICATION FairSpec
CONSTANTS
    Root = Root
    h = h
    k = k
    x = x
    y = y
    Dirs = {h, k}
    Names = {x, y}
    Depth = 1
    Starts <- OneDirectory
    Operations = {"rename"}
    Limit = 4
    MaxChanges = 1
PROPERTY TreeConverges
CHECK_DEADLOCK FALSE
