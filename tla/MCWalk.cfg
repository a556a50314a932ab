SPECIFICATION ListSpec
CONSTANTS
    a = a
    b = b
    f = f
    g = g
    s = s
    Root = Root
    Nodes = {a, b, f, g, s}
    Dirs = {a, b}
    Special = {s}
    Up <- Tree
    Cases <- EveryCase
    MaxChanges = 2
    MaxFaults = 1
    Order <- ByName
    PageSizes = {1, 2}
INVARIANTS
    SuccessfulWalkIsComplete
    UndisturbedWalkSucceeds
    MoveKeepsContent
    ListingIsComplete
CHECK_DEADLOCK FALSE
