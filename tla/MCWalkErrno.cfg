SPECIFICATION ListSpec
CONSTANTS
    a = a
    b = b
    f = f
    g = g
    s = s
    Root = Root
    Nodes = {a, b, f, g, s}
    Dirs = {a, b}
    Special = {}
    Up <- Tree
    Cases <- PosixCases
    MaxChanges = 0
    MaxFaults = 0
    Order <- ByName
    PageSizes = {2}
INVARIANT QuietWalkDelivers
CHECK_DEADLOCK FALSE
