SPECIFICATION FairSpec
CONSTANTS
    s = s
    b = b
    bb = bb
    t = t
    l = l
    i = i
    Procs = {p1, p2}
    Requests = {r1, r2}
    Paths = {s, b, bb, t, l, i}
    Mounts = {s}
    Within <- MCWithin
    Trimmed <- MCTrimmed
    MaxThreads = 2
    First <- MCFirst
    Updates <- MCUpdates
    MaxPosts = 2
    MaxFaults = 1
    MaxCrashes = 2
INVARIANTS
    SavedConfigurationSurvives
PROPERTY FlagSettles
CHECK_DEADLOCK FALSE
