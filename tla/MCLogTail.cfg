SPECIFICATION TailFairSpec
CONSTANTS
    p = p
    q = q
    o = o
    nl = nl
    Newline = nl
    Producers = {p, q}
    Capacity = 2
    MaxRecords <- MCRecords
    MaxFaults = 1
    Width <- MCWidth
    Older <- MCOlder
    Chunk = 2
    Asked = {0, 1, 2, 4}
INVARIANTS
    RingShowsLatest
    OutputsInOrder
    StopFlushesLog
    TailShowsLastLines
PROPERTY LogStopReturns
CHECK_DEADLOCK FALSE
