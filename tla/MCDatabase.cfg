SPECIFICATION DatabaseFairSpec
CONSTANTS
    Procs = {p1, p2}
    Probes = {q1}
    Nobody = Nobody
    MaxStarts = 2
    c1 = c1
    c2 = c2
    Order <- MCOrder
    Id = id
    Found = {{}, {id}}
    NoTransaction = NoTransaction
INVARIANTS
    OneBackupProcess
    NothingLeftBehind
    ConsumersStay
    MigrationIsAtomic
    WritersFindColumns
PROPERTY StopEnds
CHECK_DEADLOCK FALSE
