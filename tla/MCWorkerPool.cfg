SPECIFICATION FairSpec
CONSTANTS
    Items = {e1, e2, e3}
    Workers = {w1, w2}
    Producers = {scanner, watcher}
    Scanner = scanner
    Main = main
    None = None
    Expiring = {main}
INVARIANTS
    UnfinishedExact
    ScanWaitsForItsWork
    NoSleepOnQueuedWork
PROPERTIES
    ImplementsLedger
    EveryEventProcessed
    StopTerminates
    ScanReturns
