CONSTANTS
    Tasks = {t1, t2}
    Scheduled = {t2}
    Callers = {loop, consumer}
    Main = loop
    Pools <- MCPools
    NoPool = NoPool
    NoTask = NoTask
    Free = Free
    MaxWorkers = 1
SPECIFICATION FairSpec
INVARIANTS OneCarrier NeverForgotten RaisedNeverRuns OutcomeRecorded ShutdownDrained
PROPERTIES QueuedSettles ShutdownReturns PromiseKept
\* The process ends after the lifespan's shutdown.
CHECK_DEADLOCK FALSE
