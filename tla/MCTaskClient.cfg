CONSTANTS
    Tasks = {t1}
    Scheduled = {}
    Callers = {loop}
    Main = loop
    Waiters = {w1}
    Pools <- MCPools
    NoPool = NoPool
    NoTask = NoTask
    Free = Free
    MaxWorkers = 1
SPECIFICATION ClientSpec
INVARIANTS GetFaithful ReportTrue
PROPERTIES ReportsNeverGoBack GetReturns
\* Readers stop asking, and the process ends after the lifespan's shutdown.
CHECK_DEADLOCK FALSE
