CONSTANTS
    Requests = {r1, r2, r3}
    Datasets = {d1}
    Want <- MCWant
    Micros <- MCMicros
    MayCoincide = FALSE
    MaxVersion = 2
    MaxCrashes = 1
    NoFile = NoFile
    Free = Free
SPECIFICATION FairSpec
INVARIANTS NoDanglingUri CacheAgrees OneRowPerRecord
PROPERTIES NeverOverwritten Answered DataPromiseKept
\* Requests are answered once each.
CHECK_DEADLOCK FALSE
