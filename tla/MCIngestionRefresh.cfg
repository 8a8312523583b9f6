CONSTANTS
    Requests = {r1, r2}
    Datasets = {d1}
    Want <- MCWant
    Micros <- MCMicros
    MayCoincide = FALSE
    MaxVersion = 2
    MaxCrashes = 0
    NoFile = NoFile
    Free = Free
SPECIFICATION Spec
INVARIANT RefreshReingests
CHECK_DEADLOCK FALSE
