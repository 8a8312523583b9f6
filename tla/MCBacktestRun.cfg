CONSTANTS
    Requests = {r1, r2}
    PatchStatuses <- MCPatchStatuses
    MaxPatches = 2
    MaxCrashes = 1
    NoRun = NoRun
    Error = Error
    Client = Client
SPECIFICATION FairSpec
INVARIANTS RunningHasRunner ArtifactsMatch
PROPERTY RunningSettles
\* Requests are made once each.
CHECK_DEADLOCK FALSE
