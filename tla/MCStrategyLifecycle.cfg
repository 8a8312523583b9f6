CONSTANTS
    good = good
    bad = bad
    Requests = {r1, r2, r3}
    PatchStatuses <- MCPatchStatuses
    Backtests = {good, bad}
    Sharpe <- MCSharpe
    None = None
SPECIFICATION Spec
INVARIANTS TakesEffect EvidenceIsBest
\* Requests are answered once each.
CHECK_DEADLOCK FALSE
