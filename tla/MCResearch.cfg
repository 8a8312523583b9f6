SPECIFICATION Spec
CONSTANTS
    Requests = {r1, r2}
    Strangers = {x}
    Chats = {r2}
    Plugins = {g1, g2}
    Params = {p0, p1}
    Empty = p0
    MaxChanges = 1
    None = None
INVARIANTS
    SnapshotSound
    ReportCoherent
SYMMETRY Symmetry
CHECK_DEADLOCK FALSE
