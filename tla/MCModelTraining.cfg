SPECIFICATION Spec
CONSTANTS
    Trainings = {t1, t2}
    Tracked = {t1}
    Generations = {g1}
    Params = {p1, p2}
    Data = {d1, d2}
    None = None
INVARIANTS
    LineageBackwards
    SignalsExplained
SYMMETRY Symmetry
CHECK_DEADLOCK FALSE
