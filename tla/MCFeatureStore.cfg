SPECIFICATION Spec
CONSTANTS
    r1 = r1
    r2 = r2
    r3 = r3
    f1 = f1
    f2 = f2
    pure = pure
    fromNews = fromNews
    Runs <- MCRuns
    Features <- MCFeatures
    Wanted <- MCWanted
    Lenient <- MCLenient
    Definitions <- MCDefinitions
    Def <- MCDef
    NewsDefs <- MCNewsDefs
    Edited <- MCEdited
    MaxSource = 2
    MaxNews = 1
    Nothing = Nothing
INVARIANTS
    RecordedIsStored
    ServesOwnVersion
PROPERTY
    HistoryKept
SYMMETRY MCSymmetry
CHECK_DEADLOCK FALSE
