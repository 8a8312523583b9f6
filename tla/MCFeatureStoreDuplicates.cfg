SPECIFICATION Spec
CONSTANTS
    r1 = r1
    r2 = r2
    r3 = r3
    f1 = f1
    f2 = f2
    pure = pure
    fromNews = fromNews
    Runs <- MCTwins
    Features <- MCFeatures
    Wanted <- MCTwinsWanted
    Lenient <- MCTwinsLenient
    Definitions <- MCDefinitions
    Def <- MCDef
    NewsDefs <- MCNewsDefs
    Edited <- MCEdited
    MaxSource = 2
    MaxNews = 1
    Nothing = Nothing
INVARIANT
    AlwaysResolves
CHECK_DEADLOCK FALSE
