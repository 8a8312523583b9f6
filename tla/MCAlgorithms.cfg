SPECIFICATION Spec
CONSTANTS
    CVJobs <- MCCVJobs
    WalkJobs <- MCWalkJobs
    CPCVJobs <- MCCPCVJobs
    Trees <- MCTrees
    Tables <- MCTables
    Selections <- MCSelections
    Scores = {0, 1, 2}
    NaN = NaN
    Text = Text
INVARIANTS
    NoLookAhead
    TestsTile
    LabelsPurged
    PathsCover
    NestedFits
    SignalsMeanTree
    BestFirst
CHECK_DEADLOCK FALSE
