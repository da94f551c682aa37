\* The sync loop alone, edits in distinct minutes, with a failure or a crash; the row
\* may be deleted and come back.
SPECIFICATION Spec
CONSTANTS
    NoSource = NoSource
    Pages = {1, 2}
    Sources = {"board"}
    Home <- RowAndLoose
    Workers = {"loop"}
    Calls = {"page"}
    Slack = 1
    MaxTime = 3
    MaxWalk = 1
    MaxRev <- Twice
    MaxFaults = 1
    Deletable = {1}
    MaxReturns = 1
    Lagging = {2}
    OneEditPerMinute = TRUE
INVARIANTS
    LoopInv
    RowsKeepSource
    StampedBodyIsCurrent
PROPERTIES
    MirrorConverges
    DeletionsReachMirror
    KeepsPromise
CHECK_DEADLOCK FALSE
