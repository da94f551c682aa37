\* The sync loop and page resyncs, edits sharing minutes, walks of a minute.
SPECIFICATION Spec
CONSTANTS
    NoSource = NoSource
    Pages = {1, 2}
    Sources = {"board"}
    Home <- TwoRows
    Workers = {"loop", "ipc"}
    Calls = {"page"}
    Slack = 2
    MaxTime = 4
    MaxWalk = 1
    MaxRev <- TwiceAndOnce
    MaxFaults = 0
    Deletable = {}
    MaxReturns = 0
    Lagging = {}
    OneEditPerMinute = FALSE
INVARIANTS
    SyncInv
    WatermarkCovers
    NoFalseTrash
CHECK_DEADLOCK FALSE
