\* The sync loop and a page resync, one page edited twice.
SPECIFICATION Spec
CONSTANTS
    NoSource = NoSource
    Pages = {1}
    Sources = {"board"}
    Home <- OneRow
    Workers = {"loop", "ipc"}
    Calls = {"page"}
    Slack = 1
    MaxTime = 2
    MaxWalk = 1
    MaxRev <- OneTwice
    MaxFaults = 0
    Deletable = {}
    MaxReturns = 0
    Lagging = {}
    OneEditPerMinute = TRUE
INVARIANTS
    StampedBodyIsCurrent
CHECK_DEADLOCK FALSE
