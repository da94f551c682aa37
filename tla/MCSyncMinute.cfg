\* The sync loop alone, one page edited twice within a minute.
SPECIFICATION Spec
CONSTANTS
    NoSource = NoSource
    Pages = {1}
    Sources = {"board"}
    Home <- OneRow
    Workers = {"loop"}
    Calls = {"page"}
    Slack = 1
    MaxTime = 2
    MaxWalk = 1
    MaxRev <- OneTwice
    MaxFaults = 0
    Deletable = {}
    MaxReturns = 0
    Lagging = {}
    OneEditPerMinute = FALSE
INVARIANTS
    StampedBodyIsCurrent
CHECK_DEADLOCK FALSE
