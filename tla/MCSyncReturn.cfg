\* The sync loop alone, one page that goes away and comes back as it was.
SPECIFICATION Spec
CONSTANTS
    NoSource = NoSource
    Pages = {1}
    Sources = {"board"}
    Home <- OneRow
    Workers = {"loop"}
    Calls = {"page"}
    Slack = 1
    MaxTime = 2
    MaxWalk = 1
    MaxRev <- OneTwice
    MaxFaults = 0
    Deletable = {1}
    MaxReturns = 1
    Lagging = {}
    OneEditPerMinute = TRUE
INVARIANTS
    ReturnedBodyIsCurrent
CHECK_DEADLOCK FALSE
