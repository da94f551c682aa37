\* One page, reindexed by the sync loop and the index loop at once.
SPECIFICATION Spec
CONSTANTS
    Pages = {1}
    Writers = {"sync"}
    Sections <- TwoBodies
    Batch = 1
    StaleLimit = 1
    Skipped = {}
    MaxEdits <- TwiceAndOnce
    MaxId = 6
    MaxFaults = 0
    Deletable = {}
    Returning = {}
INVARIANTS
    UnlistedIsIndexed
CHECK_DEADLOCK FALSE
