\* Two pages are edited; a statement fails or the daemon restarts once.
SPECIFICATION Spec
CONSTANTS
    Pages = {1, 2}
    Writers = {"sync"}
    Sections <- TwoBodies
    Batch = 1
    StaleLimit = 1
    Skipped = {2}
    MaxEdits <- TwiceAndOnce
    MaxId = 7
    MaxFaults = 1
    Deletable = {}
    Returning = {}
INVARIANTS
    VectorsMatchTexts
PROPERTIES
    EmbeddingConverges
    PagesGetIndexed
CHECK_DEADLOCK FALSE
