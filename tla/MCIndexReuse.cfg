\* One of two pages vanishes while a chunk of it is being embedded.
SPECIFICATION Spec
CONSTANTS
    Pages = {1, 2}
    Writers = {"sync"}
    Sections <- OneSection
    Batch = 1
    StaleLimit = 1
    Skipped = {}
    MaxEdits <- OnceEach
    MaxId = 6
    MaxFaults = 0
    Deletable = {1}
    Returning = {}
INVARIANTS
    VectorsMatchTexts
CHECK_DEADLOCK FALSE
