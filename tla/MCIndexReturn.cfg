\* One page vanishes from Notion and comes back unedited.
SPECIFICATION Spec
CONSTANTS
    Pages = {1}
    Writers = {"sync"}
    Sections <- OneSection
    Batch = 1
    StaleLimit = 1
    Skipped = {}
    MaxEdits <- OnceEach
    MaxId = 6
    MaxFaults = 0
    Deletable = {1}
    Returning = {1}
INVARIANTS
    IndexedIsFindable
CHECK_DEADLOCK FALSE
