\* A page is stored by a resync, indexed and embedded while a pass that has trashed
\* another one refreshes the cache.
SPECIFICATION Spec
CONSTANTS
    Pages = {1, 2}
    Writers = {"sync", "ipc"}
    Sections <- OneSection
    Batch = 1
    StaleLimit = 1
    Skipped = {}
    MaxEdits <- OnceEach
    MaxId = 2
    MaxFaults = 0
    Deletable = {1}
    Returning = {}
PROPERTIES
    EmbeddingConverges
CHECK_DEADLOCK FALSE
