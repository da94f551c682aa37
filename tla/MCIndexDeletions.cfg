\* One of two pages vanishes and comes back; a statement fails or the daemon
\* restarts once.
SPECIFICATION Spec
CONSTANTS
    Pages = {1, 2}
    Writers = {"sync"}
    Sections <- OneSection
    Batch = 1
    StaleLimit = 1
    Skipped = {}
    MaxEdits <- OnceEach
    MaxId = 6
    MaxFaults = 1
    Deletable = {1}
    Returning = {1}
INVARIANTS
    TypeOK
PROPERTIES
    QueueDrains
    EmbeddingsKept
    OnlyOvertakenGoWrong
CHECK_DEADLOCK FALSE
